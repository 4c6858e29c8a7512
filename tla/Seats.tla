------------------------------- MODULE Seats --------------------------------
(***************************************************************************)
(* The seats of a table, GameState.players: they are numbered, the code    *)
(* computes with the numbers, and a player who leaves keeps the number.    *)
(***************************************************************************)
EXTENDS Integers

CONSTANT N   \* number of seats at the table

ASSUME SeatsAssumption == N \in Nat /\ N >= 2

Seat == 0 .. (N - 1)
NoSeat == N                   \* Option::None where a player is expected

\* The first seat of S met when walking round the table after `from`; the
\* walk wraps once and looks at `from` itself last.
FirstAfter(from, S) ==
    LET k == CHOOSE k \in 1 .. N :
                 /\ ((from + k) % N) \in S
                 /\ \A j \in 1 .. N : ((from + j) % N) \in S => k <= j
    IN  (from + k) % N
=============================================================================
