----------------------------- MODULE TurnOrder ------------------------------
(***************************************************************************)
(* What the turn order of a table promises, without steps, priority or     *)
(* cards: seats take normal turns in seating order, players who left are   *)
(* skipped, and an extra turn, the newest first, is inserted before the    *)
(* next normal turn without moving the place the order resumes from.       *)
(***************************************************************************)
EXTENDS Integers, Sequences

CONSTANT N   \* number of seats, as in Priority

VARIABLES
    turnOf,   \* whose turn it is
    cursor,   \* who took the last normal turn
    extra,    \* extra turns still owed, the next one first
    gone      \* who left the game

tvars == <<turnOf, cursor, extra, gone>>

Table == 0 .. (N - 1)

TurnInit ==
    /\ turnOf \in Table
    /\ cursor = turnOf
    /\ extra = <<>>
    /\ gone = {}

\* Players leave during a turn, and at most one extra turn is granted.
DuringTurn ==
    /\ gone \subseteq gone'
    /\ gone' \subseteq Table
    /\ UNCHANGED <<turnOf, cursor>>
    /\ \/ UNCHANGED extra
       \/ \E p \in Table \ gone : extra' = <<p>> \o extra

\* The newest extra turn of a player still in the game; older entries of players
\* who left are forgotten on the way.
TakeExtraTurn ==
    /\ gone \subseteq gone'
    /\ gone' \subseteq Table
    /\ \E i \in 1 .. Len(extra) :
          /\ extra[i] \notin gone
          /\ \A j \in 1 .. (i - 1) : extra[j] \in gone
          /\ turnOf' = extra[i]
          /\ extra' = SubSeq(extra, i + 1, Len(extra))
    /\ UNCHANGED cursor

\* The next seat after the last normal turn that is still occupied.
TakeNormalTurn ==
    /\ gone \subseteq gone'
    /\ gone' \subseteq Table
    /\ \A i \in 1 .. Len(extra) : extra[i] \in gone
    /\ \E k \in 1 .. N :
          /\ turnOf' = (cursor + k) % N
          /\ turnOf' \notin gone
          /\ \A j \in 1 .. (k - 1) : ((cursor + j) % N) \in gone
    /\ cursor' = turnOf'
    /\ extra' = <<>>

TurnNext == DuringTurn \/ TakeExtraTurn \/ TakeNormalTurn

TurnSpec == TurnInit /\ [][TurnNext]_tvars
=============================================================================
