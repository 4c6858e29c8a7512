------------------------------ MODULE Opening -------------------------------
(***************************************************************************)
(* The opening of a game (tricerules-core, engine/opening.rs): one player  *)
(* chooses who starts, players keep or mulligan in turn order, bottom the  *)
(* cards a mulligan costs, then take the actions their opening hands       *)
(* allow.  A player may concede at every point of it, and the decision     *)
(* that player held has to pass to somebody who is still there.            *)
(*                                                                         *)
(* One variable, op, holds the fields of OpeningSequence and the parts of  *)
(* GameState the opening touches.  Hands are counted, not listed: of a     *)
(* hand only its size and how many of its cards have an opening-hand       *)
(* action (Gemstone Caverns) matter here.  Every command is one step.      *)
(***************************************************************************)
EXTENDS Seats, FiniteSets

CONSTANTS
    HandSize,     \* MAX_HAND_SIZE, and the seven cards an opening hand has
    MaxCaverns    \* bound: cards with an opening-hand action in a new hand

ASSUME HandAssumption ==
    HandSize \in Nat \ {0} /\ MaxCaverns \in Nat /\ MaxCaverns <= HandSize

VARIABLE op

Bottoming == [player : 0 .. N, left : 0 .. HandSize]
NoBottom == [player |-> NoSeat, left |-> 0]

\* bottom is Option<(player, left)>, window the actor of the OpeningHandWindow
\* and finished its flags, parked the player whose opening-hand action waits
\* for an answer.
State == [lost : SUBSET Seat,
          over : BOOLEAN,                        \* is_terminal()
          opening : BOOLEAN,                     \* opening.is_some()
          chooser : Seat,
          starting : 0 .. N,                     \* starting_player
          original : 0 .. N,                     \* original_starting_player
          actor : 0 .. N,                        \* mulligan_actor
          bottom : Bottoming,
          taken : [Seat -> 0 .. (HandSize + 1)], \* mulligans_taken
          resolved : SUBSET Seat,
          window : 0 .. N,                       \* hand_window.actor
          finished : SUBSET Seat,                \* hand_window.finished
          parked : 0 .. N,
          active : Seat,                         \* active_player_idx
          priority : Seat,                       \* priority_idx
          hand : [Seat -> 0 .. HandSize],
          caverns : [Seat -> 0 .. HandSize]]

Live(s) == Seat \ s.lost
NextInGame(s, from) == FirstAfter(from, Live(s))

\* Mutant: the free mulligan of a table of three ends when a player leaves it.
BottomCountByLivePlayers(s, k) ==
    IF Cardinality(Live(s)) > 2 /\ k > 0 THEN k - 1 ELSE k

\* What k mulligans cost: the first one is free at a table of three or more.
\* The code counts seats, so a departure does not change the price.
BottomCount(s, k) == IF N > 2 /\ k > 0 THEN k - 1 ELSE k

(***************************************************************************)
(* Who is next.                                                            *)
(***************************************************************************)

\* opening_gemstone_cards: who has an opening-hand action left to take.
Eligible(s) ==
    {q \in Live(s) \ s.finished : q # s.original /\ s.caverns[q] > 0}

BeginGame(s) ==
    [s EXCEPT !.opening = FALSE, !.window = NoSeat, !.finished = {},
              !.active = s.starting, !.priority = s.starting]

\* opening_advance_hand_window: offer the window to the first seat from start
\* on that can use it; seats passed over are finished.  With none left the
\* first turn begins.
AdvanceHandWindow(s, start) ==
    LET Dist(q) == (q + N - start) % N
        who == FirstAfter((start + N - 1) % N, Eligible(s))
    IN  IF Eligible(s) = {} THEN BeginGame(s)
        ELSE [s EXCEPT !.window = who,
                       !.priority = who,
                       !.finished = @ \cup {q \in Seat : Dist(q) < Dist(who)}]

\* Mutant: the seat that was asked first is asked again before the others.
MulliganFromTheFirstSeat(s, previous) ==
    LET who == FirstAfter(N - 1, Seat \ s.resolved)
    IN  [s EXCEPT !.actor = who, !.priority = who]

\* Mutant: the walk does not wrap.
NextMulliganNoWrap(s, previous) ==
    [s EXCEPT !.actor = previous + 1, !.priority = previous + 1]

\* opening_set_next_actor_after_mulligan: round the table, and back to the
\* player who mulliganed only if everybody else has kept.
NextMulligan(s, previous) ==
    LET who == FirstAfter(previous, Seat \ s.resolved)
    IN  [s EXCEPT !.actor = who, !.priority = who]

\* opening_pick_next_or_finish.
PickNextOrFinish(s, previous) ==
    IF s.resolved = Seat
    THEN AdvanceHandWindow([s EXCEPT !.window = s.original, !.finished = {}], s.original)
    ELSE NextMulligan(s, previous)

(***************************************************************************)
(* Commands.                                                               *)
(***************************************************************************)

\* apply_command refuses everything after the end and every departed player.
MayAct(p) == op.opening /\ ~op.over /\ p \in Live(op)

\* Cards with an opening-hand action that the players of P may be dealt.
NewCaverns(P) ==
    {f \in [Seat -> 0 .. MaxCaverns] : \A q \in Seat \ P : f[q] = op.caverns[q]}

ChooseStartingPlayer(p) ==
    /\ MayAct(p)
    /\ op.starting = NoSeat
    /\ p = op.chooser
    /\ \E sp \in Live(op), new \in NewCaverns(Live(op)) :
          op' = [op EXCEPT !.starting = sp, !.original = sp, !.actor = sp,
                           !.active = sp, !.priority = sp,
                           !.hand = [q \in Seat |-> IF q \in Live(op) THEN HandSize ELSE 0],
                           !.caverns = new]

Deciding(p) == MayAct(p) /\ op.bottom.player = NoSeat /\ op.actor = p

Keep(p) ==
    /\ Deciding(p)
    /\ LET cost == BottomCount(op, op.taken[p])
       IN  op' = IF cost = 0
                 THEN PickNextOrFinish([op EXCEPT !.resolved = @ \cup {p}, !.actor = NoSeat], p)
                 ELSE [op EXCEPT !.bottom = [player |-> p, left |-> cost]]

\* A mulligan down to nothing is kept at once.
Mulligan(p) ==
    /\ Deciding(p)
    /\ \E new \in NewCaverns({p}) :
          LET s == [op EXCEPT !.taken[p] = @ + 1, !.hand[p] = HandSize, !.caverns = new]
              cost == BottomCount(s, s.taken[p])
          IN  op' = IF cost >= HandSize
                    THEN [s EXCEPT !.bottom = [player |-> p, left |-> cost]]
                    ELSE NextMulligan(s, p)

\* The sizes of a hand after `used` of its cards with an opening-hand action
\* and `others` of the rest left it.
Without(s, p, used, others) ==
    [s EXCEPT !.hand[p] = @ - used - others, !.caverns[p] = @ - used]

Holds(s, p, used, others) ==
    used <= s.caverns[p] /\ others <= s.hand[p] - s.caverns[p]

PutOnBottom(p) ==
    /\ MayAct(p)
    /\ op.bottom.player = p
    /\ \E used \in {0, 1} :
          /\ Holds(op, p, used, 1 - used)
          /\ LET s == Without(op, p, used, 1 - used)
             IN  op' = IF op.bottom.left > 1
                       THEN [s EXCEPT !.bottom.left = @ - 1]
                       ELSE PickNextOrFinish([s EXCEPT !.bottom = NoBottom, !.actor = NoSeat,
                                                       !.resolved = @ \cup {p}], p)

InWindow(p) == MayAct(p) /\ op.window = p

FinishOpeningHandActions(p) ==
    /\ InWindow(p)
    /\ op.parked = NoSeat
    /\ op' = AdvanceHandWindow([op EXCEPT !.finished = @ \cup {p}], (p + 1) % N)

\* commit_opening_hand_entry: the card enters, and another card of the hand,
\* if there is one, is exiled for it.
CommitEntry(s, p) ==
    LET exiled == IF s.hand[p] > 1 THEN 1 ELSE 0
    IN  {AdvanceHandWindow(Without(s, p, 1 + more, exiled - more), p) :
            more \in {x \in 0 .. exiled : Holds(s, p, 1 + x, exiled - x)}}

\* The entry is parked on a choice, committed, or skipped.
BeginWithGemstoneCaverns(p) ==
    /\ InWindow(p)
    /\ op.parked = NoSeat
    /\ op.caverns[p] > 0
    /\ \/ op' = [op EXCEPT !.parked = p]
       \/ op' \in CommitEntry(op, p)
       \/ op' = AdvanceHandWindow(op, p)

\* SubmitResolutionChoice while the opening lasts.
AnswerEntryChoice(p) ==
    /\ InWindow(p)
    /\ op.parked = p
    /\ LET s == [op EXCEPT !.parked = NoSeat]
       IN  op' \in CommitEntry(s, p) \cup {AdvanceHandWindow(s, p)}

(***************************************************************************)
(* Departure.                                                              *)
(***************************************************************************)

\* Mutant: the entry of a player who leaves stays parked.
KeepParkedEntry(s, p) == s

\* The opening-hand action of a player who leaves is abandoned before the
\* window is handed on.
AbandonEntry(s, p) == IF s.parked = p THEN [s EXCEPT !.parked = NoSeat] ELSE s

\* Mutant: the first turn stays with the seat that was chosen.
ChosenSeatStarts(s, p) == s

PassOnFirstTurn(s, p) ==
    IF s.starting = p
    THEN [s EXCEPT !.starting = NextInGame(s, p), !.active = NextInGame(s, p)]
    ELSE s

\* Mutant: only a player who is deciding, not one who is bottoming, is replaced.
ReplaceDeciderOnly(s, p) ==
    IF s.actor = p /\ s.bottom.player # p
    THEN PickNextOrFinish([s EXCEPT !.actor = NoSeat, !.bottom = NoBottom], p)
    ELSE s

ReplaceMulliganActor(s, p) ==
    IF s.actor = p \/ s.bottom.player = p
    THEN PickNextOrFinish([s EXCEPT !.actor = NoSeat, !.bottom = NoBottom], p)
    ELSE s

\* Mutant: a window whose actor leaves is not handed on.
KeepWindow(s, p) == [s EXCEPT !.finished = @ \cup {p}]

HandOnWindow(s, p) ==
    LET t == [s EXCEPT !.finished = @ \cup {p}]
    IN  IF s.window = p THEN AdvanceHandWindow(t, NextInGame(t, p)) ELSE t

\* reconcile_opening_departure: a departed seat counts as resolved, and every
\* role it had in the opening goes to somebody else.
ReconcileOpeningDeparture(s, p) ==
    LET t == [AbandonEntry(s, p) EXCEPT !.resolved = @ \cup {p}]
        u == PassOnFirstTurn(t, p)
    IN  IF t.starting = NoSeat
        THEN IF t.chooser = p
             THEN [t EXCEPT !.chooser = NextInGame(t, p), !.priority = NextInGame(t, p)]
             ELSE t
        ELSE IF u.window # NoSeat THEN HandOnWindow(u, p)
             ELSE ReplaceMulliganActor(u, p)

\* concede_batch: the last survivor wins and the opening is dropped.
Concede(p) ==
    /\ MayAct(p)
    /\ LET s == [op EXCEPT !.lost = @ \cup {p}, !.hand[p] = 0, !.caverns[p] = 0]
           t == ReconcileOpeningDeparture(s, p)
       IN  op' = IF Cardinality(Live(s)) <= 1
                 THEN [s EXCEPT !.over = TRUE, !.opening = FALSE, !.parked = NoSeat]
                 ELSE IF t.priority \in t.lost
                      THEN [t EXCEPT !.priority = NextInGame(t, t.priority)]
                      ELSE t

Init ==
    \E chooser \in Seat :
        op = [lost |-> {}, over |-> FALSE, opening |-> TRUE, chooser |-> chooser,
              starting |-> NoSeat, original |-> NoSeat, actor |-> NoSeat,
              bottom |-> NoBottom, taken |-> [q \in Seat |-> 0], resolved |-> {},
              window |-> NoSeat, finished |-> {}, parked |-> NoSeat,
              active |-> chooser, priority |-> chooser,
              hand |-> [q \in Seat |-> 0], caverns |-> [q \in Seat |-> 0]]

\* A decision the table waits for.
Decide(p) ==
    \/ ChooseStartingPlayer(p) \/ Keep(p) \/ Mulligan(p) \/ PutOnBottom(p)
    \/ FinishOpeningHandActions(p) \/ AnswerEntryChoice(p)

Next ==
    \E p \in Seat :
        \/ ChooseStartingPlayer(p) \/ Keep(p) \/ Mulligan(p) \/ PutOnBottom(p)
        \/ FinishOpeningHandActions(p) \/ BeginWithGemstoneCaverns(p)
        \/ AnswerEntryChoice(p) \/ Concede(p)

Spec == Init /\ [][Next]_op

\* Every player who is asked answers in the end, and a player who can finish
\* the opening-hand actions again and again does so once.  The engine has no
\* clock of its own, so this is what the progress of the opening depends on.
FairSpec ==
    /\ Spec
    /\ \A p \in Seat : WF_op(Decide(p)) /\ SF_op(FinishOpeningHandActions(p))

-----------------------------------------------------------------------------
(***************************************************************************)
(* Properties.                                                             *)
(***************************************************************************)

\* The state keeps its types; every seat the walks compute exists.
TypeOK == op \in State

\* Whoever the opening waits for.
Decider ==
    IF op.starting = NoSeat THEN op.chooser
    ELSE IF op.window # NoSeat THEN op.window ELSE op.actor

\* While the opening lasts it waits for exactly one player, who is in the game,
\* has not finished that part of the opening, and is the player shown to have
\* priority; whoever bottoms cards is that player.  Every departure has to keep
\* it so (reconcile_opening_departure).
OneDecider ==
    op.opening =>
        /\ Decider \in Live(op)
        /\ op.priority = Decider
        /\ op.starting # NoSeat /\ op.window = NoSeat => op.actor \notin op.resolved
        /\ op.window # NoSeat => op.resolved = Seat /\ op.window \notin op.finished
        /\ op.bottom.player # NoSeat => op.bottom.player = op.actor

\* Mulligans go round the table: of two players who have not kept yet, neither
\* is more than one mulligan ahead of the other (CR 103.4, next_unresolved_from).
MulligansGoRound ==
    op.opening =>
        \A p, q \in Seat \ op.resolved : op.taken[p] <= op.taken[q] + 1

\* What k mulligans cost at a table of this size.
Price(k) == IF N > 2 /\ k > 0 THEN k - 1 ELSE k

\* A player who kept holds what that many mulligans leave at a table this size,
\* whoever left in the meantime; one who is bottoming has put back the cards no
\* longer owed, and one still to decide holds a full hand.
HandsAsPromised ==
    op.opening /\ op.starting # NoSeat /\ op.window = NoSeat =>
        \A p \in Live(op) :
            op.hand[p] = HandSize - (IF p \in op.resolved THEN Price(op.taken[p])
                                     ELSE IF op.bottom.player = p
                                          THEN Price(op.taken[p]) - op.bottom.left
                                          ELSE 0)

\* The first turn belongs to the first player still in the game at or after the
\* seat that was chosen, however many departures moved it there, and the game
\* begins with that player active and holding priority.
FirstLiveStarts ==
    op.starting # NoSeat /\ ~op.over =>
        /\ op.starting = FirstAfter((op.original + N - 1) % N, Live(op))
        /\ op.active = op.starting
        /\ ~op.opening => op.priority = op.starting

\* A parked opening-hand action belongs to the player the window is open for,
\* who is in the game, still holds the card and is not the player chosen to
\* start: nothing is parked for anybody else after any departure.
NoOrphanEntry ==
    op.parked # NoSeat =>
        /\ op.opening
        /\ op.parked = op.window
        /\ op.parked \in Live(op)
        /\ op.parked # op.original
        /\ op.caverns[op.parked] > 0

\* If the players who are asked answer, the opening ends in a first turn or in
\* the end of the game.
OpeningEnds == <>(~op.opening)
=============================================================================
