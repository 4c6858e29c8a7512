---------------------------- MODULE OpeningProofs ---------------------------
(***************************************************************************)
(* Proofs about the opening, for every number of seats and every size of   *)
(* the opening hand.                                                       *)
(***************************************************************************)
EXTENDS Opening, SeatsProofs, FiniteSetTheorems, TLAPS

(***************************************************************************)
(* The inductive invariant.  The opening is in one of three phases, and    *)
(* each says who is waited for, what that player may still have to do and  *)
(* what nobody has done yet.                                               *)
(***************************************************************************)

\* The first turn falls to the first player in the game from the chosen seat on.
FirstTurn(s) ==
    /\ s.original \in Seat
    /\ s.starting = FirstAfter((s.original + N - 1) % N, Live(s))
    /\ s.starting \in Live(s)
    /\ s.active = s.starting

\* Nobody has been chosen yet.
Choosing(s) ==
    /\ s.starting = NoSeat
    /\ s.window = NoSeat
    /\ s.actor = NoSeat
    /\ s.bottom.player = NoSeat
    /\ s.parked = NoSeat
    /\ s.chooser \in Live(s)
    /\ s.priority = s.chooser
    /\ s.resolved = s.lost
    /\ s.taken = [q \in Seat |-> 0]

\* The place of a seat in the round of mulligans.
Rank(s, q) == Ahead((s.original + N - 1) % N, q)

\* In the round that follows m mulligans of everybody, the undecided players
\* before the actor have taken one more and the ones behind have not.  The actor
\* has taken one more only when it was the last, and is bottoming a whole hand.
InRound(s) ==
    \E m \in 0 .. (HandSize + 1) : \A q \in Seat \ s.resolved :
        IF q = s.actor
        THEN s.taken[q] = m \/ (s.taken[q] = m + 1 /\ s.bottom.player = q)
        ELSE s.taken[q] = IF Rank(s, q) < Rank(s, s.actor) THEN m + 1 ELSE m

\* The hands are what the mulligans leave, and only who has just mulliganed to
\* nothing has taken the last mulligan there is.
Dealt(s) ==
    /\ \A q \in Live(s) :
          s.hand[q] = HandSize - (IF q \in s.resolved THEN Price(s.taken[q])
                                  ELSE IF s.bottom.player = q
                                       THEN Price(s.taken[q]) - s.bottom.left
                                       ELSE 0)
    /\ \A q \in Seat \ s.resolved : s.bottom.player # q => Price(s.taken[q]) < HandSize
    /\ s.bottom.player # NoSeat => s.bottom.left >= 1

\* Players keep, mulligan and bottom.
Mulliganing(s) ==
    /\ FirstTurn(s)
    /\ s.window = NoSeat
    /\ s.parked = NoSeat
    /\ s.lost \subseteq s.resolved
    /\ s.actor \in Seat \ s.resolved
    /\ s.priority = s.actor
    /\ s.bottom.player \in {NoSeat, s.actor}
    /\ Dealt(s)
    /\ InRound(s)

\* Everybody has kept, and somebody may use an opening hand.
HandActions(s) ==
    /\ FirstTurn(s)
    /\ s.window \in Eligible(s)
    /\ s.priority = s.window
    /\ s.parked \in {NoSeat, s.window}
    /\ s.resolved = Seat
    /\ s.actor = NoSeat
    /\ s.bottom.player = NoSeat

\* The first turn has begun.
Begun(s) ==
    /\ FirstTurn(s)
    /\ s.priority = s.starting
    /\ s.parked = NoSeat

Good(s) ==
    /\ s \in State
    /\ s.opening => ~s.over /\ (Choosing(s) \/ Mulliganing(s) \/ HandActions(s))
    /\ ~s.opening => s.parked = NoSeat /\ (s.over \/ Begun(s))

Inv == Good(op)
-----------------------------------------------------------------------------
(***************************************************************************)
(* Handing on.                                                             *)
(***************************************************************************)

\* A seat is a number, and NoSeat is not a seat.
LEMMA SeatFacts == Seat \subseteq Nat /\ Seat \subseteq 0 .. N /\ NoSeat \in 0 .. N /\ NoSeat \notin Seat
  BY SeatsAssumption DEF Seat, NoSeat

\* opening_advance_hand_window gives the window to somebody who can use it, or
\* begins the first turn with the player it belongs to.
LEMMA AdvanceHandWindowGood ==
    ASSUME NEW u \in State, u.opening, ~u.over, FirstTurn(u), u.resolved = Seat,
           u.actor = NoSeat, u.bottom.player = NoSeat, u.parked = NoSeat,
           NEW start \in Seat
    PROVE  Good(AdvanceHandWindow(u, start)) /\ ~AdvanceHandWindow(u, start).over
  <1> DEFINE t == AdvanceHandWindow(u, start)
  <1>1. CASE Eligible(u) = {}
    <2>1. u.starting \in Seat
      BY DEF FirstTurn, Live
    <2>2. t = BeginGame(u)
      BY <1>1 DEF AdvanceHandWindow
    <2>3. /\ t \in State
          /\ t.opening = FALSE /\ t.over = u.over /\ t.lost = u.lost
          /\ t.original = u.original /\ t.starting = u.starting
          /\ t.active = u.starting /\ t.priority = u.starting /\ t.parked = u.parked
      BY ZenonT(60), <2>1, <2>2, SeatFacts DEF BeginGame, State
    <2> HIDE DEF t
    <2>4. FirstTurn(t) /\ Begun(t)
      BY <2>3 DEF FirstTurn, Live, Begun
    <2> QED  BY <2>3, <2>4 DEF Good, t
  <1>2. CASE Eligible(u) # {}
    <2> DEFINE before == (start + N - 1) % N
               who == FirstAfter(before, Eligible(u))
               done == u.finished \cup {q \in Seat : (q + N - start) % N < (who + N - start) % N}
    <2>1. before \in Seat /\ Eligible(u) \in SUBSET Seat
      BY SeatBefore DEF Eligible, Live
    <2>2. who \in Eligible(u) /\ who \in Seat
      BY <1>2, <2>1, FirstAfterInSet
    <2>3. t = [u EXCEPT !.window = who, !.priority = who, !.finished = done]
      BY <1>2 DEF AdvanceHandWindow
    <2> HIDE DEF who
    <2>4. done \in SUBSET Seat
      BY DEF State
    <2>5. ~((who + N - start) % N < (who + N - start) % N)
      <3>1. who + N - start \in Int /\ N \in Nat /\ N > 0
        BY <2>2, SeatsAssumption, SeatFacts DEF Seat
      <3> DEFINE d == (who + N - start) % N
      <3>2. d \in Int
        BY <3>1
      <3> HIDE DEF d
      <3>3. ~(d < d)
        BY <3>2
      <3> QED  BY <3>3 DEF d
    <2>6. who \notin u.finished
      BY <2>2 DEF Eligible
    <2>7. who \notin done
      BY <2>5, <2>6
    <2> HIDE DEF done
    <2>8. /\ t \in State
          /\ t.opening = u.opening /\ t.over = u.over /\ t.lost = u.lost
          /\ t.original = u.original /\ t.starting = u.starting
          /\ t.active = u.active /\ t.priority = who /\ t.window = who
          /\ t.parked = u.parked /\ t.finished = done /\ t.caverns = u.caverns
          /\ t.resolved = u.resolved /\ t.actor = u.actor /\ t.bottom = u.bottom
      BY ZenonT(60), <2>2, <2>3, <2>4, SeatFacts DEF State
    <2> HIDE DEF t
    <2>9. who \in Eligible(t)
      BY <2>2, <2>7, <2>8 DEF Eligible, Live
    <2>10. FirstTurn(t)
      BY <2>8 DEF FirstTurn, Live
    <2>11. HandActions(t)
      BY <2>8, <2>9, <2>10 DEF HandActions
    <2> QED  BY <2>8, <2>11 DEF Good, t
  <1> QED  BY <1>1, <1>2

\* Ranks are places in one round: different seats have different ranks, and
\* the walk from a seat meets the ranks behind it first.
LEMMA Ranks ==
    ASSUME NEW s, s.original \in Seat, NEW p \in Seat, NEW q \in Seat
    PROVE  /\ Rank(s, p) \in 1 .. N
           /\ Rank(s, p) = Rank(s, q) => p = q
           /\ Ahead(p, q) = (IF Rank(s, q) > Rank(s, p) THEN Rank(s, q) - Rank(s, p)
                             ELSE Rank(s, q) - Rank(s, p) + N)
  <1> DEFINE b == (s.original + N - 1) % N
  <1>1. b \in Seat
    BY SeatBefore
  <1>2. Rank(s, p) = Ahead(b, p) /\ Rank(s, q) = Ahead(b, q)
    BY DEF Rank
  <1> HIDE DEF b
  <1> QED  BY <1>1, <1>2, SeatsAssumption DEF Ahead, Seat

\* The opening between two mulligan decisions: p has decided or is gone, and the
\* next player is to be found.
Between(u, p) ==
    /\ u \in State /\ u.opening /\ ~u.over
    /\ FirstTurn(u)
    /\ u.window = NoSeat /\ u.parked = NoSeat /\ u.bottom.player = NoSeat
    /\ u.lost \subseteq u.resolved
    /\ Dealt(u)
    /\ \E m \in 0 .. (HandSize + 1) : \A q \in Seat \ u.resolved :
          u.taken[q] = IF Rank(u, q) <= Rank(u, p) THEN m + 1 ELSE m

\* opening_set_next_actor_after_mulligan keeps the round of mulligans in order,
\* whether or not the walk passes the seat the round began with.
LEMMA NextMulliganGood ==
    ASSUME NEW p \in Seat, NEW u, Between(u, p), u.resolved # Seat
    PROVE  Good(NextMulligan(u, p)) /\ ~NextMulligan(u, p).over
  <1> DEFINE U == Seat \ u.resolved
             who == FirstAfter(p, U)
             t == NextMulligan(u, p)
  <1>1. u \in State /\ u.original \in Seat
    BY DEF Between, FirstTurn
  <1>2. U \in SUBSET Seat /\ U # {}
    BY <1>1 DEF State, Between
  <1>3. who \in U /\ \A q \in U : Ahead(p, who) <= Ahead(p, q)
    BY <1>2, FirstAfterIsNearest
  <1>4. t = [u EXCEPT !.actor = who, !.priority = who]
    BY DEF NextMulligan
  <1> HIDE DEF who
  <1>5. who \in Seat
    BY <1>3
  <1>6. /\ t \in State /\ t.opening /\ ~t.over /\ t.lost = u.lost /\ t.starting = u.starting
        /\ t.original = u.original /\ t.active = u.active /\ t.window = NoSeat
        /\ t.parked = NoSeat /\ t.bottom = u.bottom /\ t.resolved = u.resolved
        /\ t.actor = who /\ t.priority = who /\ t.taken = u.taken /\ t.hand = u.hand
    <2>1. t \in State
      BY <1>1, <1>4, <1>5, SeatFacts, ZenonT(60) DEF State
    <2>2. /\ t.opening = u.opening /\ t.over = u.over /\ t.lost = u.lost
          /\ t.starting = u.starting /\ t.original = u.original /\ t.active = u.active
          /\ t.window = u.window /\ t.parked = u.parked /\ t.bottom = u.bottom
          /\ t.resolved = u.resolved /\ t.actor = who /\ t.priority = who
          /\ t.taken = u.taken /\ t.hand = u.hand
      BY <1>1, <1>4 DEF State
    <2> HIDE DEF t
    <2> QED  BY <2>1, <2>2 DEF Between
  <1> HIDE DEF t
  <1>7. FirstTurn(t)
    BY <1>6 DEF Between, FirstTurn, Live
  <1>8. Dealt(t)
    BY <1>6 DEF Between, Dealt, Live
  <1>9. InRound(t)
    <2>1. PICK m \in 0 .. (HandSize + 1) :
              \A q \in U : u.taken[q] = IF Rank(u, q) <= Rank(u, p) THEN m + 1 ELSE m
      BY DEF Between
    <2>2. \A q \in U : /\ q \in Seat /\ Rank(t, q) = Rank(u, q) /\ Rank(u, q) \in 1 .. N
                       /\ u.taken[q] \in 0 .. (HandSize + 1)
      BY <1>1, <1>2, <1>6, Ranks DEF Rank, State
    <2>3. Rank(u, p) \in 1 .. N /\ Rank(u, who) \in 1 .. N
      BY <1>1, <1>5, Ranks
    <2>4. ASSUME NEW q \in U
          PROVE  /\ Rank(u, who) > Rank(u, p) /\ Rank(u, q) < Rank(u, who)
                       => Rank(u, q) <= Rank(u, p)
                 /\ Rank(u, who) <= Rank(u, p)
                       => Rank(u, q) <= Rank(u, p) /\ Rank(u, who) <= Rank(u, q)
      <3>1. Ahead(p, who) = (IF Rank(u, who) > Rank(u, p) THEN Rank(u, who) - Rank(u, p)
                             ELSE Rank(u, who) - Rank(u, p) + N)
        BY <1>1, <1>5, Ranks
      <3>2. Ahead(p, q) = (IF Rank(u, q) > Rank(u, p) THEN Rank(u, q) - Rank(u, p)
                           ELSE Rank(u, q) - Rank(u, p) + N)
        BY <1>1, <2>2, Ranks
      <3>3. Ahead(p, who) <= Ahead(p, q)
        BY <1>3
      <3> QED  BY <2>2, <2>3, <3>1, <3>2, <3>3, SeatsAssumption
    <2> DEFINE F(n) == \A q \in Seat \ t.resolved :
                          IF q = t.actor
                          THEN t.taken[q] = n \/ (t.taken[q] = n + 1 /\ t.bottom.player = q)
                          ELSE t.taken[q] = IF Rank(t, q) < Rank(t, t.actor) THEN n + 1 ELSE n
    <2>5. CASE Rank(u, who) > Rank(u, p)
      <3>1. ASSUME NEW q \in U
            PROVE  IF q = who THEN u.taken[q] = m
                   ELSE u.taken[q] = IF Rank(u, q) < Rank(u, who) THEN m + 1 ELSE m
        <4>1. /\ Rank(u, q) < Rank(u, who) => Rank(u, q) <= Rank(u, p)
              /\ Rank(u, q) \in 1 .. N
          BY <2>2, <2>4, <2>5
        <4>2. u.taken[q] = IF Rank(u, q) <= Rank(u, p) THEN m + 1 ELSE m
          BY <2>1
        <4>3. CASE q = who
          BY <2>3, <2>5, <4>2, <4>3
        <4>4. CASE q # who
          <5>1. Rank(u, q) # Rank(u, who)
            BY <1>1, <1>5, <2>2, <4>4, Ranks
          <5> QED  BY <2>3, <2>5, <4>1, <4>2, <4>4, <5>1
        <4> QED  BY <4>3, <4>4
      <3>2. F(m)
        BY <1>3, <1>6, <2>2, <3>1
      <3> QED  BY <3>2 DEF InRound
    <2>6. CASE Rank(u, who) <= Rank(u, p)
      <3>1. \A q \in U : u.taken[q] = m + 1
        BY <2>1, <2>4, <2>6
      <3>2. m + 1 \in 0 .. (HandSize + 1)
        BY <1>3, <2>2, <3>1
      <3>3. \A q \in U : ~(Rank(u, q) < Rank(u, who))
        BY <2>2, <2>3, <2>4, <2>6
      <3>4. F(m + 1)
        BY <1>3, <1>6, <2>2, <3>1, <3>3
      <3> HIDE DEF F
      <3>5. \E n \in 0 .. (HandSize + 1) : F(n)
        BY <3>2, <3>4
      <3> QED  BY <3>5 DEF InRound, F
    <2> QED  BY <2>3, <2>5, <2>6
  <1>10. Mulliganing(t)
    BY <1>3, <1>6, <1>7, <1>8, <1>9 DEF Mulliganing, Between
  <1> QED  BY <1>6, <1>10 DEF Good, t

\* opening_pick_next_or_finish: the next decision is somebody's, or the window
\* for opening hands opens, or the game begins.
LEMMA PickNextOrFinishGood ==
    ASSUME NEW p \in Seat, NEW u, Between(u, p), u.actor = NoSeat
    PROVE  Good(PickNextOrFinish(u, p)) /\ ~PickNextOrFinish(u, p).over
  <1>1. CASE u.resolved # Seat
    BY <1>1, NextMulliganGood DEF PickNextOrFinish
  <1>2. CASE u.resolved = Seat
    <2> DEFINE v == [u EXCEPT !.window = u.original, !.finished = {}]
    <2>1. u \in State /\ u.original \in Seat
      BY DEF Between, FirstTurn
    <2>2. /\ v \in State /\ v.opening /\ ~v.over /\ v.lost = u.lost /\ v.starting = u.starting
          /\ v.original = u.original /\ v.active = u.active
          /\ v.parked = NoSeat /\ v.bottom = u.bottom /\ v.resolved = Seat /\ v.actor = NoSeat
      BY <1>2, <2>1, SeatFacts DEF State, Between
    <2>3. PickNextOrFinish(u, p) = AdvanceHandWindow(v, u.original)
      BY <1>2 DEF PickNextOrFinish
    <2> HIDE DEF v
    <2>4. FirstTurn(v) /\ v.bottom.player = NoSeat
      BY <2>2 DEF Between, FirstTurn, Live
    <2> QED  BY <2>1, <2>2, <2>3, <2>4, AdvanceHandWindowGood
  <1> QED  BY <1>1, <1>2
-----------------------------------------------------------------------------
(***************************************************************************)
(* Initial states and commands.                                            *)
(***************************************************************************)

\* Before anybody has chosen the invariant holds.
LEMMA InitInv == Init => Inv
  <1> SUFFICES ASSUME Init PROVE Inv
    OBVIOUS
  <1>1. PICK c \in Seat :
          op = [lost |-> {}, over |-> FALSE, opening |-> TRUE, chooser |-> c,
                starting |-> NoSeat, original |-> NoSeat, actor |-> NoSeat,
                bottom |-> NoBottom, taken |-> [q \in Seat |-> 0], resolved |-> {},
                window |-> NoSeat, finished |-> {}, parked |-> NoSeat,
                active |-> c, priority |-> c,
                hand |-> [q \in Seat |-> 0], caverns |-> [q \in Seat |-> 0]]
    BY DEF Init
  <1>2. NoBottom \in Bottoming /\ NoBottom.player = NoSeat
    BY SeatFacts, HandAssumption DEF NoBottom, Bottoming
  <1>3. [q \in Seat |-> 0] \in [Seat -> 0 .. (HandSize + 1)]
        /\ [q \in Seat |-> 0] \in [Seat -> 0 .. HandSize]
    BY HandAssumption
  <1>4. /\ op.lost = {} /\ op.over = FALSE /\ op.opening = TRUE /\ op.chooser = c
        /\ op.starting = NoSeat /\ op.original = NoSeat /\ op.actor = NoSeat
        /\ op.bottom = NoBottom /\ op.taken = [q \in Seat |-> 0] /\ op.resolved = {}
        /\ op.window = NoSeat /\ op.parked = NoSeat /\ op.priority = c
    BY <1>1
  <1>5. op \in State
    BY ZenonT(60), <1>1, <1>2, <1>3, SeatFacts DEF State
  <1>6. Choosing(op)
    BY <1>2, <1>4 DEF Choosing, Live
  <1> QED  BY <1>4, <1>5, <1>6 DEF Inv, Good

\* The price of a mulligan more is at most one card more.
LEMMA Prices ==
    ASSUME NEW k \in Nat
    PROVE  /\ Price(k) \in Nat /\ Price(k) <= k /\ k <= Price(k) + 1
           /\ Price(k + 1) <= Price(k) + 1
           /\ Price(0) = 0
  BY SeatsAssumption DEF Price

\* A player who may decide is the one the mulligans wait for.
LEMMA DecidingIsMulliganing ==
    ASSUME Inv, NEW p \in Seat, MayAct(p), op.actor = p \/ op.bottom.player = p
    PROVE  op \in State /\ Mulliganing(op) /\ op.actor = p
  BY SeatFacts DEF Inv, Good, MayAct, Choosing, HandActions, Mulliganing

\* A player in the window for opening hands is the one it is open for.
LEMMA InWindowIsHandActions ==
    ASSUME Inv, NEW p \in Seat, InWindow(p)
    PROVE  op \in State /\ op.opening /\ ~op.over /\ HandActions(op)
  BY SeatFacts DEF Inv, Good, InWindow, MayAct, Choosing, Mulliganing

\* The choice of the first player starts a round of mulligans nobody has moved in.
LEMMA ChooseInv ==
    ASSUME Inv, NEW p \in Seat, ChooseStartingPlayer(p) PROVE Inv'
  <1>1. op \in State /\ op.opening /\ ~op.over /\ Choosing(op)
    BY SeatFacts DEF Inv, Good, ChooseStartingPlayer, MayAct, Mulliganing, HandActions,
                     FirstTurn, Live
  <1>2. PICK sp \in Live(op), new \in NewCaverns(Live(op)) :
          op' = [op EXCEPT !.starting = sp, !.original = sp, !.actor = sp,
                           !.active = sp, !.priority = sp,
                           !.hand = [q \in Seat |-> IF q \in Live(op) THEN HandSize ELSE 0],
                           !.caverns = new]
    BY DEF ChooseStartingPlayer
  <1> DEFINE h == [q \in Seat |-> IF q \in Live(op) THEN HandSize ELSE 0]
  <1>3. sp \in Seat /\ h \in [Seat -> 0 .. HandSize] /\ new \in [Seat -> 0 .. HandSize]
    BY HandAssumption DEF NewCaverns, Live
  <1>4. \A q \in Live(op) : h[q] = HandSize
    BY DEF Live
  <1> HIDE DEF h
  <1>5. op' \in State
    BY ZenonT(60), <1>1, <1>2, <1>3, SeatFacts DEF State, h
  <1>6. /\ op'.opening = op.opening /\ op'.over = op.over /\ op'.lost = op.lost
        /\ op'.starting = sp /\ op'.original = sp /\ op'.actor = sp /\ op'.active = sp
        /\ op'.priority = sp /\ op'.hand = h /\ op'.taken = op.taken
        /\ op'.resolved = op.resolved /\ op'.window = op.window /\ op'.parked = op.parked
        /\ op'.bottom = op.bottom
    BY <1>1, <1>2 DEF State, h
  <1> DEFINE t == op'
  <1> HIDE DEF t
  <1>7. FirstTurn(t)
    <2> DEFINE b == (sp + N - 1) % N
    <2>1. b \in Seat /\ b = (IF sp = 0 THEN N - 1 ELSE sp - 1)
      BY <1>3, SeatBefore
    <2> HIDE DEF b
    <2>2. \A q \in Live(op) : Ahead(b, sp) <= Ahead(b, q)
      <3>1. Ahead(b, sp) = 1
        BY <1>3, <2>1, SeatsAssumption DEF Ahead, Seat
      <3>2. \A q \in Seat : Ahead(b, q) >= 1
        BY <2>1, SeatsAssumption DEF Ahead, Seat
      <3> QED  BY <3>1, <3>2 DEF Live
    <2>3. Live(op) \in SUBSET Seat /\ sp \in Live(op)
      BY DEF Live
    <2>4. FirstAfter(b, Live(op)) = sp
      BY <2>1, <2>2, <2>3, NearestIsFirstAfter
    <2>5. Live(t) = Live(op)
      BY <1>6 DEF Live, t
    <2> QED  BY <1>3, <1>6, <2>3, <2>4, <2>5 DEF FirstTurn, b, t
  <1>8. \A q \in Seat : t.taken[q] = 0
    BY <1>1, <1>6 DEF Choosing, t
  <1>9. Dealt(t)
    <2>1. \A q \in Live(t) : q \notin t.resolved /\ t.hand[q] = HandSize
      BY <1>1, <1>4, <1>6 DEF Live, Choosing, t
    <2>2. t.bottom.player = NoSeat
      BY <1>1, <1>6 DEF Choosing, t
    <2>3. Price(0) < HandSize
      BY Prices, HandAssumption
    <2>4. HandSize - 0 = HandSize
      BY HandAssumption
    <2>5. \A q \in Live(t) : q # NoSeat
      BY SeatFacts DEF Live
    <2> QED  BY <1>8, <2>1, <2>2, <2>3, <2>4, <2>5 DEF Dealt
  <1>10. InRound(t)
    <2>1. \A q \in Seat \ t.resolved : q # t.actor => ~(Rank(t, q) < Rank(t, t.actor))
      <3>1. t.original \in Seat /\ t.actor = t.original
        BY <1>3, <1>6 DEF t
      <3> DEFINE b == (t.original + N - 1) % N
      <3>2. b \in Seat /\ b = (IF t.original = 0 THEN N - 1 ELSE t.original - 1)
        BY <3>1, SeatBefore
      <3> HIDE DEF b
      <3>3. \A q \in Seat : Rank(t, q) = Ahead(b, q)
        BY DEF Rank, b
      <3> QED  BY <3>1, <3>2, <3>3, SeatsAssumption DEF Ahead, Seat
    <2>2. 0 \in 0 .. (HandSize + 1)
      BY HandAssumption
    <2> QED  BY <1>8, <2>1, <2>2 DEF InRound
  <1>11. Mulliganing(t)
    BY <1>1, <1>3, <1>6, <1>7, <1>9, <1>10 DEF Mulliganing, Choosing, Live, t
  <1> QED  BY <1>1, <1>5, <1>6, <1>11 DEF Inv, Good, t

\* Once the actor has decided for good, or left, the others are where a round of
\* mulligans leaves them.
LEMMA RoundWithoutActor ==
    ASSUME NEW s \in State, s.original \in Seat, NEW p \in Seat, s.actor = p, InRound(s),
           NEW u, u.original = s.original, u.taken = s.taken,
           u.resolved = s.resolved \cup {p}
    PROVE  \E m \in 0 .. (HandSize + 1) : \A q \in Seat \ u.resolved :
              u.taken[q] = IF Rank(u, q) <= Rank(u, p) THEN m + 1 ELSE m
  <1>1. PICK m \in 0 .. (HandSize + 1) : \A q \in Seat \ s.resolved :
            IF q = s.actor
            THEN s.taken[q] = m \/ (s.taken[q] = m + 1 /\ s.bottom.player = q)
            ELSE s.taken[q] = IF Rank(s, q) < Rank(s, s.actor) THEN m + 1 ELSE m
    BY DEF InRound
  <1>2. ASSUME NEW q \in Seat \ u.resolved
        PROVE  u.taken[q] = IF Rank(u, q) <= Rank(u, p) THEN m + 1 ELSE m
    <2>1. q \in Seat /\ q # p /\ q \in Seat \ s.resolved
      OBVIOUS
    <2>2. Rank(u, q) = Rank(s, q) /\ Rank(u, p) = Rank(s, p)
      BY DEF Rank
    <2>3. Rank(s, q) \in 1 .. N /\ Rank(s, p) \in 1 .. N /\ Rank(s, q) # Rank(s, p)
      BY <2>1, Ranks
    <2>4. s.taken[q] = IF Rank(s, q) < Rank(s, p) THEN m + 1 ELSE m
      BY <1>1, <2>1
    <2>5. Rank(s, q) < Rank(s, p) <=> Rank(s, q) <= Rank(s, p)
      BY <2>3
    <2> QED  BY <2>2, <2>4, <2>5
  <1> QED  BY <1>2

\* A hand that is kept is paid for, at once or card by card.
LEMMA KeepInv ==
    ASSUME Inv, NEW p \in Seat, Keep(p) PROVE Inv'
  <1>1. /\ op \in State /\ op.opening /\ ~op.over /\ Mulliganing(op) /\ op.actor = p
        /\ op.bottom.player = NoSeat /\ p \in Live(op)
    BY DecidingIsMulliganing DEF Keep, Deciding, MayAct
  <1> DEFINE cost == BottomCount(op, op.taken[p])
  <1>2. cost = Price(op.taken[p]) /\ op.taken[p] \in 0 .. (HandSize + 1)
    BY <1>1 DEF BottomCount, Price, State
  <1>3. cost \in Nat /\ cost < HandSize
    BY <1>1, <1>2, Prices, SeatFacts, HandAssumption DEF Mulliganing, Dealt
  <1>4. FirstTurn(op) /\ op.original \in Seat /\ p \notin op.resolved /\ p # NoSeat
    BY <1>1, SeatFacts DEF Mulliganing, FirstTurn
  <1>5. CASE cost = 0
    <2> DEFINE u == [op EXCEPT !.resolved = @ \cup {p}, !.actor = NoSeat]
    <2>1. op' = PickNextOrFinish(u, p)
      BY <1>5 DEF Keep
    <2>2. /\ u \in State
          /\ u.opening = op.opening /\ u.over = op.over /\ u.lost = op.lost
          /\ u.starting = op.starting /\ u.original = op.original /\ u.active = op.active
          /\ u.window = op.window /\ u.parked = op.parked /\ u.bottom = op.bottom
          /\ u.resolved = op.resolved \cup {p} /\ u.actor = NoSeat
          /\ u.taken = op.taken /\ u.hand = op.hand
      BY <1>1, SeatFacts DEF State
    <2> HIDE DEF u
    <2>3. FirstTurn(u)
      BY <1>4, <2>2 DEF FirstTurn, Live
    <2>4. Dealt(u)
      <3>1. op.hand[p] = HandSize - 0
        BY <1>1, <1>4 DEF Mulliganing, Dealt
      <3>2. \A q \in Live(op) :
              op.hand[q] = HandSize - (IF q \in op.resolved THEN Price(op.taken[q]) ELSE 0)
        BY <1>1, SeatFacts DEF Mulliganing, Dealt, Live
      <3>3. ASSUME NEW q \in Live(u)
            PROVE  u.hand[q] = HandSize - (IF q \in u.resolved THEN Price(u.taken[q]) ELSE 0)
        <4>1. CASE q = p
          BY <1>2, <1>5, <2>2, <3>1, <4>1
        <4>2. CASE q # p
          <5>1. q \in Live(op) /\ (q \in u.resolved <=> q \in op.resolved)
            BY <2>2, <4>2 DEF Live
          <5> QED  BY <2>2, <3>2, <5>1
        <4> QED  BY <4>1, <4>2
      <3> QED  BY <1>1, <2>2, <3>3, SeatFacts DEF Mulliganing, Dealt, Live
    <2>5. Between(u, p)
      BY <1>1, <1>4, <2>2, <2>3, <2>4, RoundWithoutActor DEF Between, Mulliganing
    <2> QED  BY <2>1, <2>2, <2>5, PickNextOrFinishGood DEF Inv
  <1>6. CASE cost # 0
    <2> DEFINE b == [player |-> p, left |-> cost]
    <2>1. op' = [op EXCEPT !.bottom = b]
      BY <1>6 DEF Keep
    <2>2. b \in Bottoming /\ b.player = p /\ b.left = cost
      BY <1>3, SeatFacts, HandAssumption DEF Bottoming
    <2> HIDE DEF b, cost
    <2>3. /\ op' \in State
          /\ op'.opening = op.opening /\ op'.over = op.over /\ op'.lost = op.lost
          /\ op'.starting = op.starting /\ op'.original = op.original /\ op'.active = op.active
          /\ op'.window = op.window /\ op'.parked = op.parked /\ op'.bottom = b
          /\ op'.resolved = op.resolved /\ op'.actor = op.actor /\ op'.priority = op.priority
          /\ op'.taken = op.taken /\ op'.hand = op.hand
      BY <1>1, <2>1, <2>2, SeatFacts DEF State
    <2> DEFINE t == op'
    <2> HIDE DEF t
    <2>4. FirstTurn(t)
      BY <1>4, <2>3 DEF FirstTurn, Live, t
    <2>5. Dealt(t)
      <3>1. op.hand[p] = HandSize - 0
        BY <1>1, <1>4 DEF Mulliganing, Dealt
      <3>2. cost - cost = 0
        BY <1>3
      <3>3. Live(t) = Live(op)
        BY <2>3 DEF Live, t
      <3>4. \A q \in Live(op) : q # NoSeat
        BY SeatFacts DEF Live
      <3>5. \A q \in Live(op) :
              op.hand[q] = HandSize - (IF q \in op.resolved THEN Price(op.taken[q]) ELSE 0)
        BY <1>1, <3>4 DEF Mulliganing, Dealt
      <3>6. \A q \in Live(t) :
              t.hand[q] = HandSize - (IF q \in t.resolved THEN Price(t.taken[q])
                                      ELSE IF t.bottom.player = q
                                           THEN Price(t.taken[q]) - t.bottom.left
                                           ELSE 0)
        BY <1>2, <1>4, <2>2, <2>3, <3>1, <3>2, <3>3, <3>5 DEF t
      <3>7. \A q \in Seat \ t.resolved : Price(t.taken[q]) < HandSize
        BY <1>1, <2>3, SeatFacts DEF Mulliganing, Dealt, t
      <3>8. t.bottom.left >= 1
        BY <1>3, <1>6, <2>2, <2>3 DEF t
      <3> QED  BY <3>6, <3>7, <3>8 DEF Dealt
    <2>6. InRound(t)
      <3>1. \A q \in Seat : q # NoSeat /\ Rank(t, q) = Rank(op, q)
        BY <2>3, SeatFacts DEF Rank, t
      <3> QED  BY <1>1, <2>3, <3>1 DEF Mulliganing, InRound, t
    <2>7. Mulliganing(t)
      BY <1>1, <2>2, <2>3, <2>4, <2>5, <2>6 DEF Mulliganing, t
    <2> QED  BY <1>1, <2>3, <2>7 DEF Inv, Good, t
  <1> QED  BY <1>5, <1>6

\* A new hand puts the player behind everybody who has not had as many.
LEMMA MulliganInv ==
    ASSUME Inv, NEW p \in Seat, Mulligan(p) PROVE Inv'
  <1>1. /\ op \in State /\ op.opening /\ ~op.over /\ Mulliganing(op) /\ op.actor = p
        /\ op.bottom.player = NoSeat /\ p \in Live(op)
    BY DecidingIsMulliganing DEF Mulligan, Deciding, MayAct
  <1> DEFINE k == op.taken[p]
             tk == [op.taken EXCEPT ![p] = k + 1]
             hd == [op.hand EXCEPT ![p] = HandSize]
  <1>2. k \in 0 .. (HandSize + 1) /\ p \notin op.resolved /\ p # NoSeat
        /\ op.original \in Seat /\ FirstTurn(op)
    BY <1>1, SeatFacts DEF State, Mulliganing, FirstTurn
  <1>3. Price(k) < HandSize
    BY <1>1, <1>2, SeatFacts DEF Mulliganing, Dealt
  <1>4. k + 1 \in 0 .. (HandSize + 1) /\ Price(k + 1) \in Nat /\ Price(k + 1) <= HandSize
    BY <1>2, <1>3, Prices, HandAssumption
  <1>5. /\ tk \in [Seat -> 0 .. (HandSize + 1)] /\ tk[p] = k + 1
        /\ \A q \in Seat : q # p => tk[q] = op.taken[q]
    BY <1>1, <1>4 DEF State
  <1>6. /\ hd \in [Seat -> 0 .. HandSize] /\ hd[p] = HandSize
        /\ \A q \in Seat : q # p => hd[q] = op.hand[q]
    BY <1>1, HandAssumption DEF State
  <1> DEFINE S(new) == [op EXCEPT !.taken[p] = @ + 1, !.hand[p] = HandSize, !.caverns = new]
             After(z) == IF BottomCount(z, z.taken[p]) >= HandSize
                         THEN [z EXCEPT !.bottom = [player |-> p, left |-> BottomCount(z, z.taken[p])]]
                         ELSE NextMulligan(z, p)
  <1>7. PICK new \in NewCaverns({p}) : op' = After(S(new))
    BY DEF Mulligan
  <1>8. new \in [Seat -> 0 .. HandSize]
    BY HandAssumption DEF NewCaverns
  <1> DEFINE s == [op EXCEPT !.taken = tk, !.hand = hd, !.caverns = new]
  <1>9. s = S(new)
    BY <1>1 DEF State
  <1> HIDE DEF tk, hd
  <1>10. /\ s \in State
         /\ s.opening = op.opening /\ s.over = op.over /\ s.lost = op.lost
         /\ s.starting = op.starting /\ s.original = op.original /\ s.active = op.active
         /\ s.window = op.window /\ s.parked = op.parked /\ s.bottom = op.bottom
         /\ s.resolved = op.resolved /\ s.actor = op.actor /\ s.priority = op.priority
         /\ s.taken = tk /\ s.hand = hd
    BY ZenonT(60), <1>1, <1>5, <1>6, <1>8 DEF State
  <1> HIDE DEF s, k
  <1> HIDE DEF After, S
  <1>11. op' = After(s)
    BY <1>7, <1>9
  <1>12. BottomCount(s, s.taken[p]) = Price(k + 1)
    BY <1>5, <1>10 DEF BottomCount, Price
  <1>13. Live(s) = Live(op) /\ FirstTurn(s) /\ \A q \in Seat : Rank(s, q) = Rank(op, q)
    BY <1>2, <1>10 DEF FirstTurn, Live, Rank
  <1>14. ASSUME NEW q \in Live(op), q # p
         PROVE  s.hand[q] = HandSize - (IF q \in s.resolved THEN Price(s.taken[q]) ELSE 0)
    <2>1. q \in Seat /\ q # NoSeat
      BY SeatFacts DEF Live
    <2>2. op.hand[q] = HandSize - (IF q \in op.resolved THEN Price(op.taken[q]) ELSE 0)
      BY <1>1, <2>1 DEF Mulliganing, Dealt
    <2> QED  BY <1>5, <1>6, <1>10, <1>14, <2>1, <2>2
  <1>15. \A q \in Seat \ s.resolved : q # p => Price(s.taken[q]) < HandSize
    BY <1>1, <1>5, <1>10, SeatFacts DEF Mulliganing, Dealt
  <1>16. PICK m \in 0 .. (HandSize + 1) : \A q \in Seat \ s.resolved :
            IF q = p THEN s.taken[q] = m + 1
            ELSE s.taken[q] = IF Rank(s, q) < Rank(s, p) THEN m + 1 ELSE m
    <2>1. PICK m \in 0 .. (HandSize + 1) : \A q \in Seat \ op.resolved :
            IF q = p
            THEN op.taken[q] = m \/ (op.taken[q] = m + 1 /\ op.bottom.player = q)
            ELSE op.taken[q] = IF Rank(op, q) < Rank(op, p) THEN m + 1 ELSE m
      BY <1>1 DEF Mulliganing, InRound
    <2>2. k = m
      BY <1>1, <1>2, <2>1 DEF k
    <2> QED  BY <1>5, <1>10, <1>13, <2>1, <2>2
  <1>17. CASE Price(k + 1) >= HandSize
    <2> DEFINE b == [player |-> p, left |-> Price(k + 1)]
               t == [s EXCEPT !.bottom = b]
    <2>1. op' = t
      BY <1>11, <1>12, <1>17 DEF After
    <2>2. b \in Bottoming /\ b.player = p /\ b.left = Price(k + 1)
      BY <1>4, SeatFacts DEF Bottoming
    <2> HIDE DEF b
    <2>3. /\ t \in State
          /\ t.opening = op.opening /\ t.over = op.over /\ t.lost = op.lost
          /\ t.starting = op.starting /\ t.original = op.original /\ t.active = op.active
          /\ t.window = op.window /\ t.parked = op.parked /\ t.bottom = b
          /\ t.resolved = op.resolved /\ t.actor = op.actor /\ t.priority = op.priority
          /\ t.taken = s.taken /\ t.hand = s.hand
      BY <1>10, <2>2 DEF State
    <2> HIDE DEF t
    <2>4. FirstTurn(t) /\ Live(t) = Live(op)
      BY <1>2, <2>3 DEF FirstTurn, Live
    <2>5. Dealt(t)
      <3>1. HandSize = HandSize - (Price(k + 1) - Price(k + 1))
        BY <1>4, HandAssumption
      <3>2. ASSUME NEW q \in Live(t)
            PROVE  t.hand[q] = HandSize - (IF q \in t.resolved THEN Price(t.taken[q])
                                           ELSE IF t.bottom.player = q
                                                THEN Price(t.taken[q]) - t.bottom.left
                                                ELSE 0)
        <4>1. CASE q = p
          BY <1>2, <1>5, <1>6, <1>10, <2>2, <2>3, <3>1, <4>1
        <4>2. CASE q # p
          BY <1>10, <1>14, <2>2, <2>3, <2>4, <4>2
        <4> QED  BY <4>1, <4>2
      <3>3. \A q \in Seat \ t.resolved : t.bottom.player # q => Price(t.taken[q]) < HandSize
        BY <1>10, <1>15, <2>2, <2>3
      <3>4. t.bottom.left >= 1
        BY <1>4, <1>17, <2>2, <2>3, HandAssumption
      <3> QED  BY <3>2, <3>3, <3>4 DEF Dealt
    <2>6. InRound(t)
      <3>1. \A q \in Seat : Rank(t, q) = Rank(s, q)
        BY <1>10, <2>3 DEF Rank
      <3> QED  BY <1>1, <1>10, <1>16, <2>2, <2>3, <3>1 DEF InRound
    <2>7. Mulliganing(t)
      BY <1>1, <2>2, <2>3, <2>4, <2>5, <2>6 DEF Mulliganing
    <2> QED  BY <1>1, <2>1, <2>3, <2>7 DEF Inv, Good
  <1>18. CASE ~(Price(k + 1) >= HandSize)
    <2>1. op' = NextMulligan(s, p)
      BY <1>11, <1>12, <1>18 DEF After
    <2>2. \A q \in Seat \ s.resolved : Price(s.taken[q]) < HandSize
      BY <1>4, <1>5, <1>10, <1>15, <1>18, HandAssumption
    <2>3. ASSUME NEW q \in Live(s)
          PROVE  s.hand[q] = HandSize - (IF q \in s.resolved THEN Price(s.taken[q])
                                         ELSE IF s.bottom.player = q
                                              THEN Price(s.taken[q]) - s.bottom.left
                                              ELSE 0)
      <3>1. q \in Seat /\ q # NoSeat /\ HandSize = HandSize - 0
        BY SeatFacts, HandAssumption DEF Live
      <3>2. CASE q = p
        BY <1>1, <1>2, <1>6, <1>10, <3>1, <3>2
      <3>3. CASE q # p
        BY <1>1, <1>10, <1>13, <1>14, <3>1, <3>3
      <3> QED  BY <3>2, <3>3
    <2>4. Dealt(s)
      BY <1>1, <1>10, <2>2, <2>3 DEF Dealt
    <2>5. \A q \in Seat \ s.resolved :
            s.taken[q] = IF Rank(s, q) <= Rank(s, p) THEN m + 1 ELSE m
      <3> SUFFICES ASSUME NEW q \in Seat \ s.resolved
                   PROVE  s.taken[q] = IF Rank(s, q) <= Rank(s, p) THEN m + 1 ELSE m
        OBVIOUS
      <3>1. /\ Rank(s, q) \in 1 .. N /\ Rank(s, p) \in 1 .. N
            /\ Rank(s, q) = Rank(s, p) => q = p
        BY <1>2, <1>10, Ranks
      <3> QED  BY <1>16, <3>1
    <2>6. Between(s, p)
      BY <1>1, <1>10, <1>13, <2>4, <2>5 DEF Between, Mulliganing
    <2>7. s.resolved # Seat
      BY <1>2, <1>10
    <2> QED  BY <2>1, <2>6, <2>7, NextMulliganGood DEF Inv
  <1> QED  BY <1>17, <1>18

\* Every card put on the bottom pays for one, and the last one ends the decision.
LEMMA PutOnBottomInv ==
    ASSUME Inv, NEW p \in Seat, PutOnBottom(p) PROVE Inv'
  <1>1. /\ op \in State /\ op.opening /\ ~op.over /\ Mulliganing(op) /\ op.actor = p
        /\ op.bottom.player = p /\ p \in Live(op)
    BY DecidingIsMulliganing DEF PutOnBottom, MayAct
  <1>2. PICK used \in {0, 1} :
          /\ Holds(op, p, used, 1 - used)
          /\ LET s == Without(op, p, used, 1 - used)
             IN  op' = IF op.bottom.left > 1
                       THEN [s EXCEPT !.bottom.left = @ - 1]
                       ELSE PickNextOrFinish([s EXCEPT !.bottom = NoBottom, !.actor = NoSeat,
                                                       !.resolved = @ \cup {p}], p)
    BY DEF PutOnBottom
  <1>3. /\ op.hand[p] \in 0 .. HandSize /\ op.caverns[p] \in 0 .. HandSize
        /\ op.taken[p] \in 0 .. (HandSize + 1)
        /\ op.bottom \in Bottoming /\ op.bottom.left \in 0 .. HandSize
        /\ op.bottom.left >= 1
        /\ p \notin op.resolved /\ p # NoSeat /\ op.original \in Seat /\ FirstTurn(op)
    BY <1>1, SeatFacts DEF State, Bottoming, Mulliganing, Dealt, FirstTurn
  <1> DEFINE hd == [op.hand EXCEPT ![p] = @ - used - (1 - used)]
             cv == [op.caverns EXCEPT ![p] = @ - used]
             s == [op EXCEPT !.hand = hd, !.caverns = cv]
  <1>4. s = Without(op, p, used, 1 - used)
    BY <1>1 DEF Without, State
  <1>5. /\ op.hand[p] - used - (1 - used) = op.hand[p] - 1
        /\ op.hand[p] - 1 \in 0 .. HandSize /\ op.caverns[p] - used \in 0 .. HandSize
    BY <1>2, <1>3, HandAssumption DEF Holds
  <1>6. /\ hd \in [Seat -> 0 .. HandSize] /\ hd[p] = op.hand[p] - 1
        /\ \A q \in Seat : q # p => hd[q] = op.hand[q]
    BY <1>1, <1>5 DEF State
  <1>7. cv \in [Seat -> 0 .. HandSize]
    BY <1>1, <1>5 DEF State
  <1> HIDE DEF hd, cv
  <1>8. /\ s \in State
        /\ s.opening = op.opening /\ s.over = op.over /\ s.lost = op.lost
        /\ s.starting = op.starting /\ s.original = op.original /\ s.active = op.active
        /\ s.window = op.window /\ s.parked = op.parked /\ s.bottom = op.bottom
        /\ s.resolved = op.resolved /\ s.actor = op.actor /\ s.priority = op.priority
        /\ s.taken = op.taken /\ s.hand = hd
    BY ZenonT(60), <1>1, <1>6, <1>7 DEF State
  <1>9. op' = IF op.bottom.left > 1
              THEN [s EXCEPT !.bottom.left = @ - 1]
              ELSE PickNextOrFinish([s EXCEPT !.bottom = NoBottom, !.actor = NoSeat,
                                              !.resolved = @ \cup {p}], p)
    BY <1>2, <1>4
  <1> HIDE DEF s
  <1>10. /\ Price(op.taken[p]) \in Nat
         /\ op.hand[p] = HandSize - (Price(op.taken[p]) - op.bottom.left)
    BY <1>1, <1>3, Prices, HandAssumption DEF Mulliganing, Dealt
  <1>11. ASSUME NEW q \in Live(op), q # p
         PROVE  s.hand[q] = HandSize - (IF q \in op.resolved THEN Price(op.taken[q]) ELSE 0)
    <2>1. q \in Seat
      BY DEF Live
    <2>2. op.hand[q] = HandSize - (IF q \in op.resolved THEN Price(op.taken[q]) ELSE 0)
      BY <1>1, <1>11 DEF Mulliganing, Dealt
    <2> QED  BY <1>6, <1>8, <1>11, <2>1, <2>2
  <1>12. \A q \in Seat \ op.resolved : q # p => Price(op.taken[q]) < HandSize
    BY <1>1 DEF Mulliganing, Dealt
  <1>13. CASE op.bottom.left > 1
    <2> DEFINE b == [s.bottom EXCEPT !.left = @ - 1]
               t == [s EXCEPT !.bottom = b]
    <2>1. op' = t
      BY <1>8, <1>9, <1>13 DEF State
    <2>2. b \in Bottoming /\ b.player = p /\ b.left = op.bottom.left - 1 /\ b.left >= 1
      BY <1>1, <1>3, <1>8, <1>13, HandAssumption DEF Bottoming
    <2> HIDE DEF b
    <2>3. /\ t \in State
          /\ t.opening = op.opening /\ t.over = op.over /\ t.lost = op.lost
          /\ t.starting = op.starting /\ t.original = op.original /\ t.active = op.active
          /\ t.window = op.window /\ t.parked = op.parked /\ t.bottom = b
          /\ t.resolved = op.resolved /\ t.actor = op.actor /\ t.priority = op.priority
          /\ t.taken = op.taken /\ t.hand = s.hand
      BY <1>8, <2>2 DEF State
    <2> HIDE DEF t
    <2>4. FirstTurn(t) /\ Live(t) = Live(op)
      BY <1>3, <2>3 DEF FirstTurn, Live
    <2>5. Dealt(t)
      <3>1. s.hand[p] = HandSize - (Price(op.taken[p]) - b.left)
        BY <1>3, <1>6, <1>8, <1>10, <2>2, HandAssumption
      <3>2. ASSUME NEW q \in Live(t)
            PROVE  t.hand[q] = HandSize - (IF q \in t.resolved THEN Price(t.taken[q])
                                           ELSE IF t.bottom.player = q
                                                THEN Price(t.taken[q]) - t.bottom.left
                                                ELSE 0)
        <4>1. CASE q = p
          BY <1>3, <2>2, <2>3, <3>1, <4>1
        <4>2. CASE q # p
          BY <1>11, <2>2, <2>3, <2>4, <4>2
        <4> QED  BY <4>1, <4>2
      <3> QED  BY <1>12, <2>2, <2>3, <3>2 DEF Dealt
    <2>6. InRound(t)
      <3>1. \A q \in Seat : Rank(t, q) = Rank(op, q)
        BY <2>3 DEF Rank
      <3> QED  BY <1>1, <2>2, <2>3, <3>1 DEF Mulliganing, InRound
    <2>7. Mulliganing(t)
      BY <1>1, <2>2, <2>3, <2>4, <2>5, <2>6 DEF Mulliganing
    <2> QED  BY <1>1, <2>1, <2>3, <2>7 DEF Inv, Good
  <1>14. CASE ~(op.bottom.left > 1)
    <2> DEFINE u == [s EXCEPT !.bottom = NoBottom, !.actor = NoSeat, !.resolved = @ \cup {p}]
    <2>1. op' = PickNextOrFinish(u, p)
      BY <1>9, <1>14
    <2>2. NoBottom \in Bottoming /\ NoBottom.player = NoSeat
      BY SeatFacts, HandAssumption DEF NoBottom, Bottoming
    <2>3. /\ u \in State
          /\ u.opening = op.opening /\ u.over = op.over /\ u.lost = op.lost
          /\ u.starting = op.starting /\ u.original = op.original /\ u.active = op.active
          /\ u.window = op.window /\ u.parked = op.parked /\ u.bottom = NoBottom
          /\ u.resolved = op.resolved \cup {p} /\ u.actor = NoSeat
          /\ u.taken = op.taken /\ u.hand = s.hand
      BY <1>8, <2>2, SeatFacts DEF State
    <2> HIDE DEF u
    <2>4. FirstTurn(u) /\ Live(u) = Live(op)
      BY <1>3, <2>3 DEF FirstTurn, Live
    <2>5. Dealt(u)
      <3>1. s.hand[p] = HandSize - Price(op.taken[p])
        BY <1>3, <1>6, <1>8, <1>10, <1>14, HandAssumption
      <3>2. ASSUME NEW q \in Live(u)
            PROVE  u.hand[q] = HandSize - (IF q \in u.resolved THEN Price(u.taken[q]) ELSE 0)
        <4>1. CASE q = p
          BY <2>3, <3>1, <4>1
        <4>2. CASE q # p
          BY <1>11, <2>3, <2>4, <4>2
        <4> QED  BY <4>1, <4>2
      <3>3. \A q \in Live(u) : q # NoSeat
        BY SeatFacts DEF Live
      <3> QED  BY <1>12, <2>2, <2>3, <3>2, <3>3 DEF Dealt
    <2>6. Between(u, p)
      BY <1>1, <1>3, <2>2, <2>3, <2>4, <2>5, RoundWithoutActor DEF Between, Mulliganing
    <2> QED  BY <2>1, <2>3, <2>6, PickNextOrFinishGood DEF Inv
  <1> QED  BY <1>13, <1>14

\* A window that is left, used or skipped goes to somebody else or to the same
\* player again, and the first turn begins when nobody can use it.
LEMMA WindowInv ==
    ASSUME Inv, NEW p \in Seat
    PROVE  /\ FinishOpeningHandActions(p) => Inv'
           /\ BeginWithGemstoneCaverns(p) => Inv'
           /\ AnswerEntryChoice(p) => Inv'
  <1>1. ASSUME NEW s \in State, s.opening, ~s.over, HandActions(s), s.parked = NoSeat,
               NEW u \in CommitEntry(s, p)
        PROVE  Good(u)
    <2> DEFINE e == IF s.hand[p] > 1 THEN 1 ELSE 0
    <2>1. PICK more \in 0 .. e :
            /\ Holds(s, p, 1 + more, e - more)
            /\ u = AdvanceHandWindow(Without(s, p, 1 + more, e - more), p)
      BY <1>1 DEF CommitEntry
    <2>2. more \in Nat /\ e - more \in Nat /\ s.hand[p] \in 0 .. HandSize
          /\ s.caverns[p] \in 0 .. HandSize
      BY <1>1, <2>1 DEF State
    <2> HIDE DEF e
    <2> DEFINE h == s.hand[p] - (1 + more) - (e - more)
               c == s.caverns[p] - (1 + more)
               hd == [s.hand EXCEPT ![p] = h]
               cv == [s.caverns EXCEPT ![p] = c]
               w == [s EXCEPT !.hand = hd, !.caverns = cv]
    <2>3. h \in 0 .. HandSize /\ c \in 0 .. HandSize
      BY <2>1, <2>2, HandAssumption DEF Holds
    <2>4. w = Without(s, p, 1 + more, e - more)
      BY <1>1 DEF Without, State
    <2> HIDE DEF h, c
    <2>5. hd \in [Seat -> 0 .. HandSize] /\ cv \in [Seat -> 0 .. HandSize]
      BY <1>1, <2>3 DEF State
    <2> HIDE DEF hd, cv
    <2>6. /\ w \in State
          /\ w.opening = s.opening /\ w.over = s.over /\ w.lost = s.lost
          /\ w.starting = s.starting /\ w.original = s.original /\ w.active = s.active
          /\ w.parked = s.parked /\ w.bottom = s.bottom
          /\ w.resolved = s.resolved /\ w.actor = s.actor
      BY ZenonT(60), <1>1, <2>5 DEF State
    <2> HIDE DEF w
    <2>7. FirstTurn(w)
      BY <1>1, <2>6 DEF HandActions, FirstTurn, Live
    <2> QED  BY <1>1, <2>1, <2>4, <2>6, <2>7, AdvanceHandWindowGood DEF HandActions
  <1>2. ASSUME FinishOpeningHandActions(p) PROVE Inv'
    <2>1. op \in State /\ op.opening /\ ~op.over /\ HandActions(op) /\ op.parked = NoSeat
      BY <1>2, InWindowIsHandActions DEF FinishOpeningHandActions
    <2> DEFINE F == op.finished \cup {p}
               u == [op EXCEPT !.finished = F]
    <2>2. op' = AdvanceHandWindow(u, (p + 1) % N)
      BY <1>2 DEF FinishOpeningHandActions
    <2>3. F \in SUBSET Seat
      BY <2>1 DEF State
    <2> HIDE DEF F
    <2>4. /\ u \in State
          /\ u.opening = op.opening /\ u.over = op.over /\ u.lost = op.lost
          /\ u.starting = op.starting /\ u.original = op.original /\ u.active = op.active
          /\ u.parked = op.parked /\ u.bottom = op.bottom
          /\ u.resolved = op.resolved /\ u.actor = op.actor
      BY <2>1, <2>3 DEF State
    <2> HIDE DEF u
    <2>5. FirstTurn(u) /\ (p + 1) % N \in Seat
      BY <2>1, <2>4, SeatAfter DEF HandActions, FirstTurn, Live
    <2> QED  BY <2>1, <2>2, <2>4, <2>5, AdvanceHandWindowGood DEF HandActions, Inv
  <1>3. ASSUME BeginWithGemstoneCaverns(p) PROVE Inv'
    <2>1. /\ op \in State /\ op.opening /\ ~op.over /\ HandActions(op) /\ op.parked = NoSeat
          /\ op.window = p
      BY <1>3, InWindowIsHandActions DEF BeginWithGemstoneCaverns, InWindow
    <2>2. CASE op' = [op EXCEPT !.parked = p]
      <3>1. /\ op' \in State
            /\ op'.opening = op.opening /\ op'.over = op.over /\ op'.lost = op.lost
            /\ op'.starting = op.starting /\ op'.original = op.original
            /\ op'.active = op.active /\ op'.parked = p /\ op'.bottom = op.bottom
            /\ op'.resolved = op.resolved /\ op'.actor = op.actor /\ op'.window = op.window
            /\ op'.priority = op.priority /\ op'.finished = op.finished
            /\ op'.caverns = op.caverns
        BY <2>1, <2>2, SeatFacts DEF State
      <3> DEFINE t == op'
      <3> HIDE DEF t
      <3>2. FirstTurn(t) /\ Eligible(t) = Eligible(op)
        BY <2>1, <3>1 DEF HandActions, FirstTurn, Live, Eligible, t
      <3>3. HandActions(t)
        BY <2>1, <3>1, <3>2 DEF HandActions, t
      <3> QED  BY <2>1, <3>1, <3>3 DEF Inv, Good, t
    <2>3. CASE op' \in CommitEntry(op, p)
      BY <1>1, <2>1, <2>3 DEF Inv
    <2>4. CASE op' = AdvanceHandWindow(op, p)
      BY <2>1, <2>4, AdvanceHandWindowGood DEF HandActions, Inv
    <2> QED  BY <1>3, <2>2, <2>3, <2>4 DEF BeginWithGemstoneCaverns
  <1>4. ASSUME AnswerEntryChoice(p) PROVE Inv'
    <2>1. op \in State /\ op.opening /\ ~op.over /\ HandActions(op)
      BY <1>4, InWindowIsHandActions DEF AnswerEntryChoice
    <2> DEFINE s == [op EXCEPT !.parked = NoSeat]
    <2>2. op' \in CommitEntry(s, p) \/ op' = AdvanceHandWindow(s, p)
      BY <1>4 DEF AnswerEntryChoice
    <2>3. /\ s \in State
          /\ s.opening = op.opening /\ s.over = op.over /\ s.lost = op.lost
          /\ s.starting = op.starting /\ s.original = op.original
          /\ s.active = op.active /\ s.parked = NoSeat /\ s.bottom = op.bottom
          /\ s.resolved = op.resolved /\ s.actor = op.actor /\ s.window = op.window
          /\ s.priority = op.priority /\ s.finished = op.finished
          /\ s.caverns = op.caverns
      BY <2>1, SeatFacts DEF State
    <2> HIDE DEF s
    <2>4. FirstTurn(s) /\ Eligible(s) = Eligible(op)
      BY <2>1, <2>3 DEF HandActions, FirstTurn, Live, Eligible
    <2>5. HandActions(s)
      BY <2>1, <2>3, <2>4 DEF HandActions
    <2>6. CASE op' \in CommitEntry(s, p)
      BY <1>1, <2>1, <2>3, <2>5, <2>6 DEF Inv
    <2>7. CASE op' = AdvanceHandWindow(s, p)
      BY <2>1, <2>3, <2>5, <2>7, AdvanceHandWindowGood DEF HandActions, Inv
    <2> QED  BY <2>2, <2>6, <2>7
  <1> QED  BY <1>2, <1>3, <1>4

\* When a player leaves, the first turn stays with the first player in the game
\* from the chosen seat on.
LEMMA FirstTurnPassesOn ==
    ASSUME NEW s \in State, FirstTurn(s), NEW p \in Live(s), Live(s) \ {p} # {},
           NEW t \in State, t.lost = s.lost \cup {p}, t.original = s.original,
           t.starting = s.starting, t.active = s.active
    PROVE  FirstTurn(PassOnFirstTurn(t, p)) /\ PassOnFirstTurn(t, p) \in State
  <1> DEFINE b == (s.original + N - 1) % N
             L == Live(s)
             n == NextInGame(t, p)
  <1>1. L \in SUBSET Seat /\ p \in Seat /\ Live(t) = L \ {p} /\ b \in Seat
        /\ s.starting = FirstAfter(b, L) /\ s.starting \in L
    BY SeatBefore DEF Live, FirstTurn
  <1> HIDE DEF b, L
  <1>2. n = FirstAfter(p, L \ {p}) /\ n \in L \ {p}
    BY <1>1, FirstAfterInSet DEF NextInGame, L
  <1> HIDE DEF n
  <1>3. CASE s.starting = p
    <2> DEFINE u == [t EXCEPT !.starting = n, !.active = n]
    <2>1. PassOnFirstTurn(t, p) = u
      BY <1>3 DEF PassOnFirstTurn, n
    <2>2. FirstAfter(b, L \ {p}) = n
      <3>1. L \ {p} # {} /\ p = FirstAfter(b, L)
        BY <1>1, <1>2, <1>3
      <3> QED  BY <1>1, <1>2, <3>1, FirstAfterRemoval
    <2>3. n \in Seat
      BY <1>1, <1>2
    <2>4. u \in State /\ u.starting = n /\ u.active = n /\ u.original = s.original /\ u.lost = t.lost
      <3>1. n \in 0 .. N
        BY <2>3, SeatFacts
      <3>2. u \in State
        BY <2>3, <3>1, ZenonT(60) DEF State
      <3>3. u.starting = n /\ u.active = n /\ u.original = t.original /\ u.lost = t.lost
        BY DEF State
      <3> QED  BY <3>2, <3>3
    <2> HIDE DEF u
    <2>5. Live(u) = L \ {p}
      BY <1>1, <2>4 DEF Live
    <2>6. FirstTurn(u)
      BY <1>2, <2>2, <2>4, <2>5 DEF FirstTurn, b
    <2> QED  BY <2>1, <2>4, <2>6
  <1>4. CASE s.starting # p
    <2>1. PassOnFirstTurn(t, p) = t
      BY <1>4 DEF PassOnFirstTurn
    <2>2. FirstAfter(b, L \ {p}) = s.starting
      BY <1>1, <1>4, FirstAfterSparing
    <2>3. s.starting \in L \ {p}
      BY <1>1, <1>4
    <2>4. FirstTurn(t)
      BY <1>1, <2>2, <2>3 DEF FirstTurn, b
    <2> QED  BY <2>1, <2>4
  <1> QED  BY <1>3, <1>4

\* Passing on the first turn changes nothing else.
LEMMA PassOnFirstTurnFields ==
    ASSUME NEW t \in State, NEW p
    PROVE  LET u == PassOnFirstTurn(t, p)
           IN  /\ u.opening = t.opening /\ u.over = t.over /\ u.lost = t.lost
               /\ u.original = t.original /\ u.chooser = t.chooser
               /\ u.actor = t.actor /\ u.bottom = t.bottom /\ u.taken = t.taken
               /\ u.resolved = t.resolved /\ u.window = t.window /\ u.finished = t.finished
               /\ u.parked = t.parked /\ u.priority = t.priority /\ u.hand = t.hand
               /\ u.caverns = t.caverns
  BY DEF PassOnFirstTurn, State

\* In a good state of a game that goes on, priority is with somebody in it.
LEMMA GoodPriority ==
    ASSUME NEW s, Good(s), ~s.over PROVE s.priority \in Live(s)
  BY DEF Good, Choosing, Mulliganing, HandActions, Begun, FirstTurn, Eligible, Live

\* What a concession leaves for the opening to reconcile.
Departs(s, p) ==
    /\ op \in State /\ s \in State
    /\ op.opening /\ ~op.over
    /\ p \in Live(op) /\ Live(op) \ {p} # {}
    /\ s.lost = op.lost \cup {p} /\ s.over = op.over /\ s.opening = op.opening
    /\ s.chooser = op.chooser /\ s.starting = op.starting /\ s.original = op.original
    /\ s.actor = op.actor /\ s.bottom = op.bottom /\ s.taken = op.taken
    /\ s.window = op.window /\ s.finished = op.finished
    /\ s.active = op.active /\ s.priority = op.priority
    /\ s.parked = (IF op.parked = p THEN NoSeat ELSE op.parked)
    /\ s.resolved = op.resolved \cup {p}
    /\ \A q \in Seat : q # p => s.hand[q] = op.hand[q] /\ s.caverns[q] = op.caverns[q]

\* A departure before the choice: somebody in the game chooses.
LEMMA DepartureWhileChoosing ==
    ASSUME NEW t, NEW p, Departs(t, p), Choosing(op)
    PROVE  /\ t.chooser = p => Good([t EXCEPT !.chooser = NextInGame(t, p),
                                              !.priority = NextInGame(t, p)])
           /\ t.chooser # p => Good(t)
  <1>1. t \in State /\ p \in Seat /\ Live(t) = Live(op) \ {p} /\ Live(t) \in SUBSET Seat
        /\ Live(t) # {} /\ p # NoSeat
    BY SeatFacts DEF Departs, Live
  <1> DEFINE n == NextInGame(t, p)
  <1>2. n \in Live(t) /\ n \in Seat
    BY <1>1, FirstAfterInSet DEF NextInGame
  <1> HIDE DEF n
  <1>3. t.parked = NoSeat
    BY DEF Departs, Choosing
  <1>4. ASSUME t.chooser = p PROVE Good([t EXCEPT !.chooser = n, !.priority = n])
    <2> DEFINE u == [t EXCEPT !.chooser = n, !.priority = n]
    <2>1. /\ u \in State /\ u.chooser = n /\ u.priority = n
          /\ u.opening = t.opening /\ u.over = t.over /\ u.lost = t.lost
          /\ u.starting = t.starting /\ u.window = t.window /\ u.actor = t.actor
          /\ u.bottom = t.bottom /\ u.parked = t.parked /\ u.resolved = t.resolved
          /\ u.taken = t.taken
      BY <1>1, <1>2 DEF State
    <2> HIDE DEF u
    <2>2. Choosing(u)
      BY <1>1, <1>2, <1>3, <2>1 DEF Choosing, Departs, Live
    <2> QED  BY <2>1, <2>2 DEF Good, Departs, u
  <1>5. ASSUME t.chooser # p PROVE Good(t)
    <2>1. Choosing(t)
      BY <1>1, <1>3, <1>5 DEF Choosing, Departs, Live
    <2> QED  BY <2>1 DEF Good, Departs
  <1> QED  BY <1>4, <1>5 DEF n

\* A departure while hands are kept: a decision the player owed is somebody
\* else's, and the round of mulligans stays in order.
LEMMA DepartureWhileMulliganing ==
    ASSUME NEW t, NEW p, Departs(t, p), Mulliganing(op)
    PROVE  LET v == ReplaceMulliganActor(PassOnFirstTurn(t, p), p) IN Good(v) /\ ~v.over
  <1> DEFINE u == PassOnFirstTurn(t, p)
  <1>1. t \in State /\ op \in State /\ p \in Seat /\ Live(t) = Live(op) \ {p}
        /\ Live(op) \ {p} # {} /\ p \in Live(op) /\ p # NoSeat /\ FirstTurn(op)
        /\ op.original \in Seat
    BY SeatFacts DEF Departs, Live, Mulliganing, FirstTurn
  <1>2. FirstTurn(u) /\ u \in State
    BY <1>1, FirstTurnPassesOn DEF Departs
  <1>3. /\ u.opening = op.opening /\ u.over = op.over /\ u.lost = op.lost \cup {p}
        /\ u.original = op.original /\ u.actor = op.actor /\ u.bottom = op.bottom
        /\ u.taken = op.taken /\ u.resolved = op.resolved \cup {p} /\ u.window = NoSeat
        /\ u.parked = NoSeat /\ u.priority = op.priority
        /\ \A q \in Seat : q # p => u.hand[q] = op.hand[q]
    <2>1. /\ u.opening = t.opening /\ u.over = t.over /\ u.lost = t.lost
          /\ u.original = t.original /\ u.actor = t.actor /\ u.bottom = t.bottom
          /\ u.taken = t.taken /\ u.resolved = t.resolved /\ u.window = t.window
          /\ u.parked = t.parked /\ u.priority = t.priority /\ u.hand = t.hand
      BY <1>1, PassOnFirstTurnFields
    <2> HIDE DEF u
    <2>2. op.window = NoSeat /\ op.parked = NoSeat
      BY DEF Mulliganing
    <2> QED  BY <1>1, <2>1, <2>2 DEF Departs
  <1> HIDE DEF u
  <1>4. \A q \in Live(u) : q \in Live(op) /\ q # p /\ q \in Seat /\ q # NoSeat
    BY <1>3, SeatFacts DEF Live
  <1>5. CASE u.actor = p \/ u.bottom.player = p
    <2>1. op.actor = p
      BY <1>1, <1>3, <1>5 DEF Mulliganing
    <2> DEFINE w == [u EXCEPT !.actor = NoSeat, !.bottom = NoBottom]
    <2>2. NoBottom \in Bottoming /\ NoBottom.player = NoSeat
      BY SeatFacts, HandAssumption DEF NoBottom, Bottoming
    <2>3. /\ w \in State
          /\ w.opening = u.opening /\ w.over = u.over /\ w.lost = u.lost
          /\ w.starting = u.starting /\ w.original = u.original /\ w.active = u.active
          /\ w.window = u.window /\ w.parked = u.parked /\ w.bottom = NoBottom
          /\ w.resolved = u.resolved /\ w.actor = NoSeat
          /\ w.taken = u.taken /\ w.hand = u.hand
      BY <1>2, <2>2, SeatFacts DEF State
    <2>4. ReplaceMulliganActor(u, p) = PickNextOrFinish(w, p)
      BY <1>5 DEF ReplaceMulliganActor
    <2> HIDE DEF w
    <2>5. FirstTurn(w) /\ Live(w) = Live(u)
      BY <1>2, <2>3 DEF FirstTurn, Live
    <2>6. Dealt(w)
      <3>1. ASSUME NEW q \in Live(w)
            PROVE  w.hand[q] = HandSize - (IF q \in w.resolved THEN Price(w.taken[q]) ELSE 0)
        <4>1. q \in Live(op) /\ q # p /\ q \in Seat /\ q # NoSeat
          BY <1>4, <2>5
        <4>2. op.bottom.player # q
          BY <2>1, <4>1 DEF Mulliganing
        <4>3. op.hand[q] = HandSize - (IF q \in op.resolved THEN Price(op.taken[q]) ELSE 0)
          BY <4>1, <4>2 DEF Mulliganing, Dealt
        <4> QED  BY <1>3, <2>3, <4>1, <4>3
      <3>2. \A q \in Live(w) : q # NoSeat
        BY <1>4, <2>5
      <3>3. \A q \in Seat \ w.resolved : Price(w.taken[q]) < HandSize
        BY <1>3, <2>1, <2>3, SeatFacts DEF Mulliganing, Dealt
      <3> QED  BY <2>2, <2>3, <3>1, <3>2, <3>3 DEF Dealt
    <2>7. \E m \in 0 .. (HandSize + 1) : \A q \in Seat \ w.resolved :
              w.taken[q] = IF Rank(w, q) <= Rank(w, p) THEN m + 1 ELSE m
      BY <1>1, <1>3, <2>1, <2>3, RoundWithoutActor DEF Mulliganing
    <2>8. w.lost \subseteq w.resolved
      BY <1>3, <2>3 DEF Mulliganing
    <2>9. Between(w, p)
      BY <1>3, <2>2, <2>3, <2>5, <2>6, <2>7, <2>8 DEF Between, Departs
    <2> QED  BY <1>1, <2>3, <2>4, <2>9, PickNextOrFinishGood DEF u
  <1>6. CASE ~(u.actor = p \/ u.bottom.player = p)
    <2>1. ReplaceMulliganActor(u, p) = u
      BY <1>6 DEF ReplaceMulliganActor
    <2>2. Dealt(u)
      <3>1. ASSUME NEW q \in Live(u)
            PROVE  u.hand[q] = HandSize - (IF q \in u.resolved THEN Price(u.taken[q])
                                           ELSE IF u.bottom.player = q
                                                THEN Price(u.taken[q]) - u.bottom.left
                                                ELSE 0)
        BY <1>3, <1>4 DEF Mulliganing, Dealt
      <3> QED  BY <1>3, <3>1 DEF Mulliganing, Dealt
    <2>3. InRound(u)
      <3>1. \A q \in Seat : Rank(u, q) = Rank(op, q)
        BY <1>3 DEF Rank
      <3> QED  BY <1>3, <3>1 DEF Mulliganing, InRound
    <2>4. Mulliganing(u)
      BY <1>2, <1>3, <1>6, <2>2, <2>3 DEF Mulliganing
    <2> QED  BY <1>2, <1>3, <2>1, <2>4 DEF Good, Departs, u
  <1> QED  BY <1>5, <1>6

\* A departure while opening hands are played: a window the player held goes to
\* somebody else who can use it, and otherwise stays where it is.
LEMMA DepartureInWindow ==
    ASSUME NEW t, NEW p, Departs(t, p), HandActions(op)
    PROVE  LET v == HandOnWindow(PassOnFirstTurn(t, p), p) IN Good(v) /\ ~v.over
  <1> DEFINE u == PassOnFirstTurn(t, p)
             F == u.finished \cup {p}
             w == [u EXCEPT !.finished = F]
  <1>1. /\ t \in State /\ op \in State /\ p \in Seat /\ p \in Live(op)
        /\ Live(t) = Live(op) \ {p} /\ Live(op) \ {p} # {} /\ p # NoSeat
        /\ FirstTurn(op) /\ op.opening = TRUE /\ op.over = FALSE
    <2>1. op.opening = TRUE /\ op.over = FALSE
      BY DEF Departs, State
    <2> QED  BY <2>1, SeatFacts DEF Departs, Live, HandActions
  <1>2. FirstTurn(u) /\ u \in State
    BY <1>1, FirstTurnPassesOn DEF Departs
  <1>3. /\ u.opening = op.opening /\ u.over = op.over /\ u.lost = op.lost \cup {p}
        /\ u.original = op.original /\ u.actor = op.actor /\ u.bottom = op.bottom
        /\ u.resolved = op.resolved \cup {p} /\ u.window = op.window
        /\ u.parked = (IF op.parked = p THEN NoSeat ELSE op.parked)
        /\ u.priority = op.priority /\ u.finished = op.finished
        /\ \A q \in Seat : q # p => u.caverns[q] = op.caverns[q]
    <2>1. /\ u.opening = t.opening /\ u.over = t.over /\ u.lost = t.lost
          /\ u.original = t.original /\ u.actor = t.actor /\ u.bottom = t.bottom
          /\ u.resolved = t.resolved /\ u.window = t.window /\ u.finished = t.finished
          /\ u.parked = t.parked /\ u.priority = t.priority /\ u.caverns = t.caverns
      BY <1>1, PassOnFirstTurnFields
    <2> HIDE DEF u
    <2> QED  BY <2>1 DEF Departs
  <1> HIDE DEF u
  <1>4. F \in SUBSET Seat
    BY <1>1, <1>2 DEF State
  <1> HIDE DEF F
  <1>5. /\ w \in State
        /\ w.opening = u.opening /\ w.over = u.over /\ w.lost = u.lost
        /\ w.starting = u.starting /\ w.original = u.original /\ w.active = u.active
        /\ w.window = u.window /\ w.parked = u.parked /\ w.bottom = u.bottom
        /\ w.resolved = u.resolved /\ w.actor = u.actor /\ w.priority = u.priority
        /\ w.caverns = u.caverns /\ w.finished = F
    BY <1>2, <1>4 DEF State
  <1>6. HandOnWindow(u, p) = IF u.window = p THEN AdvanceHandWindow(w, NextInGame(w, p)) ELSE w
    BY DEF HandOnWindow, F
  <1> HIDE DEF w
  <1>7. FirstTurn(w) /\ Live(w) = Live(op) \ {p}
    BY <1>2, <1>3, <1>5 DEF FirstTurn, Live
  <1>8. w.resolved = Seat
    BY <1>1, <1>3, <1>5 DEF HandActions
  <1>9. CASE u.window = p
    <2>1. w.parked = NoSeat
      BY <1>3, <1>5, <1>9 DEF HandActions
    <2>2. NextInGame(w, p) \in Seat
      BY <1>1, <1>7, FirstAfterInSet DEF NextInGame, Live
    <2> QED  BY <1>1, <1>3, <1>5, <1>6, <1>7, <1>8, <1>9, <2>1, <2>2, AdvanceHandWindowGood
                DEF HandActions, u
  <1>10. CASE u.window # p
    <2>1. w.window \in Eligible(w)
      BY <1>1, <1>3, <1>5, <1>7, <1>10 DEF HandActions, Eligible, Live, F
    <2>2. HandActions(w)
      BY <1>1, <1>3, <1>5, <1>7, <1>8, <1>10, <2>1 DEF HandActions
    <2> QED  BY <1>1, <1>3, <1>5, <1>6, <1>10, <2>2 DEF Good, u
  <1> QED  BY <1>9, <1>10

\* Conceding keeps the invariant.
LEMMA ConcedeInv ==
    ASSUME Inv, NEW p \in Seat, Concede(p) PROVE Inv'
  <1> DEFINE L == op.lost \cup {p}
             H == [op.hand EXCEPT ![p] = 0]
             C == [op.caverns EXCEPT ![p] = 0]
             s == [op EXCEPT !.lost = L, !.hand = H, !.caverns = C]
  <1>1. op \in State /\ op.opening = TRUE /\ op.over = FALSE /\ p \in Live(op) /\ Good(op)
    <2>1. op \in State /\ op.opening /\ ~op.over /\ p \in Live(op) /\ Good(op)
      BY DEF Inv, Good, Concede, MayAct
    <2> QED  BY <2>1 DEF State
  <1>2. L \in SUBSET Seat /\ H \in [Seat -> 0 .. HandSize] /\ C \in [Seat -> 0 .. HandSize]
        /\ \A q \in Seat : q # p => H[q] = op.hand[q] /\ C[q] = op.caverns[q]
    BY <1>1, HandAssumption DEF State
  <1>3. op' = IF Cardinality(Live(s)) <= 1
              THEN [s EXCEPT !.over = TRUE, !.opening = FALSE, !.parked = NoSeat]
              ELSE LET t == ReconcileOpeningDeparture(s, p)
                   IN  IF t.priority \in t.lost
                       THEN [t EXCEPT !.priority = NextInGame(t, t.priority)]
                       ELSE t
    BY DEF Concede
  <1> HIDE DEF L, H, C
  <1>4. /\ s \in State
        /\ s.lost = L /\ s.hand = H /\ s.caverns = C
        /\ s.opening = op.opening /\ s.over = op.over /\ s.chooser = op.chooser
        /\ s.starting = op.starting /\ s.original = op.original /\ s.actor = op.actor
        /\ s.bottom = op.bottom /\ s.taken = op.taken /\ s.resolved = op.resolved
        /\ s.window = op.window /\ s.finished = op.finished /\ s.parked = op.parked
        /\ s.active = op.active /\ s.priority = op.priority
    <2>1. s \in State
      BY <1>1, <1>2, ZenonT(60) DEF State
    <2> QED  BY <1>1, <2>1 DEF State
  <1> HIDE DEF s
  <1>5. CASE Cardinality(Live(s)) <= 1
    <2> DEFINE e == [s EXCEPT !.over = TRUE, !.opening = FALSE, !.parked = NoSeat]
    <2>1. e \in State
      BY <1>4, SeatFacts, ZenonT(60) DEF State
    <2>2. e.over = TRUE /\ e.opening = FALSE /\ e.parked = NoSeat
      BY <1>4 DEF State
    <2>3. op' = e
      BY <1>3, <1>5
    <2> HIDE DEF e
    <2> QED  BY <2>1, <2>2, <2>3 DEF Inv, Good
  <1>6. CASE ~(Cardinality(Live(s)) <= 1)
    <2> DEFINE P == IF op.parked = p THEN NoSeat ELSE op.parked
               R == op.resolved \cup {p}
               t == [AbandonEntry(s, p) EXCEPT !.resolved = @ \cup {p}]
               z == ReconcileOpeningDeparture(s, p)
    <2>1. Live(s) # {} /\ Live(s) = Live(op) \ {p}
      BY <1>4, <1>6, FS_EmptySet DEF Live, L
    <2>2. P \in 0 .. N /\ R \in SUBSET Seat
      BY <1>1, SeatFacts DEF State
    <2>3. /\ t \in State
          /\ t.parked = P /\ t.resolved = R
          /\ t.lost = s.lost /\ t.hand = s.hand /\ t.caverns = s.caverns
          /\ t.opening = s.opening /\ t.over = s.over /\ t.chooser = s.chooser
          /\ t.starting = s.starting /\ t.original = s.original /\ t.actor = s.actor
          /\ t.bottom = s.bottom /\ t.taken = s.taken
          /\ t.window = s.window /\ t.finished = s.finished
          /\ t.active = s.active /\ t.priority = s.priority
      <3>1. CASE s.parked = p
        <4>1. t = [s EXCEPT !.parked = NoSeat, !.resolved = R]
          BY <1>4, <3>1 DEF AbandonEntry, State
        <4> HIDE DEF t, R
        <4>2. [s EXCEPT !.parked = NoSeat, !.resolved = R] \in State
          BY <1>4, <2>2, SeatFacts, ZenonT(60) DEF State
        <4>3. P = NoSeat
          BY <1>4, <3>1
        <4> HIDE DEF P
        <4> QED  BY <1>4, <4>1, <4>2, <4>3 DEF State
      <3>2. CASE s.parked # p
        <4>1. t = [s EXCEPT !.resolved = R]
          BY <1>4, <3>2 DEF AbandonEntry, State
        <4> HIDE DEF t, R
        <4>2. [s EXCEPT !.resolved = R] \in State
          BY <1>4, <2>2, ZenonT(60) DEF State
        <4>3. P = s.parked
          BY <1>4, <3>2
        <4> HIDE DEF P
        <4> QED  BY <1>4, <4>1, <4>2, <4>3 DEF State
      <3> QED  BY <3>1, <3>2
    <2>4. z = IF t.starting = NoSeat
              THEN IF t.chooser = p
                   THEN [t EXCEPT !.chooser = NextInGame(t, p), !.priority = NextInGame(t, p)]
                   ELSE t
              ELSE IF PassOnFirstTurn(t, p).window # NoSeat
                   THEN HandOnWindow(PassOnFirstTurn(t, p), p)
                   ELSE ReplaceMulliganActor(PassOnFirstTurn(t, p), p)
      BY DEF ReconcileOpeningDeparture
    <2> HIDE DEF t
    <2>5. Departs(t, p)
      BY <1>1, <1>2, <1>4, <2>1, <2>3 DEF Departs, L
    <2>6. PassOnFirstTurn(t, p).window = op.window
      <3>1. PassOnFirstTurn(t, p).window = t.window
        BY <2>3, PassOnFirstTurnFields
      <3> QED  BY <1>4, <2>3, <3>1
    <2>7. t.starting = op.starting
      BY <1>4, <2>3
    <2> HIDE DEF z
    <2>8. Good(z) /\ ~z.over
      <3>1. CASE Choosing(op)
        <4>1. t.starting = NoSeat
          BY <2>7, <3>1 DEF Choosing
        <4>2. CASE t.chooser = p
          <5> DEFINE c == [t EXCEPT !.chooser = NextInGame(t, p), !.priority = NextInGame(t, p)]
          <5>1. z = c
            BY <2>4, <4>1, <4>2
          <5>2. Good(c)
            BY <2>5, <3>1, <4>2, DepartureWhileChoosing
          <5>3. c.over = t.over
            BY <2>3 DEF State
          <5> HIDE DEF c
          <5> QED  BY <1>1, <1>4, <2>3, <5>1, <5>2, <5>3
        <4>3. CASE t.chooser # p
          <5>1. z = t
            BY <2>4, <4>1, <4>3
          <5> QED  BY <1>1, <1>4, <2>3, <2>5, <3>1, <4>3, <5>1, DepartureWhileChoosing
        <4> QED  BY <4>2, <4>3
      <3>2. CASE Mulliganing(op)
        <4>1. t.starting # NoSeat /\ op.window = NoSeat
          BY <2>7, <3>2, SeatFacts DEF Mulliganing, FirstTurn, Live
        <4>2. z = ReplaceMulliganActor(PassOnFirstTurn(t, p), p)
          BY <2>4, <2>6, <4>1
        <4> QED  BY <2>5, <3>2, <4>2, DepartureWhileMulliganing
      <3>3. CASE HandActions(op)
        <4>1. t.starting # NoSeat /\ op.window # NoSeat
          BY <2>7, <3>3, SeatFacts DEF HandActions, FirstTurn, Live, Eligible
        <4>2. z = HandOnWindow(PassOnFirstTurn(t, p), p)
          BY <2>4, <2>6, <4>1
        <4> QED  BY <2>5, <3>3, <4>2, DepartureInWindow
      <3> QED  BY <1>1, <3>1, <3>2, <3>3 DEF Good
    <2>9. z.priority \notin z.lost
      BY <2>8, GoodPriority DEF Live
    <2>10. op' = z
      BY <1>3, <1>6, <2>9 DEF z
    <2> QED  BY <2>8, <2>10 DEF Inv
  <1> QED  BY <1>5, <1>6

\* Every step of the opening keeps the invariant.
LEMMA NextInv == Inv /\ [Next]_op => Inv'
  <1> SUFFICES ASSUME Inv, [Next]_op PROVE Inv'
    OBVIOUS
  <1>1. CASE UNCHANGED op
    BY <1>1 DEF Inv
  <1>2. CASE Next
    <2>1. PICK p \in Seat :
              \/ ChooseStartingPlayer(p) \/ Keep(p) \/ Mulligan(p) \/ PutOnBottom(p)
              \/ FinishOpeningHandActions(p) \/ BeginWithGemstoneCaverns(p)
              \/ AnswerEntryChoice(p) \/ Concede(p)
      BY <1>2 DEF Next
    <2> QED  BY <2>1, ChooseInv, KeepInv, MulliganInv, PutOnBottomInv, WindowInv, ConcedeInv
  <1> QED  BY <1>1, <1>2

\* The opening is always in one of its phases.
LEMMA AlwaysInv == Spec => []Inv
  BY InitInv, NextInv, PTL DEF Spec

-----------------------------------------------------------------------------
(***************************************************************************)
(* The theorems.                                                           *)
(***************************************************************************)

\* Every seat the walks of the opening compute exists, and every count of cards
\* and mulligans stays in its range, whoever concedes and when.
THEOREM OpeningTypeCorrect == Spec => []TypeOK
  <1>1. Inv => TypeOK
    BY DEF Inv, Good, TypeOK
  <1> QED  BY <1>1, AlwaysInv, PTL

\* The opening always waits for exactly one player, who is in the game and can
\* answer: every departure hands on the decision that player held
\* (reconcile_opening_departure).
THEOREM AlwaysOneDecider == Spec => []OneDecider
  <1>1. Inv => OneDecider
    <2> SUFFICES ASSUME Inv, op.opening PROVE OneDecider
      BY DEF OneDecider
    <2>1. CASE Choosing(op)
      BY <2>1 DEF Choosing, OneDecider, Decider
    <2>2. CASE Mulliganing(op)
      BY <2>2, SeatFacts DEF Mulliganing, FirstTurn, Live, OneDecider, Decider
    <2>3. CASE HandActions(op)
      BY <2>3, SeatFacts DEF HandActions, FirstTurn, Live, Eligible, OneDecider, Decider
    <2> QED  BY <2>1, <2>2, <2>3 DEF Inv, Good
  <1> QED  BY <1>1, AlwaysInv, PTL

\* Mulligans go round the table at every table size: nobody who is still
\* deciding is two mulligans ahead of another (next_unresolved_from).
THEOREM AlwaysRoundTheTable == Spec => []MulligansGoRound
  <1>1. Inv => MulligansGoRound
    <2> SUFFICES ASSUME Inv, op.opening, NEW p \in Seat \ op.resolved, NEW q \in Seat \ op.resolved
                 PROVE  op.taken[p] <= op.taken[q] + 1
      BY DEF MulligansGoRound
    <2>1. CASE Choosing(op)
      BY <2>1 DEF Choosing
    <2>2. CASE Mulliganing(op)
      <3>1. PICK m \in 0 .. (HandSize + 1) : \A r \in Seat \ op.resolved :
                op.taken[r] = m \/ op.taken[r] = m + 1
        BY <2>2 DEF Mulliganing, InRound
      <3>2. m \in Int
        BY HandAssumption
      <3> QED  BY <3>1, <3>2
    <2>3. CASE HandActions(op)
      BY <2>3 DEF HandActions
    <2> QED  BY <2>1, <2>2, <2>3 DEF Inv, Good
  <1> QED  BY <1>1, AlwaysInv, PTL

\* Hands are what the mulligans leave at a table of this size, whoever leaves.
THEOREM AlwaysHandsAsPromised == Spec => []HandsAsPromised
  <1>1. Inv => HandsAsPromised
    BY SeatFacts DEF Inv, Good, Choosing, Mulliganing, Dealt, HandActions, Eligible, Live,
                     HandsAsPromised
  <1> QED  BY <1>1, AlwaysInv, PTL

\* The first turn goes to the first player still in the game from the chosen
\* seat on, after any number of departures in any order.
THEOREM AlwaysFirstLiveStarts == Spec => []FirstLiveStarts
  <1>1. Inv => FirstLiveStarts
    BY DEF Inv, Good, Choosing, Mulliganing, HandActions, Begun, FirstTurn, FirstLiveStarts
  <1> QED  BY <1>1, AlwaysInv, PTL

\* No departure leaves an opening-hand action parked for nobody.
THEOREM NeverAnOrphanEntry == Spec => []NoOrphanEntry
  <1>1. Inv => NoOrphanEntry
    BY DEF Inv, Good, Choosing, Mulliganing, HandActions, Begun, Eligible, Live, NoOrphanEntry
  <1> QED  BY <1>1, AlwaysInv, PTL
=============================================================================
