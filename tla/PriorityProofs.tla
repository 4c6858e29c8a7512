--------------------------- MODULE PriorityProofs ---------------------------
(***************************************************************************)
(* Proofs about the priority machine, for every number of seats and every  *)
(* bound.                                                                  *)
(***************************************************************************)
EXTENDS Priority, SeatsProofs, SequenceTheorems, TLAPS

(***************************************************************************)
(* What every intermediate state of a command satisfies.                   *)
(***************************************************************************)
Sound(s) ==
    /\ s \in State
    /\ s.choice.kind # "None" => s.choice.player \in Seat
    /\ s.choice.kind \in {"Cast", "Trigger"} => s.plays < MaxPlays
    /\ s.choice.kind = "Attack" => s.choice.player = s.active
    /\ s.active \notin s.combat.attacked
    /\ s.outcome \in Seat => s.outcome \in Live(s)
    /\ s.outcome = Draw => Live(s) = {}
    /\ s.outcome = NoOutcome => Live(s) # {}

\* A state handed to settlement.
Pending(s) ==
    /\ Sound(s)
    /\ ~Terminal(s) =>
          /\ Unsettled(s) =>
                /\ s.crushed = {}
                /\ s.choice.player \in Live(s)
                /\ s.active \in s.lost => s.combat.attacked = {}
          /\ s.crushed # {} =>
                /\ s.active \in Live(s)
                /\ s.active \notin s.doomed \cup s.crushed
                /\ s.damagePending
                /\ s.choice.kind = "None"

\* A state between two commands.
Settled(s) ==
    /\ Sound(s)
    /\ ~Terminal(s) =>
          /\ s.crushed = {}
          /\ s.active \in s.lost => s.combat.attacked = {}
          /\ s.choice.kind = "None" => s.priority \in Live(s)
          /\ s.choice.kind # "None" => s.choice.player \in Live(s)

\* t differs from s only in what these predicates do not look at.
SameCore(s, t) ==
    /\ t \in State
    /\ t.lost = s.lost
    /\ t.outcome = s.outcome
    /\ t.active = s.active
    /\ t.choice = s.choice
    /\ t.plays = s.plays
    /\ t.combat.attacked \subseteq s.combat.attacked
    /\ t.doomed = s.doomed
    /\ t.crushed = s.crushed
    /\ t.damagePending = s.damagePending

-----------------------------------------------------------------------------
(***************************************************************************)
(* Seats.                                                                  *)
(***************************************************************************)

\* next_in_game_player_idx returns a player still in the game.
LEMMA NextInGameIsLive ==
    ASSUME NEW s \in State, NEW from \in Seat, Live(s) # {}
    PROVE  NextInGame(s, from) \in Live(s) /\ NextInGame(s, from) \in Seat
  BY FirstAfterInSet DEF NextInGame, Live

\* The active player, or the next one if that player left, is in the game.
LEMMA ActiveOrNextIsLive ==
    ASSUME NEW s \in State, Live(s) # {}
    PROVE  ActiveOrNext(s) \in Live(s) /\ ActiveOrNext(s) \in Seat
  BY NextInGameIsLive DEF ActiveOrNext, Live, State

\* A set of survivors wins with its only member, draws when empty, and goes
\* on otherwise.
LEMMA OutcomeOfSurvivors ==
    ASSUME NEW S \in SUBSET Seat
    PROVE  /\ OutcomeOf(S) \in 0 .. (N + 1)
           /\ OutcomeOf(S) \in Seat => OutcomeOf(S) \in S
           /\ OutcomeOf(S) = Draw => S = {}
           /\ OutcomeOf(S) = NoOutcome => S # {}
  <1>1. CASE S = {}
    BY <1>1, SeatsAssumption DEF OutcomeOf, Draw, NoOutcome, Seat
  <1>2. CASE S # {} /\ \E p \in Seat : S = {p}
    <2>1. PICK p \in Seat : S = {p}
      BY <1>2
    <2>2. OutcomeOf(S) = p
      BY <1>2, <2>1 DEF OutcomeOf
    <2> QED  BY <2>1, <2>2, SeatsAssumption DEF Draw, NoOutcome, Seat
  <1>3. CASE S # {} /\ ~ \E p \in Seat : S = {p}
    BY <1>3, SeatsAssumption DEF OutcomeOf, Draw, NoOutcome, Seat
  <1> QED  BY <1>1, <1>2, <1>3

-----------------------------------------------------------------------------
(***************************************************************************)
(* The small operators.                                                    *)
(***************************************************************************)

\* A change outside the core keeps an intermediate state sound.
LEMMA SoundFrame ==
    ASSUME NEW s, Sound(s), NEW t, SameCore(s, t)
    PROVE  Sound(t)
  BY DEF Sound, SameCore, Live

\* Clearing the passes of a round leaves the core alone.
LEMMA ResetPassesCore ==
    ASSUME NEW s \in State PROVE SameCore(s, ResetPasses(s))
  BY DEF ResetPasses, State, SameCore

\* Entering a step leaves the core alone, whoever gets priority.
LEMMA EnterCore ==
    ASSUME NEW s \in State, NEW t \in Steps
    PROVE  SameCore(s, Enter(s, t)) /\ SameCore(s, EnterFresh(s, t))
  BY DEF Enter, EnterFresh, ResetPasses, State, SameCore

\* Combat without the attackers of some defenders is a combat.
LEMMA WithoutDefendersType ==
    ASSUME NEW c \in Combat, NEW gone PROVE WithoutDefenders(c, gone) \in Combat
  BY DEF WithoutDefenders, Combat

\* remove_departing_player_objects keeps the types.
LEMMA RemoveDepartedType ==
    ASSUME NEW s \in State PROVE RemoveDeparted(s) \in State
  <1> DEFINE c == WithoutDefenders(s.combat, IF s.active \in s.lost THEN Seat ELSE s.lost)
             k == {e \in s.stack : e[2] \notin s.lost}
  <1>1. c \in Combat
    BY WithoutDefendersType DEF State
  <1>2. k \in SUBSET ((1 .. MaxPlays) \X Seat)
    BY DEF State
  <1>3. RemoveDeparted(s) = [s EXCEPT !.stack = k, !.combat = c]
    BY DEF RemoveDeparted
  <1> HIDE DEF c, k
  <1> QED  BY ZenonT(60), <1>1, <1>2, <1>3 DEF State

\* Putting an object on the stack keeps the types while plays are left.
LEMMA PushType ==
    ASSUME NEW s \in State, NEW p \in Seat, s.plays < MaxPlays
    PROVE  Push(s, p) \in State
  <1>1. <<s.plays + 1, p>> \in (1 .. MaxPlays) \X Seat
    BY BoundsAssumption DEF State
  <1>2. s.stack \cup {<<s.plays + 1, p>>} \in SUBSET ((1 .. MaxPlays) \X Seat)
    BY <1>1 DEF State
  <1>3. s.plays + 1 \in 0 .. MaxPlays
    BY BoundsAssumption DEF State
  <1> QED  BY <1>2, <1>3 DEF Push, ResetPasses, State
-----------------------------------------------------------------------------
(***************************************************************************)
(* Departure and settlement.                                               *)
(***************************************************************************)

\* Moving the queue of block declarations leaves the core alone.
LEMMA ReconcileBlocksCore ==
    ASSUME NEW s \in State, Live(s) # {} PROVE SameCore(s, ReconcileBlocks(s))
  <1>1. s.combat.waiting # {} => FirstAfter(s.active, s.combat.waiting) \in Seat
    BY FirstAfterInSet DEF State, Combat
  <1>2. ActiveOrNext(s) \in Seat
    BY ActiveOrNextIsLive
  <1>3. [s.combat EXCEPT !.blocked = TRUE] \in Combat
    BY DEF State, Combat
  <1>4. [s.combat EXCEPT !.blocked = TRUE].attacked = s.combat.attacked
    BY DEF State, Combat
  <1> QED  BY <1>1, <1>2, <1>3, <1>4 DEF ReconcileBlocks, ResetPasses, SameCore, State

\* Afterwards priority is with a player in the game, and the core is untouched.
LEMMA ReconcilePriorityCore ==
    ASSUME NEW s \in State, Live(s) # {}
    PROVE  SameCore(s, ReconcilePriority(s)) /\ ReconcilePriority(s).priority \in Live(s)
  BY NextInGameIsLive DEF ReconcilePriority, ResetPasses, SameCore, State, Live

\* RemoveDeparted touches the stack and combat only, and clears combat when the
\* active player is gone.
LEMMA RemoveDepartedCore ==
    ASSUME NEW s \in State
    PROVE  /\ SameCore(s, RemoveDeparted(s))
           /\ s.active \in s.lost => RemoveDeparted(s).combat.attacked = {}
  <1> DEFINE gone == IF s.active \in s.lost THEN Seat ELSE s.lost
             c == WithoutDefenders(s.combat, gone)
  <1>1. RemoveDeparted(s) \in State
    BY RemoveDepartedType
  <1>2. c.attacked = s.combat.attacked \ gone
    BY DEF WithoutDefenders, State, Combat
  <1>3. RemoveDeparted(s).combat = c
    BY DEF RemoveDeparted, State
  <1>4. s.combat.attacked \subseteq Seat
    BY DEF State, Combat
  <1> HIDE DEF c
  <1>5. /\ RemoveDeparted(s).lost = s.lost
        /\ RemoveDeparted(s).outcome = s.outcome
        /\ RemoveDeparted(s).active = s.active
        /\ RemoveDeparted(s).choice = s.choice
        /\ RemoveDeparted(s).plays = s.plays
        /\ RemoveDeparted(s).doomed = s.doomed
        /\ RemoveDeparted(s).crushed = s.crushed
        /\ RemoveDeparted(s).damagePending = s.damagePending
    BY DEF RemoveDeparted, State
  <1> QED  BY <1>1, <1>2, <1>3, <1>4, <1>5 DEF SameCore

\* A transaction that survives a departure belongs to a player in the game.
LEMMA ChoicesAfterDepartureSound ==
    ASSUME NEW s, Sound(s), NEW c \in ChoicesAfterDeparture(s)
    PROVE  /\ c \in Choice
           /\ c.kind # "None" => c.player \in Live(s)
           /\ c.kind = "None" \/ c = s.choice \/ (c.kind = "Resolution" /\ s.choice.kind = "Resolution")
  <1>1. s \in State /\ s.choice \in Choice
    BY DEF Sound, State
  <1>2. CASE c = s.choice /\ s.choice.player \notin s.lost
    BY <1>1, <1>2 DEF Sound, Live
  <1>3. CASE c = NoChoice
    <2>1. NoChoice \in Choice /\ NoChoice.kind = "None"
      BY SeatsAssumption DEF NoChoice, Choice, NoSeat
    <2> QED  BY <1>3, <2>1
  <1>4. CASE s.choice.kind = "Resolution"
             /\ \E p \in Live(s) : c = [kind |-> "Resolution", player |-> p]
    BY <1>4, SeatsAssumption DEF Choice, Live, Seat
  <1> QED
    <2>1. \/ c = s.choice
          \/ c = NoChoice
          \/ \E p \in Live(s) : c = [kind |-> "Resolution", player |-> p]
      BY DEF ChoicesAfterDeparture
    <2>2. \/ c = s.choice /\ s.choice.player \notin s.lost
          \/ c = NoChoice
          \/ c.player \in Live(s) /\ s.choice.kind = "Resolution" /\ s.choice.player \in s.lost
      BY DEF ChoicesAfterDeparture
    <2>3. CASE c = s.choice /\ s.choice.player \in s.lost /\ c.player \in Live(s)
      BY <2>3 DEF Live
    <2> QED  BY <1>2, <1>3, <1>4, <2>1, <2>2, <2>3

\* After reconcile_departed_players nobody waits for a player who left.
LEMMA ReconcileDepartedSound ==
    ASSUME NEW s, Sound(s), ~Terminal(s), NEW r \in ReconcileDeparted(s)
    PROVE  /\ Sound(r)
           /\ r.lost = s.lost /\ r.outcome = s.outcome /\ r.active = s.active
           /\ r.doomed = s.doomed /\ r.crushed = s.crushed
           /\ r.damagePending = s.damagePending
           /\ r.active \in r.lost => r.combat.attacked = {}
           /\ r.priority \in Live(r)
           /\ r.choice.kind # "None" => r.choice.player \in Live(r)
           /\ r.choice.kind \in {"None", s.choice.kind}
  <1>1. s \in State /\ Live(s) # {}
    BY DEF Sound, Terminal
  <1>2. CASE s.lost = {}
    <2>1. r = s
      BY <1>2 DEF ReconcileDeparted
    <2>2. Live(s) = Seat
      BY <1>2 DEF Live
    <2> QED  BY <1>1, <1>2, <2>1, <2>2 DEF Sound, State
  <1>3. CASE s.lost # {}
    <2>1. PICK c \in ChoicesAfterDeparture(s) :
              r = ReconcilePriority(ReconcileBlocks([RemoveDeparted(s) EXCEPT !.choice = c]))
      BY <1>3 DEF ReconcileDeparted
    <2> DEFINE a == RemoveDeparted(s)
               b == [a EXCEPT !.choice = c]
               d == ReconcileBlocks(b)
    <2>2. c \in Choice /\ (c.kind # "None" => c.player \in Live(s))
      BY ChoicesAfterDepartureSound
    <2>3. c.kind = "None" \/ c = s.choice \/ (c.kind = "Resolution" /\ s.choice.kind = "Resolution")
      BY ChoicesAfterDepartureSound
    <2>4. SameCore(s, a) /\ (s.active \in s.lost => a.combat.attacked = {})
      BY <1>1, RemoveDepartedCore
    <2> HIDE DEF a
    <2>5. /\ b \in State /\ b.choice = c
          /\ b.lost = s.lost /\ b.outcome = s.outcome /\ b.active = s.active
          /\ b.plays = s.plays /\ b.doomed = s.doomed /\ b.crushed = s.crushed
          /\ b.damagePending = s.damagePending
          /\ b.combat = a.combat
      BY <2>2, <2>4 DEF SameCore, State
    <2>6. Sound(b)
      BY <2>2, <2>3, <2>4, <2>5 DEF Sound, SameCore, Live, NoChoice
    <2>7. Live(b) = Live(s)
      BY <2>5 DEF Live
    <2> HIDE DEF b
    <2>8. SameCore(b, d)
      BY <1>1, <2>5, <2>7, ReconcileBlocksCore
    <2>9. d \in State /\ Live(d) = Live(s)
      BY <2>5, <2>8 DEF SameCore, Live
    <2> HIDE DEF d
    <2>10. SameCore(d, r) /\ r.priority \in Live(s)
      BY <1>1, <2>1, <2>9, ReconcilePriorityCore DEF a, b, d
    <2>11. Sound(r)
      BY <2>6, <2>8, <2>10, SoundFrame
    <2> QED  BY <2>2, <2>3, <2>4, <2>5, <2>8, <2>10, <2>11 DEF SameCore, Live
  <1> QED  BY <1>2, <1>3

\* The sweep keeps everything but who is in the game, and decides the outcome.
LEMMA SweepLifeSound ==
    ASSUME NEW s, Sound(s)
    PROVE  /\ Sound(SweepLife(s))
           /\ SweepLife(s).lost = s.lost \cup s.doomed
           /\ SweepLife(s).doomed = {}
           /\ SweepLife(s).active = s.active
           /\ SweepLife(s).choice = s.choice
           /\ SweepLife(s).crushed = s.crushed
           /\ SweepLife(s).damagePending = s.damagePending
           /\ SweepLife(s).combat = s.combat
  <1> DEFINE w == SweepLife(s)
  <1>1. s \in State
    BY DEF Sound
  <1>2. Live(s) \ s.doomed \in SUBSET Seat
    BY DEF Live
  <1> DEFINE o == OutcomeOf(Live(s) \ s.doomed)
  <1>3. /\ o \in 0 .. (N + 1)
        /\ o \in Seat => o \in Live(s) \ s.doomed
        /\ o = Draw => Live(s) \ s.doomed = {}
        /\ o = NoOutcome => Live(s) \ s.doomed # {}
    BY <1>2, OutcomeOfSurvivors
  <1> HIDE DEF o
  <1>4. w = [s EXCEPT !.lost = s.lost \cup s.doomed, !.doomed = {}, !.outcome = o]
    BY DEF SweepLife, o
  <1>5. /\ w \in State /\ w.outcome = o
        /\ w.lost = s.lost \cup s.doomed /\ w.doomed = {} /\ w.active = s.active
        /\ w.choice = s.choice /\ w.crushed = s.crushed /\ w.plays = s.plays
        /\ w.damagePending = s.damagePending /\ w.combat = s.combat
    BY ZenonT(60), <1>1, <1>3, <1>4 DEF State
  <1> HIDE DEF w
  <1>6. Live(w) = Live(s) \ s.doomed
    BY <1>5 DEF Live
  <1>7. Sound(w)
    BY <1>3, <1>5, <1>6 DEF Sound
  <1> QED  BY <1>5, <1>7 DEF w

\* Recomputing damage_assignment_needed keeps the types of combat.
LEMMA RecomputedType ==
    ASSUME NEW c \in Combat
    PROVE  Recomputed(c) \in Combat /\ Recomputed(c).attacked = c.attacked
  BY DEF Recomputed, Missing, Combat

\* What is recorded about a group's assignment says nothing of who is attacked.
LEMMA NoNeedType ==
    ASSUME NEW c \in Combat, NEW d
    PROVE  NoNeed(c, d) \in Combat /\ NoNeed(c, d).attacked = c.attacked
  BY DEF NoNeed, Combat

LEMMA CoverOrNotType ==
    ASSUME NEW c \in Combat, NEW d \in Seat, NEW x \in CoverOrNot(c, d)
    PROVE  x \in Combat /\ x.attacked = c.attacked
  <1>1. CASE x = [c EXCEPT !.short = @ \ {d}]
    BY <1>1 DEF Combat
  <1>2. CASE x = [c EXCEPT !.short = @ \cup {d}]
    BY <1>2 DEF Combat
  <1> QED  BY <1>1, <1>2 DEF CoverOrNot

\* Creatures leaving combat add no attacked player.
LEMMA RemovalsType ==
    ASSUME NEW c \in Combat, NEW x \in Removals(c)
    PROVE  x \in Combat /\ x.attacked \subseteq c.attacked
  <1>1. PICK y : /\ x = Recomputed(y)
                 /\ \/ \E d \in c.attacked :
                          y = [NoNeed(c, d) EXCEPT !.attacked = @ \ {d}, !.blocks = @ \ {d}]
                    \/ \E d \in c.blocks : y = NoNeed(c, d)
                    \/ \E d \in c.needs \ c.thinned :
                          y \in CoverOrNot([c EXCEPT !.assigned = @ \ {d},
                                                     !.thinned = @ \cup {d}], d)
    BY DEF Removals
  <1>2. y \in Combat /\ y.attacked \subseteq c.attacked
    <2>1. ASSUME NEW d \in c.attacked,
                 y = [NoNeed(c, d) EXCEPT !.attacked = @ \ {d}, !.blocks = @ \ {d}]
          PROVE  y \in Combat /\ y.attacked \subseteq c.attacked
      BY <2>1, NoNeedType DEF Combat
    <2>2. ASSUME NEW d \in c.blocks, y = NoNeed(c, d)
          PROVE  y \in Combat /\ y.attacked \subseteq c.attacked
      BY <2>2, NoNeedType
    <2>3. ASSUME NEW d \in c.needs \ c.thinned,
                 y \in CoverOrNot([c EXCEPT !.assigned = @ \ {d}, !.thinned = @ \cup {d}], d)
          PROVE  y \in Combat /\ y.attacked \subseteq c.attacked
      <3> DEFINE e == [c EXCEPT !.assigned = @ \ {d}, !.thinned = @ \cup {d}]
      <3>1. e \in Combat /\ e.attacked = c.attacked /\ d \in Seat
        BY DEF Combat
      <3> HIDE DEF e
      <3>2. y \in CoverOrNot(e, d)
        BY <2>3 DEF e
      <3> QED  BY <3>1, <3>2, CoverOrNotType
    <2> QED  BY <1>1, <2>1, <2>2, <2>3
  <1> QED  BY <1>1, <1>2, RecomputedType

\* State-based actions after combat damage leave the active player in the game.
LEMMA ApplySbasSound ==
    ASSUME NEW s, Sound(s), NEW a \in ApplySbas(s),
           s.crushed # {} => s.active \in Live(s) \ s.crushed,
           s.active \in s.lost => s.combat.attacked = {},
           ~Terminal(s)
    PROVE  /\ Sound(a)
           /\ a.lost = s.lost \cup s.crushed
           /\ a.crushed = {}
           /\ a.active = s.active /\ a.choice = s.choice
           /\ a.damagePending = s.damagePending /\ a.priority = s.priority
           /\ a.active \in a.lost => a.combat.attacked = {}
           /\ ~Terminal(a)
  <1>1. s \in State /\ s.combat \in Combat
    BY DEF Sound, State
  <1>2. PICK c : /\ c = s.combat \/ c \in Removals(s.combat)
                 /\ a = [s EXCEPT !.lost = s.lost \cup s.crushed, !.crushed = {}, !.combat = c]
    BY DEF ApplySbas
  <1>3. c \in Combat /\ c.attacked \subseteq s.combat.attacked
    BY <1>1, <1>2, RemovalsType
  <1>4. /\ a \in State /\ a.lost = s.lost \cup s.crushed /\ a.crushed = {}
        /\ a.active = s.active /\ a.choice = s.choice /\ a.plays = s.plays
        /\ a.damagePending = s.damagePending /\ a.priority = s.priority
        /\ a.combat = c /\ a.outcome = s.outcome
    BY <1>1, <1>2, <1>3 DEF State
  <1>5. a.active \in a.lost => a.combat.attacked = {}
    BY <1>1, <1>3, <1>4 DEF Live
  <1>6. s.outcome = NoOutcome
    BY DEF Terminal
  <1>7. Live(a) # {}
    BY <1>1, <1>4, <1>6 DEF Live, Sound
  <1>8. Sound(a)
    BY <1>3, <1>4, <1>6, <1>7, SeatsAssumption DEF Sound, NoOutcome, Draw, Seat
  <1> QED  BY <1>4, <1>5, <1>6, <1>8 DEF Terminal

\* A question put to a player of the game is a sound transaction.
LEMMA AskSound ==
    ASSUME NEW s, Sound(s), NEW p \in Seat, NEW kind \in {"Resolution", "Cast", "Attack", "Trigger"},
           kind \in {"Cast", "Trigger"} => s.plays < MaxPlays,
           kind = "Attack" => p = s.active
    PROVE  /\ Sound(Ask(s, kind, p))
           /\ Ask(s, kind, p).choice = [kind |-> kind, player |-> p]
           /\ Ask(s, kind, p).lost = s.lost /\ Ask(s, kind, p).outcome = s.outcome
           /\ Ask(s, kind, p).active = s.active /\ Ask(s, kind, p).combat = s.combat
           /\ Ask(s, kind, p).doomed = s.doomed /\ Ask(s, kind, p).crushed = s.crushed
           /\ Ask(s, kind, p).damagePending = s.damagePending
  <1>1. [kind |-> kind, player |-> p] \in Choice
    BY SeatsAssumption DEF Choice, Seat
  <1> DEFINE q == [kind |-> kind, player |-> p]
             t == Ask(s, kind, p)
  <1>2. q.kind = kind /\ q.player = p
    OBVIOUS
  <1>3. /\ t \in State /\ t.choice = q /\ t.lost = s.lost /\ t.outcome = s.outcome
        /\ t.active = s.active /\ t.combat = s.combat /\ t.plays = s.plays
        /\ t.doomed = s.doomed /\ t.crushed = s.crushed
        /\ t.damagePending = s.damagePending
    BY <1>1 DEF Ask, Sound, State
  <1> HIDE DEF t, q
  <1>4. Sound(t)
    BY <1>2, <1>3 DEF Sound, Live
  <1> QED  BY <1>3, <1>4 DEF t, q

\* An object goes on the stack without disturbing the core.
LEMMA PushSound ==
    ASSUME NEW s, Sound(s), NEW p \in Seat, s.plays < MaxPlays,
           s.choice.kind \notin {"Cast", "Trigger"}
    PROVE  /\ Sound(Push(s, p))
           /\ Push(s, p).choice = s.choice
           /\ Push(s, p).lost = s.lost /\ Push(s, p).outcome = s.outcome
           /\ Push(s, p).active = s.active /\ Push(s, p).combat = s.combat
           /\ Push(s, p).doomed = s.doomed /\ Push(s, p).crushed = s.crushed
           /\ Push(s, p).damagePending = s.damagePending
           /\ Push(s, p).priority = s.priority
  <1> DEFINE t == Push(s, p)
  <1>1. s \in State /\ t \in State
    BY PushType DEF Sound
  <1>2. /\ t.choice = s.choice /\ t.lost = s.lost /\ t.outcome = s.outcome
        /\ t.active = s.active /\ t.combat = s.combat
        /\ t.doomed = s.doomed /\ t.crushed = s.crushed
        /\ t.damagePending = s.damagePending /\ t.priority = s.priority
    BY <1>1 DEF Push, ResetPasses, State
  <1> HIDE DEF t
  <1>3. Sound(t)
    BY <1>1, <1>2 DEF Sound, Live
  <1> QED  BY <1>2, <1>3 DEF t

\* Triggers go on the stack, or ask a player in the game.
LEMMA FlushTriggersSound ==
    ASSUME NEW s, Sound(s), NEW f \in FlushTriggers(s)
    PROVE  /\ Sound(f)
           /\ f.lost = s.lost /\ f.outcome = s.outcome /\ f.active = s.active
           /\ f.combat = s.combat /\ f.doomed = s.doomed /\ f.crushed = s.crushed
           /\ f.damagePending = s.damagePending
           /\ f.choice = s.choice \/ (f.choice.kind = "Trigger" /\ f.choice.player \in Live(s))
           /\ f.choice.kind = "None" => f.choice = s.choice /\ f.priority = s.priority
  <1>1. CASE f = s
    BY <1>1
  <1>2. CASE s.choice.kind = "None" /\ s.plays < MaxPlays /\ \E p \in Live(s) : f = Push(s, p)
    BY <1>2, PushSound DEF Live
  <1>3. CASE s.choice.kind = "None" /\ s.plays < MaxPlays /\ \E p \in Live(s) : f = Ask(s, "Trigger", p)
    <2>1. PICK p \in Live(s) : f = Ask(s, "Trigger", p)
      BY <1>3
    <2>2. p \in Seat
      BY DEF Live
    <2>3. /\ Sound(f)
          /\ f.choice = [kind |-> "Trigger", player |-> p]
          /\ f.lost = s.lost /\ f.outcome = s.outcome /\ f.active = s.active
          /\ f.combat = s.combat /\ f.doomed = s.doomed /\ f.crushed = s.crushed
          /\ f.damagePending = s.damagePending
      BY <1>3, <2>1, <2>2, AskSound
    <2>4. f.choice.kind = "Trigger" /\ f.choice.player = p
      BY <2>3
    <2> QED  BY <2>3, <2>4
  <1> QED  BY <1>1, <1>2, <1>3 DEF FlushTriggers

\* A finished game needs nobody: it is settled once it is sound.
LEMMA FinishTerminalSound ==
    ASSUME NEW s, Sound(s), Terminal(s)
    PROVE  Settled(FinishTerminal(s))
  <1> DEFINE c == IF s.choice.kind = "Attack" THEN s.choice ELSE NoChoice
             t == FinishTerminal(s)
  <1>1. c \in Choice /\ (c.kind # "None" => c = s.choice /\ c.kind = "Attack")
    BY SeatsAssumption DEF NoChoice, Choice, NoSeat, Sound, State
  <1>2. NoSeat \in 0 .. N
    BY SeatsAssumption DEF NoSeat
  <1>3. t = [s EXCEPT !.choice = c, !.damagePending = FALSE, !.discard = NoSeat]
    BY DEF FinishTerminal
  <1> HIDE DEF c
  <1>4. /\ t \in State /\ t.choice = c /\ t.lost = s.lost /\ t.outcome = s.outcome
        /\ t.active = s.active /\ t.combat = s.combat
    <2>1. s \in State
      BY DEF Sound
    <2>2. c \in Choice
      BY <1>1
    <2> HIDE DEF t
    <2>3. t \in State
      BY <1>2, <1>3, <2>1, <2>2 DEF State
    <2>4. /\ t.choice = c /\ t.lost = s.lost /\ t.outcome = s.outcome
          /\ t.active = s.active /\ t.combat = s.combat
      BY <1>3, <2>1 DEF State
    <2> QED  BY <2>3, <2>4
  <1> HIDE DEF t
  <1>5. Sound(t) /\ Terminal(t)
    BY <1>1, <1>4 DEF Sound, Live, Terminal
  <1> QED  BY <1>5 DEF Settled, t

\* The window after combat damage goes to a player in the game.
LEMMA PublishSound ==
    ASSUME NEW s, Sound(s), ~Terminal(s), s.crushed = {},
           s.active \in s.lost => s.combat.attacked = {},
           s.choice.kind # "None" => s.choice.player \in Live(s),
           s.choice.kind = "None" => s.priority \in Live(s) \/ s.damagePending
    PROVE  Settled(PublishCombatPriority(s))
  <1>1. s \in State /\ Live(s) # {}
    BY DEF Sound, Terminal
  <1>2. CASE ~(s.damagePending /\ ~Parking(s))
    <2>1. PublishCombatPriority(s) = s
      BY <1>2 DEF PublishCombatPriority
    <2>2. s.choice.kind = "None" => ~Parking(s)
      BY DEF Parking
    <2> QED  BY <1>2, <2>1, <2>2 DEF Settled
  <1>3. CASE s.damagePending /\ ~Parking(s)
    <2> DEFINE n == ActiveOrNext(s)
               t == ResetPasses([s EXCEPT !.priority = n, !.damagePending = FALSE])
    <2>1. n \in Live(s) /\ n \in Seat
      BY <1>1, ActiveOrNextIsLive
    <2>2. PublishCombatPriority(s) = t
      BY <1>3 DEF PublishCombatPriority
    <2> HIDE DEF n
    <2>3. /\ t \in State /\ t.priority = n /\ t.choice = s.choice /\ t.lost = s.lost
          /\ t.outcome = s.outcome /\ t.active = s.active /\ t.combat = s.combat
          /\ t.plays = s.plays /\ t.crushed = s.crushed
      BY <1>1, <2>1 DEF ResetPasses, State
    <2> HIDE DEF t
    <2>4. Sound(t) /\ ~Terminal(t)
      BY <2>3 DEF Sound, Live, Terminal
    <2> QED  BY <2>1, <2>2, <2>3, <2>4 DEF Settled, Live
  <1> QED  BY <1>2, <1>3

\* settle_command_batch turns every state a command can leave behind into one in
\* which the game waits for players who are in it.
LEMMA SettleSound ==
    ASSUME NEW s, Pending(s), NEW u \in Settle(s)
    PROVE  Settled(u)
  <1>1. Sound(s)
    BY DEF Pending
  <1>2. CASE Terminal(s)
    BY <1>1, <1>2, FinishTerminalSound DEF Settle
  <1>3. CASE ~Terminal(s) /\ Unsettled(s)
    <2>1. u = PublishCombatPriority(s)
      BY <1>3 DEF Settle
    <2>2. /\ s.crushed = {} /\ s.choice.player \in Live(s)
          /\ s.active \in s.lost => s.combat.attacked = {}
      BY <1>3 DEF Pending
    <2>3. s.choice.kind # "None"
      BY <1>3 DEF Unsettled
    <2> QED  BY <1>1, <1>3, <2>1, <2>2, <2>3, PublishSound
  <1>4. CASE ~Terminal(s) /\ ~Unsettled(s)
    <2> DEFINE w == SweepLife(s)
    <2>1. u \in SettleLosses(s)
      BY <1>4 DEF Settle
    <2>2. /\ Sound(w) /\ w.lost = s.lost \cup s.doomed /\ w.active = s.active
          /\ w.choice = s.choice /\ w.crushed = s.crushed /\ w.damagePending = s.damagePending
      BY <1>1, SweepLifeSound
    <2> HIDE DEF w
    <2>3. CASE Terminal(w)
      BY <2>1, <2>2, <2>3, FinishTerminalSound DEF SettleLosses, w
    <2>4. CASE ~Terminal(w)
      <3>1. PICK r \in ReconcileDeparted(w) :
                \E x \in ApplySbas(r) : \E y \in FlushTriggers(x) : u = PublishCombatPriority(y)
        BY <2>1, <2>4 DEF SettleLosses, w
      <3>a. PICK a \in ApplySbas(r) : \E y \in FlushTriggers(a) : u = PublishCombatPriority(y)
        BY <3>1
      <3>f. PICK f \in FlushTriggers(a) : u = PublishCombatPriority(f)
        BY <3>a
      <3>2. /\ Sound(r) /\ r.lost = w.lost /\ r.outcome = w.outcome /\ r.active = w.active
            /\ r.crushed = w.crushed /\ r.damagePending = w.damagePending
            /\ r.active \in r.lost => r.combat.attacked = {}
            /\ r.priority \in Live(r)
            /\ r.choice.kind # "None" => r.choice.player \in Live(r)
            /\ r.choice.kind \in {"None", w.choice.kind}
        BY <2>2, <2>4, ReconcileDepartedSound
      <3>3. s.crushed # {} => /\ s.active \in Live(s)
                              /\ s.active \notin s.doomed \cup s.crushed
                              /\ s.damagePending /\ s.choice.kind = "None"
        BY <1>4 DEF Pending
      <3>4. ~Terminal(r) /\ (r.crushed # {} => r.active \in Live(r) \ r.crushed)
        BY <2>2, <2>4, <3>2, <3>3 DEF Terminal, Live
      <3>5. /\ Sound(a) /\ a.lost = r.lost \cup r.crushed /\ a.crushed = {}
            /\ a.active = r.active /\ a.choice = r.choice
            /\ a.damagePending = r.damagePending /\ a.priority = r.priority
            /\ a.active \in a.lost => a.combat.attacked = {}
            /\ ~Terminal(a)
        BY <3>2, <3>4, ApplySbasSound
      <3>6. CASE r.crushed = {}
        <4>1. Live(a) = Live(r)
          BY <3>5, <3>6 DEF Live
        <4>2. a.choice.kind # "None" => a.choice.player \in Live(a)
          BY <3>2, <3>5, <4>1
        <4>3. a.priority \in Live(a)
          BY <3>2, <3>5, <4>1
        <4>4. Live(f) = Live(a)
          BY <3>5, FlushTriggersSound DEF Live
        <4> QED  BY <3>f, <3>5, <4>2, <4>3, <4>4, FlushTriggersSound, PublishSound DEF Terminal
      <3>7. CASE r.crushed # {}
        <4>1. a.choice.kind = "None" /\ a.damagePending
          BY <2>2, <3>2, <3>3, <3>5, <3>7
        <4>2. Live(f) = Live(a)
          BY <3>5, FlushTriggersSound DEF Live
        <4> QED  BY <3>f, <3>5, <4>1, <4>2, FlushTriggersSound, PublishSound DEF Terminal
      <3> QED  BY <3>6, <3>7
    <2> QED  BY <2>3, <2>4
  <1> QED  BY <1>2, <1>3, <1>4

-----------------------------------------------------------------------------
(***************************************************************************)
(* What commands do before they are settled.  Most of it happens in states *)
(* in which no transaction is unfinished.                                  *)
(***************************************************************************)
Calm(s) ==
    /\ Sound(s)
    /\ ~Terminal(s)
    /\ s.choice.kind = "None"
    /\ s.crushed = {}
    /\ s.active \in s.lost => s.combat.attacked = {}

\* A calm state may be handed to settlement.
LEMMA CalmPending ==
    ASSUME NEW s, Calm(s) PROVE Pending(s)
  BY DEF Calm, Pending, Unsettled

\* A change outside the core keeps a state calm.
LEMMA CalmFrame ==
    ASSUME NEW s, Calm(s), NEW t, SameCore(s, t) PROVE Calm(t)
  <1>1. Sound(t)
    BY SoundFrame DEF Calm
  <1> QED  BY <1>1 DEF Calm, SameCore, Terminal

\* A calm state of a game that goes on has somebody in the game.
LEMMA CalmLive ==
    ASSUME NEW s, Calm(s) PROVE s \in State /\ Live(s) # {} /\ s.outcome = NoOutcome
  BY DEF Calm, Sound, Terminal

\* A change of combat alone.
LEMMA CalmCombat ==
    ASSUME NEW s, Calm(s), NEW c \in Combat, c.attacked \subseteq s.combat.attacked
    PROVE  SameCore(s, [s EXCEPT !.combat = c]) /\ Calm([s EXCEPT !.combat = c])
  <1>1. SameCore(s, [s EXCEPT !.combat = c])
    BY CalmLive DEF SameCore, State
  <1> QED  BY <1>1, CalmFrame

\* Every question a parked transaction may ask can be handed to settlement.
LEMMA ParkedPending ==
    ASSUME NEW s, Calm(s), NEW t \in Parked(s) PROVE Pending(t)
  <1>1. PICK p \in Live(s) : t = Ask(s, "Resolution", p)
    BY DEF Parked
  <1>2. p \in Seat
    BY DEF Live
  <1>3. /\ Sound(t) /\ t.choice = [kind |-> "Resolution", player |-> p]
        /\ t.lost = s.lost /\ t.active = s.active /\ t.combat = s.combat
        /\ t.crushed = s.crushed
    BY ZenonT(60), <1>1, <1>2, AskSound DEF Calm
  <1>4. t.choice.player = p
    BY <1>3
  <1> QED  BY <1>3, <1>4 DEF Pending, Calm, Live

\* What an effect does to combat adds no attacked player.
LEMMA CombatChangesType ==
    ASSUME NEW c \in Combat, NEW x \in CombatChanges(c)
    PROVE  x \in Combat /\ x.attacked \subseteq c.attacked
  <1>1. CASE x \in Removals(c)
    BY <1>1, RemovalsType
  <1>2. ASSUME NEW d \in c.blocks \ c.assigned,
               x \in CoverOrNot([c EXCEPT !.needs = @ \cup {d}], d)
        PROVE  x \in Combat /\ x.attacked \subseteq c.attacked
    <2> DEFINE e == [c EXCEPT !.needs = @ \cup {d}]
    <2>1. e \in Combat /\ e.attacked = c.attacked /\ d \in Seat
      BY DEF Combat
    <2> HIDE DEF e
    <2>2. x \in CoverOrNot(e, d)
      BY <1>2 DEF e
    <2> QED  BY <2>1, <2>2, CoverOrNotType
  <1>3. ASSUME NEW d \in c.needs, x = NoNeed(c, d)
        PROVE  x \in Combat /\ x.attacked \subseteq c.attacked
    BY <1>3, NoNeedType
  <1> QED  BY <1>1, <1>2, <1>3 DEF CombatChanges

\* An effect kills, grants a turn or changes combat; it leaves a calm state.
LEMMA EffectsCalm ==
    ASSUME NEW s, Calm(s), NEW t \in Effects(s) PROVE Calm(t)
  <1>1. s \in State
    BY CalmLive
  <1>2. ASSUME NEW D \in SUBSET Live(s), t = [s EXCEPT !.doomed = D]
        PROVE  Calm(t)
    <2>1. /\ t \in State /\ t.choice = s.choice /\ t.lost = s.lost /\ t.outcome = s.outcome
          /\ t.active = s.active /\ t.combat = s.combat /\ t.plays = s.plays
          /\ t.crushed = s.crushed
      BY <1>1, <1>2 DEF State, Live
    <2> QED  BY <2>1 DEF Calm, Sound, Terminal, Live
  <1>3. ASSUME NEW p \in Live(s), t = ScheduleExtraTurn(s, p)
        PROVE  Calm(t)
    <2>1. s.queue \in Seq(Seat) /\ <<p>> \in Seq(Seat)
      BY <1>1 DEF State, Live
    <2>2. <<p>> \o s.queue \in Seq(Seat)
      BY <2>1
    <2>3. SameCore(s, t)
      BY <1>1, <1>3, <2>2 DEF ScheduleExtraTurn, SameCore, State
    <2> QED  BY <2>3, CalmFrame
  <1>4. ASSUME NEW c \in CombatChanges(s.combat), t = [s EXCEPT !.combat = c]
        PROVE  Calm(t)
    <2>1. c \in Combat /\ c.attacked \subseteq s.combat.attacked
      BY <1>1, CombatChangesType DEF State
    <2> QED  BY <1>4, <2>1, CalmCombat
  <1> QED  BY <1>2, <1>3, <1>4 DEF Effects

\* An effect that ends the game names a winner who is in it.
LEMMA GameEndedPending ==
    ASSUME NEW s, Calm(s), NEW t \in GameEnded(s) PROVE Pending(t)
  <1>1. PICK p \in Live(s) : t = [s EXCEPT !.outcome = p]
    BY DEF GameEnded
  <1>2. s \in State /\ p \in Seat /\ p \in 0 .. (N + 1) /\ p # NoOutcome /\ p # Draw
    BY CalmLive, SeatsAssumption DEF Live, Seat, NoOutcome, Draw
  <1>3. /\ t \in State /\ t.choice = s.choice /\ t.lost = s.lost /\ t.outcome = p
        /\ t.active = s.active /\ t.combat = s.combat /\ t.plays = s.plays
    BY <1>1, <1>2 DEF State
  <1> QED  BY <1>2, <1>3 DEF Pending, Calm, Sound, Terminal, Live

\* resolve_top_of_stack leaves a state for settlement.
LEMMA ResolveTopOfStackPending ==
    ASSUME NEW s, Calm(s), NEW t \in ResolveTopOfStack(s) PROVE Pending(t)
  <1> DEFINE r == [s EXCEPT !.stack = s.stack \ {Top(s)}]
  <1>0. s \in State /\ s.stack \ {Top(s)} \in SUBSET ((1 .. MaxPlays) \X Seat)
    BY CalmLive DEF State
  <1>1. SameCore(s, r)
    <2> DEFINE k == s.stack \ {Top(s)}
    <2> HIDE DEF k
    <2>1. SameCore(s, [s EXCEPT !.stack = k])
      BY <1>0 DEF SameCore, State, k
    <2> QED  BY <2>1 DEF k
  <1>2. Calm(r)
    BY <1>1, CalmFrame
  <1>3. t \in Effects(r) \/ t \in Parked(r) \/ t \in GameEnded(r)
    BY DEF ResolveTopOfStack
  <1> HIDE DEF r
  <1> QED  BY <1>2, <1>3, EffectsCalm, CalmPending, ParkedPending, GameEndedPending

\* Combat damage cannot remove the player whose turn it is.
LEMMA DealDamagePending ==
    ASSUME NEW s, Calm(s), s.damagePending, NEW u \in DealDamage(s) PROVE Pending(u)
  <1>1. CASE u \in Parked(s)
    BY <1>1, ParkedPending
  <1>2. ASSUME NEW D \in SUBSET Victims(s), NEW C \in SUBSET Victims(s), u = StrikeDown(s, D, C)
        PROVE  Pending(u)
    <2>1. s \in State /\ D \in SUBSET Seat /\ C \ D \in SUBSET Seat
      BY CalmLive DEF Live, Victims
    <2>2. /\ u \in State /\ u.lost = s.lost /\ u.outcome = s.outcome /\ u.active = s.active
          /\ u.choice = s.choice /\ u.plays = s.plays /\ u.damagePending = s.damagePending
          /\ u.combat = s.combat /\ u.doomed = D /\ u.crushed = C \ D
      BY <1>2, <2>1 DEF StrikeDown, State
    <2>3. Sound(u) /\ u.choice.kind = "None"
      BY <2>2 DEF Calm, Sound, Live
    <2>4. s.active \notin Victims(s)
      BY DEF Calm, Sound, Victims
    <2>5. u.crushed # {} => s.active \in Live(s)
      BY <2>1, <2>2 DEF Calm, Live, State, Victims
    <2> QED  BY <2>2, <2>3, <2>4, <2>5 DEF Pending, Unsettled, Live
  <1> QED  BY <1>1, <1>2 DEF DealDamage

\* A combat damage step that begins gives priority to the active player.
LEMMA BeginDamageStepCalm ==
    ASSUME NEW s, Calm(s), NEW t \in {"FirstStrikeDamage", "CombatDamage"}
    PROVE  /\ Calm(BeginDamageStep(s, t))
           /\ BeginDamageStep(s, t).damagePending = TRUE
           /\ BeginDamageStep(s, t).priority = s.active
           /\ BeginDamageStep(s, t).active = s.active
           /\ BeginDamageStep(s, t).lost = s.lost
  <1> DEFINE e == EnterFresh(s, t)
             c == MarkDamage(e.combat, t)
             b == BeginDamageStep(s, t)
  <1>2. s \in State /\ t \in Steps
    BY CalmLive DEF Steps
  <1>3. SameCore(s, e) /\ e.priority = s.active
    BY <1>2, EnterCore DEF EnterFresh, Enter, ResetPasses, State
  <1> HIDE DEF e
  <1>4. e.combat \in Combat
    BY <1>3 DEF SameCore, State
  <1>5. c \in Combat /\ c.attacked = e.combat.attacked
    BY <1>4 DEF Combat, MarkDamage
  <1>6. b = [e EXCEPT !.combat = c, !.damagePending = TRUE]
    BY DEF BeginDamageStep, e
  <1> HIDE DEF c
  <1>7. /\ b \in State /\ b.lost = s.lost /\ b.outcome = s.outcome /\ b.active = s.active
        /\ b.choice = s.choice /\ b.plays = s.plays /\ b.damagePending = TRUE
        /\ b.combat.attacked \subseteq s.combat.attacked /\ b.crushed = s.crushed
        /\ b.priority = s.active
    BY ZenonT(60), <1>3, <1>5, <1>6 DEF SameCore, State
  <1> HIDE DEF b
  <1>8. Calm(b)
    BY <1>7 DEF Calm, Sound, Terminal, Live
  <1> QED  BY <1>7, <1>8 DEF b


\* Either combat damage step leaves a state for settlement.
LEMMA ResolveCombatDamageStepPending ==
    ASSUME NEW s, Calm(s), NEW u \in ResolveCombatDamageStep(s) PROVE Pending(u)
  <1>1. PICK t \in DamageSteps(s) : u \in DealDamage(BeginDamageStep(s, t))
    BY DEF ResolveCombatDamageStep
  <1>2. t \in {"FirstStrikeDamage", "CombatDamage"}
    BY DEF DamageSteps
  <1> QED  BY <1>1, <1>2, BeginDamageStepCalm, DealDamagePending

\* The entries of the queue before the first one of a player in the game belong
\* to players who left.
LEMMA FirstExtraIsFirst ==
    ASSUME NEW s \in State
    PROVE  /\ FirstExtra(s) \in 1 .. (Len(s.queue) + 1)
           /\ FirstExtra(s) <= Len(s.queue) => s.queue[FirstExtra(s)] \notin s.lost
           /\ \A j \in 1 .. Len(s.queue) : s.queue[j] \notin s.lost => FirstExtra(s) <= j
  <1> DEFINE L == Len(s.queue)
             K == {i \in 1 .. L : s.queue[i] \notin s.lost} \cup {L + 1}
  <1>1. s.queue \in Seq(Seat) /\ L \in Nat
    BY DEF State
  <1>2. K \subseteq Nat /\ K # {}
    BY <1>1
  <1>3. PICK i \in K : \A j \in K : i <= j
    BY <1>2, SmallestMember
  <1>4. /\ i \in 1 .. (L + 1)
        /\ i <= L => s.queue[i] \notin s.lost
        /\ \A j \in 1 .. L : s.queue[j] \notin s.lost => i <= j
    BY <1>1, <1>3
  <1> QED  BY <1>4 DEF FirstExtra

\* The queue of extra turns has a first entry of a player in the game, or none.
LEMMA FirstExtraInRange ==
    ASSUME NEW s \in State
    PROVE  /\ FirstExtra(s) \in 1 .. (Len(s.queue) + 1)
           /\ FirstExtra(s) <= Len(s.queue) => s.queue[FirstExtra(s)] \in Live(s)
  <1>1. s.queue \in Seq(Seat) /\ Len(s.queue) \in Nat
    BY DEF State
  <1>2. /\ FirstExtra(s) \in 1 .. (Len(s.queue) + 1)
        /\ FirstExtra(s) <= Len(s.queue) => s.queue[FirstExtra(s)] \notin s.lost
    BY FirstExtraIsFirst
  <1>3. \A j \in 1 .. Len(s.queue) : s.queue[j] \in Seat
    BY <1>1
  <1> QED  BY <1>1, <1>2, <1>3 DEF Live

\* The next turn is taken by a player in the game.
LEMMA SelectNextTurnSound ==
    ASSUME NEW s \in State, Live(s) # {}
    PROVE  /\ SelectNextTurn(s) \in State
           /\ SelectNextTurn(s).active \in Live(s)
           /\ SelectNextTurn(s).lost = s.lost /\ SelectNextTurn(s).outcome = s.outcome
           /\ SelectNextTurn(s).choice = s.choice /\ SelectNextTurn(s).plays = s.plays
           /\ SelectNextTurn(s).combat = s.combat /\ SelectNextTurn(s).crushed = s.crushed
  <1> DEFINE resume == IF s.resume = NoSeat /\ s.queue # <<>> THEN (s.active + 1) % N ELSE s.resume
             i == FirstExtra(s)
             n == IF resume = NoSeat THEN NextInGame(s, s.active)
                  ELSE IF resume \notin s.lost THEN resume ELSE NextInGame(s, resume)
  <1>1. resume \in 0 .. N
    BY SMTT(30), SeatsAssumption DEF State, Seat
  <1>2. CASE i <= Len(s.queue)
    <2> DEFINE q == SubSeq(s.queue, i + 1, Len(s.queue))
    <2>1. s.queue[i] \in Live(s) /\ s.queue[i] \in Seat
      BY <1>2, FirstExtraInRange DEF Live
    <2>2. q \in Seq(Seat)
      <3>1. s.queue \in Seq(Seat) /\ i \in 1 .. (Len(s.queue) + 1)
        BY FirstExtraInRange DEF State
      <3> QED  BY <3>1, <1>2, SubSeqProperties
    <2>3. SelectNextTurn(s) = [s EXCEPT !.active = s.queue[i], !.queue = q, !.resume = resume]
      BY <1>2 DEF SelectNextTurn
    <2> HIDE DEF resume, i, q
    <2> QED  BY ZenonT(60), <1>1, <2>1, <2>2, <2>3 DEF State
  <1>3. CASE ~(i <= Len(s.queue))
    <2>1. s.active \in Seat /\ (resume # NoSeat => resume \in Seat)
      BY SMTT(30), <1>1, SeatsAssumption DEF State, NoSeat, Seat
    <2>2. n \in Live(s) /\ n \in Seat
      BY <2>1, NextInGameIsLive DEF Live
    <2>3. SelectNextTurn(s) = [s EXCEPT !.active = n, !.queue = <<>>, !.resume = NoSeat]
      BY <1>3 DEF SelectNextTurn
    <2>4. NoSeat \in 0 .. N /\ <<>> \in Seq(Seat)
      BY SeatsAssumption DEF NoSeat
    <2> HIDE DEF n
    <2> QED  BY ZenonT(60), <2>2, <2>3, <2>4 DEF State
  <1> QED  BY <1>2, <1>3

\* A change outside the core keeps a state ready for settlement.
LEMMA PendingFrame ==
    ASSUME NEW s, Pending(s), NEW t, SameCore(s, t) PROVE Pending(t)
  <1>1. Sound(t)
    BY SoundFrame DEF Pending
  <1> QED  BY <1>1 DEF Pending, SameCore, Terminal, Unsettled, Live

\* The absent and the new combat are combats that attack nobody.
LEMMA NoCombatType ==
    /\ NoCombat \in Combat /\ NoCombat.attacked = {}
    /\ NewCombat \in Combat /\ NewCombat.attacked = {}
  BY DEF NoCombat, NewCombat, Combat

\* State-based actions counted in cleanup keep a state calm.
LEMMA CleanupSbasCalm ==
    ASSUME NEW s, Calm(s), NEW g \in CleanupSbas(s)
    PROVE  Calm(g) /\ g.active = s.active /\ g.lost = s.lost
  <1>1. CASE g = s
    BY <1>1
  <1>2. CASE s.plays # MaxPlays /\ g = [s EXCEPT !.cleanupSba = TRUE, !.plays = s.plays + 1]
    <2>1. s \in State /\ s.plays + 1 \in 0 .. MaxPlays
      BY <1>2, CalmLive, BoundsAssumption DEF State
    <2>2. /\ g \in State /\ g.lost = s.lost /\ g.outcome = s.outcome /\ g.active = s.active
          /\ g.choice = s.choice /\ g.combat = s.combat /\ g.crushed = s.crushed
      BY <1>2, <2>1 DEF State
    <2> QED  BY <2>2 DEF Calm, Sound, Terminal, Live
  <1> QED  BY <1>1, <1>2 DEF CleanupSbas

\* Rolling the turn gives the new active player a calm upkeep.
LEMMA RollTurnCalm ==
    ASSUME NEW s, Calm(s) PROVE Calm(RollTurn(s))
  <1> DEFINE r == [s EXCEPT !.cleanupPriority = FALSE, !.cleanupSba = FALSE,
                            !.plays = 0, !.combat = NoCombat]
             t == SelectNextTurn(r)
  <1>1. s \in State /\ 0 \in 0 .. MaxPlays
    BY CalmLive, BoundsAssumption
  <1>2. /\ r \in State /\ r.lost = s.lost /\ r.outcome = s.outcome
        /\ r.choice = s.choice /\ r.combat = NoCombat /\ r.crushed = s.crushed
    BY <1>1, NoCombatType DEF State
  <1>3. RollTurn(s) = EnterFresh(t, "Upkeep")
    BY DEF RollTurn
  <1> HIDE DEF r
  <1>4. Live(r) # {}
    BY <1>2, CalmLive DEF Live
  <1>5. /\ t \in State /\ t.active \in Live(r) /\ t.lost = r.lost /\ t.outcome = r.outcome
        /\ t.choice = r.choice /\ t.combat = r.combat /\ t.crushed = r.crushed
    BY <1>2, <1>4, SelectNextTurnSound
  <1> HIDE DEF t
  <1>6. Calm(t)
    BY <1>2, <1>5, NoCombatType DEF Calm, Sound, Terminal, Live
  <1> QED  BY <1>3, <1>5, <1>6, EnterCore, CalmFrame DEF Steps

\* The end of cleanup: a priority round, a question or the next turn.
LEMMA FinishCleanupPending ==
    ASSUME NEW s, Calm(s), NEW u \in FinishCleanup(s) PROVE Pending(u)
  <1> DEFINE d == [s EXCEPT !.discard = NoSeat]
  <1>1. SameCore(s, d)
    BY SMTT(30), CalmLive, SeatsAssumption DEF SameCore, State, NoSeat
  <1>2. Calm(d)
    BY <1>1, CalmFrame
  <1>3. PICK g \in CleanupSbas(d) : \E x \in FlushTriggers(g) :
            u = IF x.cleanupSba \/ x.stack # {} \/ Parking(x)
                THEN ResetPasses([x EXCEPT !.cleanupPriority = TRUE, !.priority = x.active])
                ELSE RollTurn(x)
    BY DEF FinishCleanup
  <1>4. PICK f \in FlushTriggers(g) :
            u = IF f.cleanupSba \/ f.stack # {} \/ Parking(f)
                THEN ResetPasses([f EXCEPT !.cleanupPriority = TRUE, !.priority = f.active])
                ELSE RollTurn(f)
    BY <1>3
  <1> HIDE DEF d
  <1>5. Calm(g)
    BY <1>2, CleanupSbasCalm
  <1>6. /\ Sound(f) /\ f.lost = g.lost /\ f.outcome = g.outcome /\ f.active = g.active
        /\ f.combat = g.combat /\ f.crushed = g.crushed
        /\ f.choice = g.choice \/ f.choice.kind = "Trigger"
    BY <1>5, FlushTriggersSound DEF Calm
  <1>7. Pending(f)
    BY <1>5, <1>6 DEF Calm, Pending, Unsettled
  <1>8. CASE u = ResetPasses([f EXCEPT !.cleanupPriority = TRUE, !.priority = f.active])
    <2>1. SameCore(f, u)
      BY <1>6, <1>8 DEF ResetPasses, SameCore, Sound, State
    <2> QED  BY <1>7, <2>1, PendingFrame
  <1>9. CASE ~Parking(f) /\ u = RollTurn(f)
    <2>1. f.choice.kind = "None"
      BY <1>5, <1>6, <1>9 DEF Parking, Calm
    <2>2. Calm(f)
      BY <1>5, <1>6, <2>1 DEF Calm, Terminal
    <2> QED  BY <1>9, <2>2, RollTurnCalm, CalmPending
  <1> QED  BY <1>4, <1>8, <1>9

\* start_cleanup_or_roll_turn leaves a state for settlement.
LEMMA StartCleanupPending ==
    ASSUME NEW s, Calm(s), NEW u \in StartCleanup(s) PROVE Pending(u)
  <1>1. CASE u \in FinishCleanup(s)
    BY <1>1, FinishCleanupPending
  <1>2. ASSUME NEW g \in CleanupSbas(s),
               u = ResetPasses([g EXCEPT !.discard = g.active, !.priority = g.active])
        PROVE  Pending(u)
    <2>1. Calm(g) /\ g \in State
      BY CleanupSbasCalm, CalmLive
    <2>2. g.active \in Seat /\ g.active \in 0 .. N
      BY <2>1, SeatsAssumption DEF State, Seat
    <2>3. SameCore(g, u)
      BY <1>2, <2>1, <2>2 DEF ResetPasses, SameCore, State
    <2> QED  BY <2>1, <2>3, CalmFrame, CalmPending
  <1> QED  BY <1>1, <1>2 DEF StartCleanup

\* finish_draw_step_action settles the losses of the draw.
LEMMA FinishDrawPending ==
    ASSUME NEW s, Calm(s), NEW u \in FinishDraw(s) PROVE Pending(u)
  <1> DEFINE w == SweepLife(s)
  <1>1. PICK r \in ReconcileDeparted(w) : u = IF r.active \in r.lost THEN r ELSE ResetPasses(r)
    BY DEF FinishDraw
  <1>2. Sound(w) /\ w.choice = s.choice /\ w.crushed = s.crushed
    BY SweepLifeSound DEF Calm
  <1> HIDE DEF w
  <1>3. Pending(r) /\ r \in State
    <2>1. CASE Terminal(w)
      <3>1. r = w
        BY <2>1 DEF ReconcileDeparted
      <3> QED  BY <1>2, <2>1, <3>1 DEF Pending, Sound
    <2>2. CASE ~Terminal(w)
      <3>1. /\ Sound(r) /\ r.crushed = w.crushed /\ r.choice.kind \in {"None", w.choice.kind}
        BY <1>2, <2>2, ReconcileDepartedSound
      <3>2. r.crushed = {} /\ r.choice.kind = "None"
        BY <1>2, <3>1 DEF Calm
      <3> QED  BY <3>1, <3>2 DEF Pending, Unsettled, Sound
    <2> QED  BY <2>1, <2>2
  <1> QED  BY <1>1, <1>3, ResetPassesCore, PendingFrame

\* The draw step, drawn, asked about or decked, leaves a state for settlement.
LEMMA DrawStepPending ==
    ASSUME NEW s, Calm(s), NEW u \in DrawStep(s) PROVE Pending(u)
  <1> DEFINE d == Enter(s, "Draw")
             e == [d EXCEPT !.doomed = {s.active}]
  <1>1. s \in State /\ s.active \in Seat
    BY CalmLive DEF State
  <1>2. SameCore(s, d)
    BY <1>1, EnterCore DEF Steps
  <1>3. Calm(d)
    BY <1>2, CalmFrame
  <1>4. u \in FinishDraw(d) \/ u \in Parked(d) \/ u \in FinishDraw(e)
    BY DEF DrawStep
  <1> HIDE DEF d
  <1>5. /\ e \in State /\ e.lost = d.lost /\ e.outcome = d.outcome /\ e.active = d.active
        /\ e.choice = d.choice /\ e.plays = d.plays /\ e.combat = d.combat /\ e.crushed = d.crushed
    BY <1>1, <1>2 DEF SameCore, State
  <1> HIDE DEF e
  <1>6. Calm(e)
    BY <1>3, <1>5 DEF Calm, Sound, Terminal, Live
  <1> QED  BY <1>3, <1>4, <1>6, FinishDrawPending, ParkedPending

\* Entering a step with a changed combat.
LEMMA EnterWithCombat ==
    ASSUME NEW s, Calm(s), NEW t \in Steps, NEW c \in Combat,
           c.attacked \subseteq s.combat.attacked
    PROVE  /\ Calm(Enter([s EXCEPT !.combat = c], t))
           /\ Calm(EnterFresh([s EXCEPT !.combat = c], t))
  <1> DEFINE r == [s EXCEPT !.combat = c]
  <1>1. Calm(r) /\ r \in State
    BY CalmCombat DEF SameCore
  <1> HIDE DEF r
  <1>2. SameCore(r, Enter(r, t)) /\ SameCore(r, EnterFresh(r, t))
    BY <1>1, EnterCore
  <1>3. Calm(Enter(r, t)) /\ Calm(EnterFresh(r, t))
    BY <1>1, <1>2, CalmFrame
  <1> QED  BY <1>3 DEF r

\* Entering a step with combat untouched keeps a state calm.
LEMMA EnterCalm ==
    ASSUME NEW s, Calm(s), NEW t \in Steps
    PROVE  Calm(Enter(s, t)) /\ Calm(EnterFresh(s, t))
  BY CalmLive, EnterCore, CalmFrame

\* The declare blockers step begins in a calm state.
LEMMA BeginBlocksCalm ==
    ASSUME NEW s, Calm(s), NEW u \in BeginBlocks(s) PROVE Calm(u)
  <1>1. PICK W \in SUBSET (s.combat.attacked \cap Defending(s)) :
            u = IF W = {} THEN EnterFresh([s EXCEPT !.combat = NoBlocks(s.combat)], "DeclareBlockers")
                ELSE ResetPasses([s EXCEPT !.step = "DeclareBlockers",
                                           !.combat = [s.combat EXCEPT !.waiting = W],
                                           !.priority = FirstAfter(s.active, W)])
    BY DEF BeginBlocks
  <1>2. s \in State /\ s.combat \in Combat /\ s.active \in Seat
    BY CalmLive DEF State
  <1>3. CASE W = {}
    <2>1. NoBlocks(s.combat) \in Combat /\ NoBlocks(s.combat).attacked = s.combat.attacked
      BY <1>2 DEF NoBlocks, Combat
    <2> QED  BY <1>1, <1>3, <2>1, EnterWithCombat DEF Steps
  <1>4. CASE W # {}
    <2> DEFINE c == [s.combat EXCEPT !.waiting = W]
               n == FirstAfter(s.active, W)
    <2>1. W \in SUBSET Seat
      BY <1>2 DEF Combat
    <2>2. c \in Combat /\ c.attacked = s.combat.attacked
      BY <1>2, <2>1 DEF Combat
    <2>3. n \in Seat
      BY <1>2, <1>4, <2>1, FirstAfterInSet
    <2>4. u = ResetPasses([s EXCEPT !.step = "DeclareBlockers", !.combat = c, !.priority = n])
      BY <1>1, <1>4
    <2>5. "DeclareBlockers" \in Steps
      BY DEF Steps
    <2> HIDE DEF c, n
    <2>6. SameCore(s, u)
      BY <1>2, <2>2, <2>3, <2>4, <2>5 DEF ResetPasses, SameCore, State
    <2> QED  BY <2>6, CalmFrame
  <1> QED  BY <1>3, <1>4

\* adv_on_empty_stack: one case per step of the turn.
LEMMA AdvOnEmptyStackPending ==
    ASSUME NEW s, Calm(s), NEW u \in AdvOnEmptyStack(s) PROVE Pending(u)
  <1>0. s \in State /\ s.step \in Steps /\ s.combat \in Combat
    BY CalmLive DEF State
  <1>1. CASE s.step = "Upkeep"
    <2>1. u \in DrawStep(s)
      BY <1>1 DEF AdvOnEmptyStack
    <2> QED  BY <2>1, DrawStepPending
  <1>2. CASE s.step = "Draw"
    <2>1. u = EnterFresh([s EXCEPT !.combat = NoCombat], "Main1")
      BY <1>2 DEF AdvOnEmptyStack
    <2> QED  BY <2>1, NoCombatType, EnterWithCombat, CalmPending DEF Steps
  <1>3. CASE s.step = "Main1"
    <2>1. u = Enter(s, "BeginCombat")
      BY <1>3 DEF AdvOnEmptyStack
    <2> QED  BY <2>1, EnterCalm, CalmPending DEF Steps
  <1>4. CASE s.step = "BeginCombat"
    <2>1. \/ u = EnterFresh([s EXCEPT !.combat = NoCombat], "EndCombat")
          \/ u = Enter([s EXCEPT !.combat = NewCombat], "DeclareAttackers")
      BY <1>4 DEF AdvOnEmptyStack
    <2> QED  BY <2>1, NoCombatType, EnterWithCombat, CalmPending DEF Steps
  <1>5. CASE s.step = "DeclareAttackers"
    <2>1. u \in BeginBlocks(s)
      BY <1>5 DEF AdvOnEmptyStack
    <2> QED  BY <2>1, BeginBlocksCalm, CalmPending
  <1>6. CASE s.step = "DeclareBlockers"
    <2>1. \/ u = EnterFresh([s EXCEPT !.combat = [s.combat EXCEPT !.assign = TRUE]], "DeclareBlockers")
          \/ u \in ResolveCombatDamageStep(s)
      BY <1>6 DEF AdvOnEmptyStack
    <2>2. /\ [s.combat EXCEPT !.assign = TRUE] \in Combat
          /\ [s.combat EXCEPT !.assign = TRUE].attacked = s.combat.attacked
      BY <1>0 DEF Combat
    <2> QED  BY <2>1, <2>2, EnterWithCombat, CalmPending, ResolveCombatDamageStepPending DEF Steps
  <1>7. CASE s.step = "FirstStrikeDamage"
    <2>1. u \in ResolveCombatDamageStep(s)
      BY <1>7 DEF AdvOnEmptyStack
    <2> QED  BY <2>1, ResolveCombatDamageStepPending
  <1>8. CASE s.step = "CombatDamage"
    <2>1. u = EnterFresh(s, "EndCombat")
      BY <1>8 DEF AdvOnEmptyStack
    <2> QED  BY <2>1, EnterCalm, CalmPending DEF Steps
  <1>9. CASE s.step = "EndCombat"
    <2>1. u = Enter([s EXCEPT !.combat = NoCombat], "Main2")
      BY <1>9 DEF AdvOnEmptyStack
    <2> QED  BY <2>1, NoCombatType, EnterWithCombat, CalmPending DEF Steps
  <1>10. CASE s.step = "Main2"
    <2>1. u = EnterFresh(s, "EndStep")
      BY <1>10 DEF AdvOnEmptyStack
    <2> QED  BY <2>1, EnterCalm, CalmPending DEF Steps
  <1>11. CASE s.step = "EndStep"
    <2> DEFINE r == ResetPasses([s EXCEPT !.step = "Cleanup", !.cleanupSba = FALSE])
    <2>1. PICK g \in CleanupSbas(r) : u \in StartCleanup(g)
      BY <1>11 DEF AdvOnEmptyStack
    <2>2. SameCore(s, r)
      BY <1>0 DEF ResetPasses, SameCore, State, Steps
    <2> HIDE DEF r
    <2> QED  BY <2>1, <2>2, CalmFrame, CleanupSbasCalm, StartCleanupPending
  <1>12. CASE s.step = "Cleanup"
    <2> DEFINE r == [s EXCEPT !.cleanupPriority = FALSE, !.cleanupSba = FALSE]
    <2>1. u \in StartCleanup(r) \/ u = EnterFresh(s, "Cleanup")
      BY <1>12 DEF AdvOnEmptyStack
    <2>2. SameCore(s, r)
      BY <1>0 DEF SameCore, State
    <2> HIDE DEF r
    <2> QED  BY <2>1, <2>2, CalmFrame, StartCleanupPending, EnterCalm, CalmPending DEF Steps
  <1> QED  BY <1>0, <1>1, <1>2, <1>3, <1>4, <1>5, <1>6, <1>7, <1>8, <1>9, <1>10, <1>11, <1>12 DEF Steps

\* An empty attack leaves a calm state.
LEMMA DeclineAttackCalm ==
    ASSUME NEW s, Calm(s) PROVE Calm(DeclineAttack(s))
  BY NoCombatType, EnterWithCombat DEF DeclineAttack, Steps

\* Attackers are aimed at opponents of a player who is in the game.
LEMMA FinalizeAttackCalm ==
    ASSUME NEW s, Sound(s), ~Terminal(s), s.crushed = {}, s.active \in Live(s),
           NEW A \in SUBSET (Seat \ {s.active})
    PROVE  Calm(FinalizeAttack(s, A))
  <1> DEFINE c == [NewCombat EXCEPT !.declared = TRUE, !.attacked = A]
             r == [s EXCEPT !.combat = c, !.choice = NoChoice]
  <1>1. c \in Combat /\ c.attacked = A
    BY DEF NewCombat, NoCombat, Combat
  <1>2. s \in State /\ NoChoice \in Choice /\ NoChoice.kind = "None"
    BY SeatsAssumption DEF Sound, NoChoice, Choice, NoSeat
  <1>3. FinalizeAttack(s, A) = EnterFresh(r, "DeclareAttackers")
    BY DEF FinalizeAttack
  <1> HIDE DEF c
  <1>4. /\ r \in State /\ r.lost = s.lost /\ r.outcome = s.outcome /\ r.active = s.active
        /\ r.choice = NoChoice /\ r.combat = c /\ r.crushed = s.crushed
    BY <1>1, <1>2 DEF State
  <1> HIDE DEF r
  <1>5. Calm(r)
    BY <1>1, <1>2, <1>4 DEF Calm, Sound, Terminal, Live
  <1> QED  BY <1>3, <1>5, EnterCalm DEF Steps

\* A block declaration leaves a calm state.
LEMMA SetBlockersCalm ==
    ASSUME NEW s, Calm(s), NEW d \in Seat, NEW B \in SUBSET Seat, NEW M \in SUBSET Seat,
           NEW T \in SUBSET Seat
    PROVE  Calm(SetBlockers(s, d, B, M, T))
  <1> DEFINE c == [s.combat EXCEPT !.blocks = @ \cup B, !.needs = @ \cup M,
                                   !.short = @ \cup T, !.assigned = {},
                                   !.needed = @ \/ M # {}, !.assign = FALSE,
                                   !.waiting = @ \ {d}]
             done == c.waiting = {}
             e == [c EXCEPT !.blocked = done]
             n == IF done THEN s.active ELSE FirstAfter(s.active, c.waiting)
  <1>1. s \in State /\ s.combat \in Combat /\ s.active \in Seat
    BY CalmLive DEF State
  <1>2. c \in Combat /\ c.attacked = s.combat.attacked
    BY <1>1 DEF Combat
  <1>3. SetBlockers(s, d, B, M, T) = ResetPasses([s EXCEPT !.combat = e, !.priority = n])
    BY DEF SetBlockers
  <1> HIDE DEF c
  <1>4. e \in Combat /\ e.attacked = s.combat.attacked
    BY <1>2 DEF Combat
  <1>5. n \in Seat
    BY <1>1, <1>2, FirstAfterInSet DEF Combat
  <1> HIDE DEF e, n
  <1>6. SameCore(s, ResetPasses([s EXCEPT !.combat = e, !.priority = n]))
    BY <1>1, <1>4, <1>5 DEF ResetPasses, SameCore, State
  <1> QED  BY <1>3, <1>6, CalmFrame

-----------------------------------------------------------------------------
(***************************************************************************)
(* The inductive invariant, command by command.                            *)
(***************************************************************************)
Inv == Settled(st) /\ reply \in {"ok", "closed", "rejected"}

\* The first upkeep satisfies the invariant.
LEMMA InitInv == Init => Inv
  <1> SUFFICES ASSUME Init PROVE Inv
    OBVIOUS
  <1>1. PICK first \in Seat :
            st = [lost |-> {}, outcome |-> NoOutcome, active |-> first, priority |-> first,
                  passes |-> 0, passed |-> {}, step |-> "Upkeep", stack |-> {}, plays |-> 0,
                  choice |-> NoChoice, combat |-> NoCombat, damagePending |-> FALSE,
                  discard |-> NoSeat, cleanupPriority |-> FALSE, cleanupSba |-> FALSE,
                  queue |-> <<>>, resume |-> NoSeat, doomed |-> {}, crushed |-> {}]
    BY DEF Init
  <1>2. /\ NoOutcome \in 0 .. (N + 1) /\ NoSeat \in 0 .. N /\ "Upkeep" \in Steps
        /\ 0 \in 0 .. MaxPlays /\ <<>> \in Seq(Seat) /\ NoOutcome \notin Seat /\ NoOutcome # Draw
    BY SeatsAssumption, BoundsAssumption DEF NoOutcome, NoSeat, Steps, Seat, Draw
  <1>3. NoChoice \in Choice /\ NoChoice.kind = "None"
    BY SeatsAssumption DEF NoChoice, Choice, NoSeat
  <1>4. st \in State
    BY <1>1, <1>2, <1>3, NoCombatType DEF State
  <1>5. /\ st.lost = {} /\ st.outcome = NoOutcome /\ st.active = first /\ st.priority = first
        /\ st.choice = NoChoice /\ st.combat = NoCombat /\ st.crushed = {}
    BY <1>1
  <1>6. Live(st) = Seat /\ Seat # {}
    BY <1>5, SeatsAssumption DEF Live, Seat
  <1>7. Sound(st)
    BY <1>2, <1>3, <1>4, <1>5, <1>6, NoCombatType DEF Sound
  <1> QED  BY <1>3, <1>5, <1>6, <1>7 DEF Inv, Settled, Init

\* A player who may command freely does so in a calm state.
LEMMA FreeCalm ==
    ASSUME Inv, NEW p \in Seat, Free(p) PROVE Calm(st) /\ p \in Live(st) /\ st.priority \in Live(st)
  BY DEF Inv, Settled, Free, MayCommand, Calm

\* A player who answers is in the game, and so is whoever must answer.
LEMMA AnsweringSettled ==
    ASSUME Inv, NEW p \in Seat, NEW kind, kind # "None", Answering(p, kind)
    PROVE  /\ Sound(st) /\ ~Terminal(st) /\ st.crushed = {}
           /\ st.active \in st.lost => st.combat.attacked = {}
           /\ st.choice.kind = kind /\ st.choice.player = p /\ p \in Live(st)
  BY DEF Inv, Settled, Answering, MayCommand

\* Once the transaction is over the state is calm.
LEMMA ClosedCalm ==
    ASSUME Inv, NEW p \in Seat, NEW kind, kind # "None", Answering(p, kind)
    PROVE  /\ Calm([st EXCEPT !.choice = NoChoice])
           /\ [st EXCEPT !.choice = NoChoice].plays = st.plays
  <1> DEFINE r == [st EXCEPT !.choice = NoChoice]
  <1>1. Sound(st) /\ st \in State
    BY AnsweringSettled DEF Sound
  <1>2. NoChoice \in Choice /\ NoChoice.kind = "None"
    BY SeatsAssumption DEF NoChoice, Choice, NoSeat
  <1>3. /\ r \in State /\ r.lost = st.lost /\ r.outcome = st.outcome /\ r.active = st.active
        /\ r.choice = NoChoice /\ r.combat = st.combat /\ r.crushed = st.crushed /\ r.plays = st.plays
    BY <1>1, <1>2 DEF State
  <1> HIDE DEF r
  <1>4. Calm(r)
    BY <1>1, <1>2, <1>3, AnsweringSettled DEF Calm, Sound, Terminal, Live
  <1> QED  BY <1>3, <1>4 DEF r

\* An accepted command re-establishes the invariant by settling.
LEMMA AcceptInv ==
    ASSUME NEW S, \A t \in S : Pending(t), Accept(S) PROVE Inv'
  <1>1. reply' = "ok" /\ \E t \in S : st' \in Settle(t)
    BY DEF Accept
  <1>2. Settled(st')
    BY <1>1, SettleSound
  <1> QED  BY <1>1, <1>2 DEF Inv

\* Counting a pass gives priority to a player in the game.
LEMMA CountPassCalm ==
    ASSUME NEW s, Calm(s) PROVE Calm(CountPass(s)) /\ Calm(ResetPasses(CountPass(s)))
  <1> DEFINE n == NextInGame(s, s.priority)
  <1>1. s \in State /\ n \in Seat /\ s.priority \in Seat
    BY CalmLive, NextInGameIsLive DEF State
  <1>2. CountPass(s) = [s EXCEPT !.passes = s.passes + 1,
                                 !.passed = s.passed \cup {s.priority}, !.priority = n]
    BY DEF CountPass
  <1> DEFINE m == s.passes + 1
             P == s.passed \cup {s.priority}
  <1>a. m \in Nat /\ P \in SUBSET Seat
    BY <1>1 DEF State
  <1> HIDE DEF n, m, P
  <1>b. SameCore(s, [s EXCEPT !.passes = m, !.passed = P, !.priority = n])
    BY <1>1, <1>a DEF SameCore, State
  <1>3. SameCore(s, CountPass(s))
    BY <1>2, <1>b DEF m, P
  <1>4. CountPass(s) \in State
    BY <1>3 DEF SameCore
  <1> QED  BY <1>3, <1>4, CalmFrame, ResetPassesCore

\* pass_priority, in its four outcomes, keeps the invariant.
LEMMA PassInv ==
    ASSUME Inv, NEW p \in Seat
    PROVE  /\ PassOn(p) => Inv'
           /\ PassResolves(p) => Inv'
           /\ PassAdvances(p) => Inv'
           /\ PassRefused(p) => Inv'
  <1>1. ASSUME PassOn(p) PROVE Inv'
    <2>1. Calm(st) /\ Accept({CountPass(st)})
      BY <1>1, FreeCalm DEF PassOn, MayPass
    <2>2. Pending(CountPass(st))
      BY <2>1, CountPassCalm, CalmPending
    <2> QED  BY <2>1, <2>2, AcceptInv
  <1>2. ASSUME PassResolves(p) PROVE Inv'
    <2> DEFINE x == ResetPasses(st)
               r == [x EXCEPT !.priority = st.active]
    <2>1. Calm(st)
      BY <1>2, FreeCalm DEF PassResolves, MayPass
    <2>a. st.active \in Seat /\ SameCore(st, x)
      BY <2>1, CalmLive, ResetPassesCore DEF State
    <2> HIDE DEF x
    <2>2. SameCore(st, r)
      BY <2>a DEF SameCore, State
    <2> USE DEF x
    <2>3. reply' = "closed" /\ \E t \in ResolveTopOfStack(r) : st' \in Settle(t)
      BY <1>2 DEF PassResolves
    <2> HIDE DEF r
    <2>4. Settled(st')
      BY <2>1, <2>2, <2>3, CalmFrame, ResolveTopOfStackPending, SettleSound
    <2> QED  BY <2>3, <2>4 DEF Inv
  <1>3. ASSUME PassAdvances(p) PROVE Inv'
    <2>1. Calm(st)
      BY <1>3, FreeCalm DEF PassAdvances, MayPass
    <2>2. reply' = "closed" /\ \E t \in AdvOnEmptyStack(ResetPasses(CountPass(st))) : st' \in Settle(t)
      BY <1>3 DEF PassAdvances
    <2>3. Settled(st')
      BY <2>1, <2>2, CountPassCalm, AdvOnEmptyStackPending, SettleSound
    <2> QED  BY <2>2, <2>3 DEF Inv
  <1>4. ASSUME PassRefused(p) PROVE Inv'
    <2>1. Calm(st) /\ st.priority \in Live(st)
      BY <1>4, FreeCalm DEF PassRefused, MayPass
    <2> DEFINE n == NextInGame(st, st.priority)
               x == ResetPasses(CountPass(st))
    <2>2. st' \in Refusals(x) /\ reply' = "rejected"
      BY <1>4 DEF PassRefused
    <2>3. st \in State /\ n \in Live(st) /\ n \in Seat
      BY <2>1, CalmLive, NextInGameIsLive DEF State
    <2>4. x.lost = st.lost /\ x.priority = n
      BY <2>3 DEF ResetPasses, CountPass, State
    <2>5. Calm(x)
      BY <2>1, CountPassCalm
    <2> HIDE DEF n, x
    <2>6. ASSUME st' = x PROVE Settled(st')
      BY <2>3, <2>4, <2>5, <2>6 DEF Settled, Calm, Live
    <2>7. ASSUME st' = BeginDamageStep(x, "CombatDamage"), x.combat.attacked # {}
          PROVE  Settled(st')
      <3>1. Calm(st') /\ st'.priority = x.active /\ st'.active = x.active /\ st'.lost = x.lost
        BY <2>5, <2>7, BeginDamageStepCalm
      <3>2. x.active \in Live(x)
        BY <2>5, <2>7 DEF Calm, Sound, Live, State
      <3> QED  BY <3>1, <3>2 DEF Settled, Calm, Live
    <2>8. Settled(st')
      BY <2>2, <2>6, <2>7 DEF Refusals
    <2> QED  BY <2>2, <2>8 DEF Inv
  <1> QED  BY <1>1, <1>2, <1>3, <1>4

\* Attack and block declarations and their payment keep the invariant.
LEMMA DeclarationInv ==
    ASSUME Inv, NEW p \in Seat
    PROVE  /\ PassDeclines(p) => Inv'
           /\ DeclareAttackers(p) => Inv'
           /\ CommitAttack(p) => Inv'
           /\ CancelAttack(p) => Inv'
           /\ DeclareBlockers(p) => Inv'
  <1>1. ASSUME PassDeclines(p) PROVE Inv'
    <2>1. Calm(st)
      BY <1>1, FreeCalm DEF PassDeclines
    <2>2. \/ Accept({DeclineAttack(st)}) \/ Accept({SetBlockers(st, p, {}, {}, {})})
      BY <1>1 DEF PassDeclines
    <2>3. Pending(DeclineAttack(st)) /\ Pending(SetBlockers(st, p, {}, {}, {}))
      BY <2>1, DeclineAttackCalm, SetBlockersCalm, CalmPending
    <2> QED  BY <2>2, <2>3, AcceptInv
  <1>2. ASSUME DeclareAttackers(p) PROVE Inv'
    <2>1. Calm(st) /\ p \in Live(st) /\ p = st.active
      BY <1>2, FreeCalm DEF DeclareAttackers
    <2>2. CASE Accept({DeclineAttack(st)})
      BY <2>1, <2>2, DeclineAttackCalm, CalmPending, AcceptInv
    <2>3. CASE Accept({FinalizeAttack(st, A) : A \in SUBSET Defending(st) \ {{}}})
      <3>1. \A A \in SUBSET Defending(st) : A \in SUBSET (Seat \ {st.active})
        BY DEF Defending, Live
      <3>2. \A A \in SUBSET Defending(st) : Pending(FinalizeAttack(st, A))
        BY <2>1, <3>1, FinalizeAttackCalm, CalmPending DEF Calm
      <3> QED  BY <2>3, <3>2, AcceptInv
    <2>4. CASE Accept({Ask(st, "Attack", p)})
      <3> DEFINE q == [kind |-> "Attack", player |-> p]
                 t == Ask(st, "Attack", p)
      <3>1. /\ Sound(t) /\ t.choice = q /\ t.lost = st.lost /\ t.active = st.active
            /\ t.combat = st.combat /\ t.crushed = st.crushed
        BY <2>1, AskSound DEF Calm
      <3>2. q.player = p
        OBVIOUS
      <3> HIDE DEF q, t
      <3>3. Pending(t)
        BY <2>1, <3>1, <3>2 DEF Pending, Calm, Live
      <3> QED  BY <2>4, <3>3, AcceptInv DEF t
    <2> QED  BY <1>2, <2>2, <2>3, <2>4 DEF DeclareAttackers
  <1>3. ASSUME CommitAttack(p) PROVE Inv'
    <2>1. /\ Sound(st) /\ ~Terminal(st) /\ st.crushed = {} /\ st.choice.kind = "Attack"
          /\ st.choice.player = p /\ p \in Live(st)
      BY <1>3, AnsweringSettled DEF CommitAttack
    <2>2. p = st.active
      BY <2>1 DEF Sound
    <2>3. \A A \in SUBSET (Seat \ {p}) : Pending(FinalizeAttack(st, A))
      BY <2>1, <2>2, FinalizeAttackCalm, CalmPending
    <2>4. Accept({FinalizeAttack(st, A) : A \in SUBSET (Seat \ {p})})
      BY <1>3 DEF CommitAttack
    <2> QED  BY <2>3, <2>4, AcceptInv
  <1>4. ASSUME CancelAttack(p) PROVE Inv'
    <2>1. Answering(p, "Attack") /\ Accept({[st EXCEPT !.choice = NoChoice]})
      BY <1>4 DEF CancelAttack
    <2>2. Pending([st EXCEPT !.choice = NoChoice])
      BY <2>1, ClosedCalm, CalmPending
    <2> QED  BY <2>1, <2>2, AcceptInv
  <1>5. ASSUME DeclareBlockers(p) PROVE Inv'
    <2>1. Calm(st) /\ Accept(UNION {{SetBlockers(st, p, {p}, needs, short) :
                                              short \in SUBSET needs} : needs \in SUBSET {p}})
      BY <1>5, FreeCalm DEF DeclareBlockers
    <2>2. \A needs \in SUBSET {p} : \A short \in SUBSET needs :
             Pending(SetBlockers(st, p, {p}, needs, short))
      BY <2>1, SetBlockersCalm, CalmPending
    <2> QED  BY <2>1, <2>2, AcceptInv
  <1> QED  BY <1>1, <1>2, <1>3, <1>4, <1>5

\* Casting, paying, cancelling and playing a land keep the invariant.
LEMMA CastInv ==
    ASSUME Inv, NEW p \in Seat
    PROVE  /\ BeginCast(p) => Inv'
           /\ PayLife(p) => Inv'
           /\ CommitCast(p) => Inv'
           /\ CancelCast(p) => Inv'
           /\ PlayLand(p) => Inv'
  <1>1. ASSUME BeginCast(p) PROVE Inv'
    <2>1. Calm(st) /\ p \in Live(st) /\ st.plays < MaxPlays /\ Accept({Ask(st, "Cast", p)})
      BY <1>1, FreeCalm DEF BeginCast
    <2> DEFINE q == [kind |-> "Cast", player |-> p]
               t == Ask(st, "Cast", p)
    <2>2. /\ Sound(t) /\ t.choice = q /\ t.lost = st.lost /\ t.active = st.active
          /\ t.combat = st.combat /\ t.crushed = st.crushed
      BY ZenonT(60), <2>1, AskSound DEF Calm
    <2>3. q.player = p
      OBVIOUS
    <2> HIDE DEF q, t
    <2>4. Pending(t)
      BY <2>1, <2>2, <2>3 DEF Pending, Calm, Live
    <2> QED  BY <2>1, <2>4, AcceptInv DEF t
  <1>2. ASSUME PayLife(p) PROVE Inv'
    <2> DEFINE D == st.doomed \cup {p}
               t == [st EXCEPT !.doomed = D]
    <2>1. Accept({t})
      BY <1>2 DEF PayLife
    <2>2. /\ Sound(st) /\ ~Terminal(st) /\ st.crushed = {}
          /\ st.active \in st.lost => st.combat.attacked = {}
          /\ st.choice.kind \in {"Cast", "Attack"} /\ st.choice.player = p /\ p \in Live(st)
      BY <1>2, AnsweringSettled DEF PayLife
    <2>3. st \in State /\ D \in SUBSET Seat
      BY <2>2 DEF Sound, State
    <2> HIDE DEF D
    <2>4. /\ t \in State /\ t.lost = st.lost /\ t.outcome = st.outcome /\ t.active = st.active
          /\ t.choice = st.choice /\ t.plays = st.plays /\ t.combat = st.combat
          /\ t.crushed = st.crushed
      BY <2>3 DEF State
    <2> HIDE DEF t
    <2>5. Pending(t)
      BY <2>2, <2>4 DEF Pending, Sound, Live
    <2> QED  BY <2>1, <2>5, AcceptInv
  <1>3. ASSUME CommitCast(p) PROVE Inv'
    <2> DEFINE c == [st EXCEPT !.choice = NoChoice]
               r == [st EXCEPT !.choice = NoChoice, !.priority = p]
    <2>1. Answering(p, "Cast") /\ Accept({Push(r, p)})
      BY <1>3 DEF CommitCast
    <2>2. st \in State /\ st.plays < MaxPlays
      BY <2>1, AnsweringSettled DEF Sound
    <2>3. Calm(c) /\ c.plays = st.plays
      BY <2>1, ClosedCalm
    <2>4. r = [c EXCEPT !.priority = p]
      BY <2>2 DEF State
    <2> HIDE DEF c, r
    <2>5. SameCore(c, r)
      BY <2>3, <2>4, CalmLive DEF SameCore, State
    <2>6. Calm(r) /\ r.plays < MaxPlays
      BY <2>2, <2>3, <2>5, CalmFrame DEF SameCore
    <2>7. Calm(Push(r, p))
      BY <2>6, PushSound DEF Calm, Terminal
    <2> QED  BY <2>1, <2>7, CalmPending, AcceptInv
  <1>4. ASSUME CancelCast(p) PROVE Inv'
    <2>1. Answering(p, "Cast") /\ Accept({[st EXCEPT !.choice = NoChoice]})
      BY <1>4 DEF CancelCast
    <2>2. Pending([st EXCEPT !.choice = NoChoice])
      BY <2>1, ClosedCalm, CalmPending
    <2> QED  BY <2>1, <2>2, AcceptInv
  <1>5. ASSUME PlayLand(p) PROVE Inv'
    <2> DEFINE m == st.plays + 1
               t == ResetPasses([st EXCEPT !.plays = m])
    <2>1. Calm(st) /\ st.plays < MaxPlays /\ Accept({t})
      BY <1>5, FreeCalm DEF PlayLand
    <2>2. st \in State /\ m \in 0 .. MaxPlays
      BY <2>1, CalmLive, BoundsAssumption DEF State
    <2> HIDE DEF m
    <2>3. /\ t \in State /\ t.lost = st.lost /\ t.outcome = st.outcome /\ t.active = st.active
          /\ t.choice = st.choice /\ t.combat = st.combat /\ t.crushed = st.crushed
      BY <2>2 DEF ResetPasses, State
    <2> HIDE DEF t
    <2>4. Calm(t)
      BY <2>1, <2>3 DEF Calm, Sound, Terminal, Live
    <2> QED  BY <2>1, <2>4, CalmPending, AcceptInv
  <1> QED  BY <1>1, <1>2, <1>3, <1>4, <1>5

\* Answers, damage assignment and the cleanup discard keep the invariant.
LEMMA AnswerInv ==
    ASSUME Inv, NEW p \in Seat
    PROVE  /\ SubmitChoice(p) => Inv'
           /\ PlaceTrigger(p) => Inv'
           /\ AssignCombatDamage(p) => Inv'
           /\ DiscardToHandSize(p) => Inv'
  <1>1. ASSUME SubmitChoice(p) PROVE Inv'
    <2> DEFINE r == [st EXCEPT !.choice = NoChoice]
    <2>1. Answering(p, "Resolution") /\ Accept(Effects(IF st.step = "Draw" THEN ResetPasses(r) ELSE r))
      BY <1>1 DEF SubmitChoice
    <2>2. Calm(r)
      BY <2>1, ClosedCalm
    <2> HIDE DEF r
    <2>3. Calm(ResetPasses(r))
      BY <2>2, CalmLive, ResetPassesCore, CalmFrame
    <2> QED  BY <2>1, <2>2, <2>3, EffectsCalm, CalmPending, AcceptInv
  <1>2. ASSUME PlaceTrigger(p) PROVE Inv'
    <2> DEFINE r == [st EXCEPT !.choice = NoChoice]
    <2>1. Answering(p, "Trigger") /\ Accept({Push(r, p)})
      BY <1>2 DEF PlaceTrigger
    <2>2. Calm(r) /\ r.plays = st.plays
      BY <2>1, ClosedCalm
    <2>3. st.plays < MaxPlays
      BY <2>1, AnsweringSettled DEF Sound
    <2> HIDE DEF r
    <2>4. Calm(Push(r, p))
      BY <2>2, <2>3, PushSound DEF Calm, Terminal
    <2> QED  BY <2>1, <2>4, CalmPending, AcceptInv
  <1>3. ASSUME AssignCombatDamage(p) PROVE Inv'
    <2>1. Calm(st)
      BY <1>3, FreeCalm DEF AssignCombatDamage
    <2>2. PICK d \in st.combat.needs :
              LET c == [st.combat EXCEPT !.assigned = @ \cup {d}]
                  a == [st EXCEPT !.combat = c]
                  b == [st EXCEPT !.combat = [c EXCEPT !.needed = FALSE]]
              IN  Accept(IF Missing(c) THEN {a} ELSE ResolveCombatDamageStep(b))
      BY <1>3 DEF AssignCombatDamage
    <2> DEFINE c == [st.combat EXCEPT !.assigned = @ \cup {d}]
               e == [c EXCEPT !.needed = FALSE]
               a == [st EXCEPT !.combat = c]
               b == [st EXCEPT !.combat = e]
    <2>3. Accept({a}) \/ Accept(ResolveCombatDamageStep(b))
      BY <2>2
    <2>4. st.combat \in Combat
      BY <2>1, CalmLive DEF State
    <2>5. c \in Combat /\ c.attacked = st.combat.attacked
      BY <2>4 DEF Combat
    <2> HIDE DEF c
    <2>6. e \in Combat /\ e.attacked = st.combat.attacked
      BY <2>5 DEF Combat
    <2> HIDE DEF e
    <2>7. Calm(a) /\ Calm(b)
      BY <2>1, <2>5, <2>6, CalmCombat
    <2> QED  BY <2>3, <2>7, CalmPending, ResolveCombatDamageStepPending, AcceptInv
  <1>4. ASSUME DiscardToHandSize(p) PROVE Inv'
    <2>1. Calm(st) /\ Accept(UNION {{g} \cup FinishCleanup(g) : g \in CleanupSbas(st)})
      BY <1>4, FreeCalm DEF DiscardToHandSize
    <2>2. \A g \in CleanupSbas(st) : \A t \in {g} \cup FinishCleanup(g) : Pending(t)
      BY <2>1, CleanupSbasCalm, CalmPending, FinishCleanupPending
    <2> QED  BY <2>1, <2>2, AcceptInv
  <1> QED  BY <1>1, <1>2, <1>3, <1>4

\* The structured yield keeps the invariant.
LEMMA YieldInv ==
    ASSUME Inv, NEW p \in Seat, Yield(p) PROVE Inv'
  <1>1. Calm(st)
    BY FreeCalm DEF Yield
  <1>2. \/ Accept({DeclineAttack(st)})
        \/ Accept({SetBlockers(st, p, {}, {}, {})})
        \/ Accept(AdvOnEmptyStack(st))
    BY DEF Yield
  <1>3. Pending(DeclineAttack(st)) /\ Pending(SetBlockers(st, p, {}, {}, {}))
    BY <1>1, DeclineAttackCalm, SetBlockersCalm, CalmPending
  <1>4. \A t \in AdvOnEmptyStack(st) : Pending(t)
    BY <1>1, AdvOnEmptyStackPending
  <1> QED  BY <1>2, <1>3, <1>4, AcceptInv

\* A concession in the middle of anything leaves nobody waiting for the player.
LEMMA ConcedeInv ==
    ASSUME Inv, NEW p \in Seat, Concede(p) PROVE Inv'
  <1> DEFINE c == IF st.choice = [kind |-> "Attack", player |-> p] THEN NoChoice ELSE st.choice
             o == OutcomeOf(Live(st) \ {p})
             L == st.lost \cup {p}
             l == [st EXCEPT !.choice = c, !.lost = L, !.outcome = o]
  <1>1. /\ Sound(st) /\ st \in State /\ ~Terminal(st) /\ p \in Live(st) /\ st.crushed = {}
    BY DEF Concede, MayCommand, Inv, Settled, Sound
  <1>2. /\ o \in 0 .. (N + 1)
        /\ o \in Seat => o \in Live(st) \ {p}
        /\ o = Draw => Live(st) \ {p} = {}
        /\ o = NoOutcome => Live(st) \ {p} # {}
    <2>1. Live(st) \ {p} \in SUBSET Seat
      BY DEF Live
    <2> QED  BY <2>1, OutcomeOfSurvivors
  <1>3. c \in Choice /\ (c = st.choice \/ c.kind = "None")
    <2>1. st.choice \in Choice /\ NoChoice \in Choice /\ NoChoice.kind = "None"
      BY <1>1, SeatsAssumption DEF NoChoice, Choice, NoSeat, State
    <2> QED  BY <2>1
  <1>4. L \in SUBSET Seat
    BY <1>1 DEF State
  <1>5. /\ reply' = "ok"
        /\ IF Terminal(l) THEN st' = FinishTerminal(l)
           ELSE \E r \in ReconcileDeparted(l) : \E f \in FlushTriggers(r) : st' \in Settle(f)
    <2> DEFINE ab == [st EXCEPT !.choice = c]
               left == [ab EXCEPT !.lost = @ \cup {p}, !.outcome = OutcomeOf(Live(st) \ {p})]
    <2>1. /\ reply' = "ok"
          /\ IF Terminal(left) THEN st' = FinishTerminal(left)
             ELSE \E r \in ReconcileDeparted(left) : \E f \in FlushTriggers(r) : st' \in Settle(f)
      BY DEF Concede
    <2>2. left = l
      BY <1>1 DEF State
    <2> HIDE DEF left, l
    <2> QED  BY <2>1, <2>2
  <1> HIDE DEF c, o, L
  <1>6. /\ l \in State /\ l.choice = c /\ l.lost = L /\ l.outcome = o /\ l.active = st.active
        /\ l.plays = st.plays /\ l.combat = st.combat /\ l.crushed = st.crushed
    BY <1>1, <1>2, <1>3, <1>4 DEF State
  <1> HIDE DEF l
  <1>7. Live(l) = Live(st) \ {p}
    BY <1>6 DEF Live, L
  <1>8. Sound(l)
    BY <1>1, <1>2, <1>3, <1>6, <1>7 DEF Sound
  <1>9. CASE Terminal(l)
    BY <1>5, <1>8, <1>9, FinishTerminalSound DEF Inv
  <1>10. CASE ~Terminal(l)
    <2>1. PICK r \in ReconcileDeparted(l) : \E f \in FlushTriggers(r) : st' \in Settle(f)
      BY <1>5, <1>10
    <2>2. PICK f \in FlushTriggers(r) : st' \in Settle(f)
      BY <2>1
    <2>3. /\ Sound(r) /\ r.lost = l.lost /\ r.crushed = l.crushed
          /\ r.active \in r.lost => r.combat.attacked = {}
          /\ r.choice.kind # "None" => r.choice.player \in Live(r)
      BY <1>8, <1>10, ReconcileDepartedSound
    <2>4. /\ Sound(f) /\ f.lost = r.lost /\ f.active = r.active /\ f.combat = r.combat
          /\ f.crushed = r.crushed
          /\ f.choice = r.choice \/ (f.choice.kind = "Trigger" /\ f.choice.player \in Live(r))
      BY <2>3, FlushTriggersSound
    <2>5. Pending(f)
      BY <1>1, <1>6, <2>3, <2>4 DEF Pending, Unsettled, Live
    <2> QED  BY <1>5, <2>2, <2>5, SettleSound DEF Inv
  <1> QED  BY <1>9, <1>10

\* Every command keeps the invariant: it is inductive.
LEMMA NextInv == Inv /\ [Next]_vars => Inv'
  <1> SUFFICES ASSUME Inv, [Next]_vars PROVE Inv'
    OBVIOUS
  <1>1. CASE UNCHANGED vars
    BY <1>1 DEF vars, Inv
  <1>2. CASE Next
    <2>1. PICK p \in Seat :
            \/ PassOn(p) \/ PassResolves(p) \/ PassAdvances(p) \/ PassRefused(p)
            \/ PassDeclines(p)
            \/ BeginCast(p) \/ PayLife(p) \/ CommitCast(p) \/ CancelCast(p)
            \/ PlayLand(p) \/ SubmitChoice(p) \/ PlaceTrigger(p)
            \/ DeclareAttackers(p) \/ CommitAttack(p) \/ CancelAttack(p)
            \/ DeclareBlockers(p) \/ AssignCombatDamage(p)
            \/ DiscardToHandSize(p) \/ Yield(p) \/ Concede(p)
      BY <1>2 DEF Next
    <2> QED  BY <2>1, PassInv, DeclarationInv, CastInv, AnswerInv, YieldInv, ConcedeInv
  <1> QED  BY <1>1, <1>2

\* The invariant holds in every state between two commands.
LEMMA AlwaysInv == Spec => []Inv
  BY InitInv, NextInv, PTL DEF Spec

-----------------------------------------------------------------------------
(***************************************************************************)
(* The theorems.                                                           *)
(***************************************************************************)

\* Every field of the engine state keeps its type, at every table: in particular
\* each search for the next player in the game succeeds, so priority and the
\* turn always fall on an existing seat.
THEOREM TypeCorrect == Spec => []TypeOK
  <1>1. Inv => TypeOK
    BY DEF Inv, Settled, Sound, TypeOK
  <1> QED  BY <1>1, AlwaysInv, PTL

\* As long as the game goes on, the player it waits for is in it, whatever was
\* under way when others conceded, died or were decked.
THEOREM AwaitedIsPresent == Spec => []AwaitedPlayerIsPresent
  <1>1. Inv => AwaitedPlayerIsPresent
    BY DEF Inv, Settled, AwaitedPlayerIsPresent
  <1> QED  BY <1>1, AlwaysInv, PTL

\* The published outcome agrees with who is left in the game; above all, a game
\* that goes on always has somebody in it, although apply_sbas removes players
\* without looking at the outcome.
THEOREM OutcomeIsRight == Spec => []OutcomeAgreesWithSurvivors
  <1>1. Inv => OutcomeAgreesWithSurvivors
    BY DEF Inv, Settled, Sound, OutcomeAgreesWithSurvivors
  <1> QED  BY <1>1, AlwaysInv, PTL
=============================================================================
