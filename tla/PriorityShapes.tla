--------------------------- MODULE PriorityShapes ---------------------------
(***************************************************************************)
(* Every command keeps the shape of combat, block declarations, cleanup    *)
(* and rounds of passes, and moves the turn only by rolling it.            *)
(***************************************************************************)
EXTENDS PriorityFrames, FiniteSetTheorems

Fresh(s) == s.passes = 0 /\ s.passed = {}

\* The fields that decide whose turn comes next are the same.
SameTurn(s, t) == t.active = s.active /\ t.resume = s.resume /\ t.queue = s.queue

\* An extra turn was granted.
Grants(s, t) ==
    /\ t.active = s.active /\ t.resume = s.resume
    /\ \E p \in Live(s) : t.queue = <<p>> \o s.queue

\* The next turn was chosen by select_next_turn_after_cleanup.
Rolls(s, t) ==
    \E x \in State : /\ SameTurn(s, x) /\ x.lost = s.lost
                     /\ SameTurn(SelectNextTurn(x), t)

Turned(s, t) ==
    /\ s.lost \subseteq t.lost
    /\ SameTurn(s, t) \/ Grants(s, t) \/ Rolls(s, t)

\* What an operation does that may go on to another step or turn.
Onward(s, t) ==
    /\ t \in State
    /\ Shape(t)
    /\ Turned(s, t)
    /\ Fresh(s) => Fresh(t)

-----------------------------------------------------------------------------

\* What stays within a step is a special case.
LEMMA KeepsOnward ==
    ASSUME NEW s \in State, Shape(s), NEW t, Keeps(s, t) PROVE Onward(s, t)
  <1>1. Turned(s, t)
    BY DEF Keeps, Follows, Turned, SameTurn
  <1>2. Fresh(s) => Fresh(t)
    BY DEF Keeps, Follows, SameRound, Fresh
  <1> QED  BY <1>1, <1>2 DEF Keeps, Follows, Onward

\* An operation within the step that was reached.
LEMMA OnwardKeeps ==
    ASSUME NEW s \in State, NEW t, Onward(s, t), NEW u, Keeps(t, u) PROVE Onward(s, u)
  <1>1. s.lost \subseteq u.lost /\ SameTurn(t, u) /\ u \in State /\ Shape(u)
    BY DEF Onward, Turned, Keeps, Follows, SameTurn
  <1>2. Fresh(s) => Fresh(u)
    BY DEF Onward, Keeps, Follows, SameRound, Fresh
  <1>3. SameTurn(s, t) => SameTurn(s, u)
    BY <1>1 DEF SameTurn
  <1>4. Grants(s, t) => Grants(s, u)
    BY <1>1 DEF SameTurn, Grants
  <1>5. Rolls(s, t) => Rolls(s, u)
    BY <1>1 DEF SameTurn, Rolls
  <1> QED  BY <1>1, <1>2, <1>3, <1>4, <1>5 DEF Onward, Turned

\* The same seen from a state with the same turn order and the same players.
LEMMA SameOnward ==
    ASSUME NEW s \in State, NEW t \in State, SameTurn(s, t), t.lost = s.lost,
           Fresh(s) => Fresh(t), NEW u, Onward(t, u)
    PROVE  Onward(s, u)
  <1>1. SameTurn(t, u) => SameTurn(s, u)
    BY DEF SameTurn
  <1>2. Grants(t, u) => Grants(s, u)
    BY DEF SameTurn, Grants, Live
  <1>3. Rolls(t, u) => Rolls(s, u)
    BY DEF SameTurn, Rolls
  <1> QED  BY <1>1, <1>2, <1>3 DEF Onward, Turned

\* A new step outside cleanup: combat is the one the step needs.
LEMMA EnterOnward ==
    ASSUME NEW s \in State, Shape(s), s.choice.kind = "None",
           s.step # "Cleanup", NEW c \in Combat, NEW t \in Steps \ {"Cleanup"},
           s.damagePending => t \in DamageStepsOnly \cup {"EndCombat"},
           c.on \/ c = NoCombat,
           t \in CombatSteps => c.on,
           t \notin CombatSteps \cup {"EndCombat"} => c = NoCombat,
           s.active \notin c.waiting,
           t = "DeclareBlockers" => c.blocked
    PROVE  /\ Onward(s, Enter([s EXCEPT !.combat = c], t))
           /\ Onward(s, EnterFresh([s EXCEPT !.combat = c], t))
  <1> DEFINE r == [s EXCEPT !.combat = c]
             e == Enter(r, t)
             f == EnterFresh(r, t)
  <1>1. /\ r \in State /\ r.combat = c /\ r.active = s.active /\ r.resume = s.resume
        /\ r.queue = s.queue /\ r.lost = s.lost /\ r.outcome = s.outcome /\ r.choice = s.choice
        /\ r.damagePending = s.damagePending /\ r.discard = s.discard
        /\ r.cleanupPriority = s.cleanupPriority
        /\ r.passes = s.passes /\ r.passed = s.passed
    BY DEF State
  <1> HIDE DEF r
  <1>2. /\ e \in State /\ e.step = t /\ e.combat = c /\ e.active = s.active
        /\ e.resume = s.resume /\ e.queue = s.queue /\ e.lost = s.lost
        /\ e.outcome = s.outcome /\ e.choice = s.choice /\ e.damagePending = s.damagePending
        /\ e.discard = s.discard /\ e.cleanupPriority = s.cleanupPriority
        /\ e.passes = s.passes /\ e.passed = s.passed
    BY <1>1 DEF Enter, State
  <1>3. f = ResetPasses(e)
    BY DEF EnterFresh
  <1> HIDE DEF e, f
  <1>4. Scoped(e) /\ DamageDue(e) /\ BlocksDue(e)
    BY <1>2 DEF Scoped, DamageDue, BlocksDue
  <1>5. Accounted(e)
    BY <1>2 DEF Shape, Accounted, Terminal
  <1>6. Onward(s, e)
    BY <1>2, <1>4, <1>5 DEF Onward, Shape, Turned, SameTurn, Fresh
  <1>7. Onward(s, f)
    BY <1>2, <1>3, <1>6, ResetPassesKeeps, OnwardKeeps
  <1> QED  BY <1>6, <1>7 DEF e, f, r

\* The same with combat as it is.
LEMMA EnterSameOnward ==
    ASSUME NEW s \in State, Shape(s), s.choice.kind = "None",
           s.step # "Cleanup", NEW t \in Steps \ {"Cleanup"},
           s.damagePending => t \in DamageStepsOnly \cup {"EndCombat"},
           t \in CombatSteps => s.combat.on,
           t \notin CombatSteps \cup {"EndCombat"} => s.combat = NoCombat,
           t = "DeclareBlockers" => s.combat.blocked
    PROVE  Onward(s, Enter(s, t)) /\ Onward(s, EnterFresh(s, t))
  <1>1. [s EXCEPT !.combat = s.combat] = s
    BY DEF State
  <1>2. s.combat \in Combat /\ (s.combat.on \/ s.combat = NoCombat) /\ s.active \notin s.combat.waiting
    BY DEF State, Shape, Scoped, BlocksDue
  <1> DEFINE c == s.combat
  <1>3. /\ Onward(s, Enter([s EXCEPT !.combat = c], t))
        /\ Onward(s, EnterFresh([s EXCEPT !.combat = c], t))
    <2> HIDE DEF c
    <2> QED  BY <1>2, EnterOnward DEF c
  <1> QED  BY <1>1, <1>3

\* What an empty and a new combat hold.
LEMMA NoCombatFields ==
    /\ NoCombat.waiting = {} /\ ~NoCombat.on /\ ~NoCombat.blocked
    /\ NewCombat.waiting = {} /\ NewCombat.on
  BY DEF NoCombat, NewCombat

\* The draw step, drawn, asked about or decked.
LEMMA DrawStepOnward ==
    ASSUME NEW s, Calm(s), Shape(s), ~s.damagePending, s.step = "Upkeep", NEW u \in DrawStep(s)
    PROVE  Onward(s, u)
  <1> DEFINE d == Enter(s, "Draw")
             e == [d EXCEPT !.doomed = {s.active}]
  <1>1. s \in State /\ s.choice.kind = "None" /\ s.combat = NoCombat
    BY CalmLive DEF Calm, Shape, Scoped, CombatSteps
  <1>2. Onward(s, d)
    <2>1. "Draw" \in Steps \ {"Cleanup"} /\ "Draw" \notin CombatSteps
      BY DEF Steps, CombatSteps
    <2> QED  BY <1>1, <2>1, EnterSameOnward
  <1>3. Calm(d) /\ d \in State
    BY <1>2, EnterCalm DEF Steps, Onward
  <1>4. u \in FinishDraw(d) \/ u \in Parked(d) \/ u \in FinishDraw(e)
    BY DEF DrawStep
  <1> HIDE DEF d
  <1>5. Keeps(d, e) /\ e \in State
    <2> DEFINE D == {s.active}
    <2>1. D \in SUBSET Seat
      BY <1>1 DEF State
    <2> HIDE DEF D
    <2>2. Keeps(d, [d EXCEPT !.doomed = D])
      BY <1>3, <2>1, MarkKeeps
    <2> QED  BY <2>2 DEF Keeps, Follows, D
  <1>6. Sound(e) /\ ~Terminal(e)
    <2>1. /\ e.lost = d.lost /\ e.outcome = d.outcome /\ e.active = d.active
          /\ e.choice = d.choice /\ e.plays = d.plays /\ e.combat = d.combat
      BY <1>3 DEF State
    <2> QED  BY <1>3, <1>5, <2>1 DEF Calm, Sound, Terminal, Live
  <1> HIDE DEF e
  <1>7. ASSUME NEW x, Sound(x), ~Terminal(x), NEW y \in FinishDraw(x) PROVE Keeps(x, y)
    <2>1. PICK r \in ReconcileDeparted(SweepLife(x)) :
              y = IF r.active \in r.lost THEN r ELSE ResetPasses(r)
      BY DEF FinishDraw
    <2> DEFINE w == SweepLife(x)
    <2>2. x \in State /\ Sound(w) /\ Keeps(x, w)
      BY <1>7, SweepLifeKeeps, SweepLifeSound DEF Sound
    <2> HIDE DEF w
    <2>3. w \in State /\ Keeps(w, r)
      BY <2>1, <2>2, ReconcileDepartedKeeps DEF Sound, w
    <2>4. r \in State /\ Keeps(x, r)
      BY <2>2, <2>3, KeepsChain DEF Keeps, Follows
    <2> QED  BY <2>1, <2>2, <2>4, ResetPassesKeeps, KeepsChain
  <1>8. CASE u \in FinishDraw(d)
    BY <1>1, <1>2, <1>3, <1>7, <1>8, OnwardKeeps DEF Calm
  <1>9. CASE u \in Parked(d)
    BY <1>1, <1>2, <1>3, <1>9, ParkedKeeps, OnwardKeeps
  <1>10. CASE u \in FinishDraw(e)
    <2>1. Keeps(e, u)
      BY <1>6, <1>7, <1>10
    <2> QED  BY <1>1, <1>2, <1>3, <1>5, <2>1, KeepsChain, OnwardKeeps
  <1> QED  BY <1>4, <1>8, <1>9, <1>10

\* The declare blockers step: the first defender who can block is asked.
LEMMA BeginBlocksOnward ==
    ASSUME NEW s, Calm(s), Shape(s), ~s.damagePending, s.step = "DeclareAttackers",
           NEW u \in BeginBlocks(s)
    PROVE  Onward(s, u)
  <1>1. PICK W \in SUBSET (s.combat.attacked \cap Defending(s)) :
            u = IF W = {} THEN EnterFresh([s EXCEPT !.combat = NoBlocks(s.combat)], "DeclareBlockers")
                ELSE ResetPasses([s EXCEPT !.step = "DeclareBlockers",
                                           !.combat = [s.combat EXCEPT !.waiting = W],
                                           !.priority = FirstAfter(s.active, W)])
    BY DEF BeginBlocks
  <1>2. /\ s \in State /\ s.combat \in Combat /\ s.active \in Seat /\ s.combat.on
        /\ s.choice.kind = "None"
    BY CalmLive DEF State, Calm, Shape, Scoped, CombatSteps
  <1>3. CASE W = {}
    <2> DEFINE c == NoBlocks(s.combat)
    <2>1. c \in Combat /\ c.on /\ c.waiting = {} /\ c.blocked
      BY <1>2 DEF NoBlocks, Combat
    <2>2. "DeclareBlockers" \in Steps \ {"Cleanup"} /\ "DeclareBlockers" \in CombatSteps
      BY DEF Steps, CombatSteps
    <2>3. u = EnterFresh([s EXCEPT !.combat = c], "DeclareBlockers")
      BY <1>1, <1>3
    <2> HIDE DEF c
    <2> QED  BY <1>2, <2>1, <2>2, <2>3, EnterOnward
  <1>4. CASE W # {}
    <2> DEFINE c == [s.combat EXCEPT !.waiting = W]
               n == FirstAfter(s.active, W)
    <2>1. W \in SUBSET Seat /\ s.active \notin W
      BY <1>2 DEF Combat, Defending
    <2>2. c \in Combat /\ c.on /\ c.waiting = W /\ c.blocked = s.combat.blocked
      BY <1>2, <2>1 DEF Combat
    <2>3. n \in Seat
      BY <1>2, <1>4, <2>1, FirstAfterInSet
    <2>4. u = ResetPasses([s EXCEPT !.step = "DeclareBlockers", !.combat = c, !.priority = n])
      BY <1>1, <1>4
    <2>5. "DeclareBlockers" \in Steps
      BY DEF Steps
    <2> HIDE DEF c
    <2>6. n = FirstAfter(s.active, W)
      OBVIOUS
    <2> HIDE DEF n
    <2>7. /\ u \in State /\ u.step = "DeclareBlockers" /\ u.combat = c /\ u.priority = n
          /\ u.active = s.active /\ u.resume = s.resume /\ u.queue = s.queue /\ u.lost = s.lost
          /\ u.outcome = s.outcome /\ u.choice = s.choice /\ u.damagePending = s.damagePending
          /\ u.discard = s.discard /\ u.cleanupPriority = s.cleanupPriority
          /\ u.passes = 0 /\ u.passed = {}
      BY <1>2, <2>2, <2>3, <2>4, <2>5 DEF ResetPasses, State
    <2>8. Scoped(u) /\ DamageDue(u) /\ BlocksDue(u)
      BY <1>2, <1>4, <2>1, <2>2, <2>6, <2>7 DEF Scoped, DamageDue, BlocksDue, CombatSteps
    <2>9. Accounted(u)
      BY <2>7 DEF Shape, Accounted, Terminal
    <2> QED  BY <2>7, <2>8, <2>9 DEF Onward, Shape, Turned, SameTurn, Fresh
  <1> QED  BY <1>3, <1>4

\* A combat damage step begins.
LEMMA BeginDamageStepOnward ==
    ASSUME NEW s, Calm(s), Shape(s), s.combat.blocked \/ s.step \in CombatSteps,
           s.step # "Cleanup", NEW t \in DamageStepsOnly
    PROVE  LET b == BeginDamageStep(s, t)
           IN  /\ Onward(s, b) /\ Fresh(b) /\ b \in State /\ b.damagePending /\ b.step = t
               /\ b.lost = s.lost /\ b.outcome = s.outcome /\ b.choice = s.choice
               /\ b.active = s.active
  <1>2. /\ s \in State /\ s.choice.kind = "None" /\ s.combat \in Combat
        /\ s.combat.on /\ s.active \notin s.combat.waiting
    BY CalmLive, NoCombatFields DEF Calm, Shape, Scoped, BlocksDue, State
  <1>3. /\ t \in Steps \ {"Cleanup"} /\ t \in CombatSteps /\ t # "DeclareBlockers"
    BY DEF Steps, CombatSteps, DamageStepsOnly
  <1> DEFINE e == EnterFresh(s, t)
             b == BeginDamageStep(s, t)
             c == MarkDamage(e.combat, t)
  <1>4. Onward(s, e)
    BY <1>2, <1>3, EnterSameOnward
  <1>5. /\ e \in State /\ e.combat = s.combat /\ e.step = t /\ e.choice = s.choice
        /\ e.lost = s.lost /\ e.outcome = s.outcome /\ e.active = s.active
        /\ e.passes = 0 /\ e.passed = {}
    BY <1>2, <1>3, <1>4 DEF EnterFresh, Enter, ResetPasses, State, Onward
  <1>6. b = [e EXCEPT !.combat = c, !.damagePending = TRUE]
    BY DEF BeginDamageStep
  <1> HIDE DEF e
  <1>7. c \in Combat /\ c.on /\ c.waiting = s.combat.waiting
    BY <1>2, <1>5 DEF MarkDamage, Combat
  <1> HIDE DEF c, b
  <1>8. /\ b \in State /\ b.combat = c /\ b.damagePending
        /\ b.active = e.active /\ b.resume = e.resume /\ b.queue = e.queue /\ b.lost = e.lost
        /\ b.outcome = e.outcome /\ b.choice = e.choice /\ b.step = e.step
        /\ b.discard = e.discard /\ b.cleanupPriority = e.cleanupPriority
        /\ b.passes = e.passes /\ b.passed = e.passed
    BY ZenonT(60), <1>5, <1>6, <1>7 DEF State
  <1>9. Scoped(b) /\ DamageDue(b)
    BY <1>2, <1>3, <1>5, <1>7, <1>8 DEF Scoped, DamageDue
  <1>10. BlocksDue(b) /\ Accounted(b)
    <2>1. e.active \notin e.combat.waiting
      BY <1>4 DEF Onward, Shape, BlocksDue
    <2> QED  BY <1>3, <1>4, <1>5, <1>7, <1>8, <2>1 DEF Onward, Shape, BlocksDue, Accounted, Terminal
  <1>11. Onward(s, b)
    <2>1. Turned(s, b)
      <3>1. SameTurn(s, e) => SameTurn(s, b)
        BY <1>8 DEF SameTurn
      <3>2. Grants(s, e) => Grants(s, b)
        BY <1>8 DEF Grants
      <3>3. Rolls(s, e) => Rolls(s, b)
        BY <1>8 DEF Rolls, SameTurn
      <3> QED  BY <1>4, <1>8, <3>1, <3>2, <3>3 DEF Onward, Turned
    <2> QED  BY <1>4, <1>8, <1>9, <1>10, <2>1 DEF Onward, Shape, Fresh
  <1> QED  BY <1>5, <1>8, <1>11 DEF b, Fresh

\* Either combat damage step.
LEMMA ResolveCombatDamageStepOnward ==
    ASSUME NEW s, Calm(s), Shape(s), s.combat.blocked \/ s.step \in CombatSteps,
           s.step # "Cleanup", NEW u \in ResolveCombatDamageStep(s)
    PROVE  Onward(s, u) /\ Fresh(u)
  <1>1. PICK t \in DamageSteps(s) : u \in DealDamage(BeginDamageStep(s, t))
    BY DEF ResolveCombatDamageStep
  <1> DEFINE b == BeginDamageStep(s, t)
  <1>2. s \in State /\ t \in DamageStepsOnly
    BY CalmLive DEF DamageSteps, DamageStepsOnly
  <1>3. b \in State /\ Onward(s, b) /\ Fresh(b)
    BY <1>2, BeginDamageStepOnward
  <1> HIDE DEF b
  <1>4. Keeps(b, u)
    <2>1. CASE u \in Parked(b)
      BY <1>3, <2>1, ParkedKeeps
    <2>2. ASSUME NEW D \in SUBSET Victims(b), NEW C \in SUBSET Victims(b), u = StrikeDown(b, D, C)
          PROVE  Keeps(b, u)
      <3>1. D \in SUBSET Seat /\ C \ D \in SUBSET Seat
        BY DEF Victims, Live
      <3> DEFINE E == C \ D
      <3>2. u = [b EXCEPT !.doomed = D, !.crushed = E]
        BY <2>2 DEF StrikeDown
      <3> HIDE DEF E
      <3> QED  BY <1>3, <3>1, <3>2, MarkKeeps DEF E
    <2> QED  BY <1>1, <2>1, <2>2 DEF DealDamage, b
  <1>5. Fresh(u)
    BY <1>3, <1>4 DEF Keeps, Follows, SameRound, Fresh
  <1> QED  BY <1>2, <1>3, <1>4, <1>5, OnwardKeeps

-----------------------------------------------------------------------------
(***************************************************************************)
(* Cleanup.                                                                *)
(***************************************************************************)

\* A state-based action in cleanup leaves the rest alone.
LEMMA CleanupSbasKeeps ==
    ASSUME NEW s \in State, NEW g \in CleanupSbas(s)
    PROVE  Keeps(s, g) /\ g.lost = s.lost /\ g.choice = s.choice /\ g.outcome = s.outcome
  <1>1. CASE g = s
    BY <1>1, KeepsSelf
  <1>2. CASE s.plays # MaxPlays /\ g = [s EXCEPT !.cleanupSba = TRUE, !.plays = s.plays + 1]
    <2> DEFINE m == s.plays + 1
    <2>1. m \in 0 .. MaxPlays
      BY <1>2, BoundsAssumption DEF State
    <2>2. g = [s EXCEPT !.cleanupSba = TRUE, !.plays = m]
      BY <1>2
    <2> HIDE DEF m
    <2>3. Quiet(s, g) /\ g.lost = s.lost /\ g.choice = s.choice /\ g.outcome = s.outcome
      BY <2>1, <2>2 DEF State, Quiet, SameRound, Terminal
    <2> QED  BY <2>3, QuietKeeps
  <1> QED  BY <1>1, <1>2 DEF CleanupSbas

\* A cleanup step that is neither waiting for a discard nor for a priority round.
InCleanup(s) ==
    /\ Calm(s)
    /\ s.step = "Cleanup" /\ s.combat = NoCombat /\ ~s.damagePending

\* What follows within cleanup is in cleanup.
LEMMA InCleanupFollows ==
    ASSUME NEW s, InCleanup(s), NEW t, Calm(t), Follows(s, t) PROVE InCleanup(t)
  BY DEF InCleanup, Follows, CombatShrinks

\* A cleanup step that waits for exactly one thing has the shape.
LEMMA InCleanupShape ==
    ASSUME NEW s \in State, s.step = "Cleanup", s.combat = NoCombat, ~s.damagePending,
           s.choice.kind # "Attack", (s.discard # NoSeat) # s.cleanupPriority
    PROVE  Shape(s)
  BY NoCombatFields DEF Shape, Scoped, CombatSteps, DamageDue, BlocksDue, Accounted

\* Rolling the turn chooses the next one and enters its upkeep.
LEMMA RollTurnOnward ==
    ASSUME NEW s, InCleanup(s), s.discard = NoSeat
    PROVE  Onward(s, RollTurn(s)) /\ Fresh(RollTurn(s))
  <1> DEFINE x == [s EXCEPT !.cleanupPriority = FALSE, !.cleanupSba = FALSE,
                            !.plays = 0, !.combat = NoCombat]
             t == SelectNextTurn(x)
             u == EnterFresh(t, "Upkeep")
  <1>1. /\ s \in State /\ 0 \in 0 .. MaxPlays /\ Live(s) # {} /\ NoCombat \in Combat
        /\ s.choice.kind = "None" /\ ~s.damagePending
    BY CalmLive, BoundsAssumption, NoCombatType DEF InCleanup, Calm
  <1>2. /\ x \in State /\ x.lost = s.lost /\ x.active = s.active /\ x.resume = s.resume
        /\ x.queue = s.queue /\ x.combat = NoCombat /\ x.cleanupPriority = FALSE
        /\ x.discard = s.discard /\ x.damagePending = s.damagePending /\ x.choice = s.choice
    BY <1>1 DEF State
  <1>3. RollTurn(s) = u
    BY DEF RollTurn
  <1> HIDE DEF x
  <1>4. /\ t \in State /\ t.lost = x.lost /\ t.choice = x.choice /\ t.combat = x.combat
    <2>1. Live(x) # {}
      BY <1>1, <1>2 DEF Live
    <2> QED  BY <1>2, <2>1, SelectNextTurnSound
  <1>5. t.cleanupPriority = FALSE /\ t.discard = NoSeat /\ ~t.damagePending
    BY <1>1, <1>2 DEF SelectNextTurn, State
  <1>6. "Upkeep" \in Steps
    BY DEF Steps
  <1>7. SameTurn(t, t)
    BY DEF SameTurn
  <1> HIDE DEF t
  <1>8. /\ u \in State /\ u.step = "Upkeep" /\ u.combat = NoCombat /\ u.lost = s.lost
        /\ u.active = t.active /\ u.resume = t.resume /\ u.queue = t.queue
        /\ u.cleanupPriority = FALSE /\ u.discard = NoSeat /\ ~u.damagePending
        /\ u.choice = s.choice /\ u.passes = 0 /\ u.passed = {}
    BY <1>2, <1>4, <1>5, <1>6 DEF EnterFresh, Enter, ResetPasses, State
  <1>9. Rolls(s, u)
    BY <1>2, <1>8 DEF Rolls, SameTurn, t
  <1>10. Shape(u)
    BY <1>1, <1>8, NoCombatFields
       DEF Shape, Scoped, CombatSteps, DamageDue, BlocksDue, Accounted
  <1> HIDE DEF u
  <1> QED  BY <1>3, <1>8, <1>9, <1>10 DEF Onward, Turned, Fresh

\* Cleanup ends in a priority round or in the next turn.
LEMMA FinishCleanupOnward ==
    ASSUME NEW s, InCleanup(s), NEW u \in FinishCleanup(s) PROVE Onward(s, u) /\ Fresh(u)
  <1> DEFINE d == [s EXCEPT !.discard = NoSeat]
  <1>0. s \in State /\ Calm(s) /\ NoSeat \in 0 .. N
    BY CalmLive, SeatsAssumption DEF InCleanup, NoSeat
  <1>1. /\ SameCore(s, d) /\ d.step = s.step /\ d.combat = s.combat /\ d.discard = NoSeat
        /\ d.resume = s.resume /\ d.queue = s.queue
        /\ d.passes = s.passes /\ d.passed = s.passed
    BY <1>0 DEF SameCore, State
  <1>2. Calm(d) /\ d \in State
    BY <1>0, <1>1, CalmFrame DEF SameCore
  <1>3. InCleanup(d) /\ SameTurn(s, d) /\ d.lost = s.lost /\ (Fresh(s) => Fresh(d))
    BY <1>1, <1>2 DEF InCleanup, SameCore, SameTurn, Fresh
  <1>4. PICK g \in CleanupSbas(d) : \E x \in FlushTriggers(g) :
            u = IF x.cleanupSba \/ x.stack # {} \/ Parking(x)
                THEN ResetPasses([x EXCEPT !.cleanupPriority = TRUE, !.priority = x.active])
                ELSE RollTurn(x)
    BY DEF FinishCleanup
  <1>5. PICK f \in FlushTriggers(g) :
            u = IF f.cleanupSba \/ f.stack # {} \/ Parking(f)
                THEN ResetPasses([f EXCEPT !.cleanupPriority = TRUE, !.priority = f.active])
                ELSE RollTurn(f)
    BY <1>4
  <1> HIDE DEF d
  <1>6. Calm(g) /\ g \in State /\ Keeps(d, g) /\ g.lost = d.lost
    BY <1>2, CleanupSbasCalm, CleanupSbasKeeps, CalmLive
  <1>7. /\ Sound(f) /\ f.lost = g.lost /\ f.outcome = g.outcome /\ f.active = g.active
        /\ f.combat = g.combat /\ f.crushed = g.crushed
        /\ f.choice = g.choice \/ f.choice.kind = "Trigger"
    BY <1>6, FlushTriggersSound DEF Calm
  <1>8. Keeps(g, f) /\ f \in State
    BY <1>6, <1>7, FlushTriggersKeeps DEF Sound
  <1>9. Follows(d, f) /\ f.queue = d.queue /\ ~Terminal(f)
    BY <1>2, <1>6, <1>7, <1>8, FollowsChain DEF Keeps, Calm, Terminal
  <1>10. /\ f.step = "Cleanup" /\ f.combat = NoCombat /\ ~f.damagePending /\ f.discard = NoSeat
         /\ SameTurn(s, f) /\ f.lost = s.lost /\ (Fresh(s) => Fresh(f))
    BY <1>1, <1>3, <1>6, <1>7, <1>9
       DEF Follows, CombatShrinks, InCleanup, SameTurn, SameRound, Fresh
  <1>11. CASE u = ResetPasses([f EXCEPT !.cleanupPriority = TRUE, !.priority = f.active])
    <2>1. /\ u \in State /\ u.step = f.step /\ u.combat = f.combat /\ u.lost = f.lost
          /\ u.active = f.active /\ u.resume = f.resume /\ u.queue = f.queue
          /\ u.cleanupPriority /\ u.discard = f.discard /\ u.damagePending = f.damagePending
          /\ u.choice = f.choice /\ u.passes = 0 /\ u.passed = {}
      BY <1>8, <1>11 DEF ResetPasses, State
    <2>2. u.choice.kind # "Attack"
      BY <1>6, <1>7, <2>1 DEF Calm
    <2>3. Shape(u)
      BY <1>10, <2>1, <2>2, InCleanupShape
    <2> QED  BY <1>10, <2>1, <2>3 DEF Onward, Turned, SameTurn, Fresh
  <1>12. CASE ~Parking(f) /\ u = RollTurn(f)
    <2>1. f.choice.kind = "None"
      BY <1>6, <1>7, <1>12 DEF Parking, Calm
    <2>2. Calm(f)
      BY <1>6, <1>7, <2>1 DEF Calm, Terminal
    <2>3. Onward(f, u) /\ Fresh(u)
      BY <1>10, <1>12, <2>2, RollTurnOnward DEF InCleanup
    <2> QED  BY <1>0, <1>8, <1>10, <2>3, SameOnward
  <1> QED  BY <1>5, <1>11, <1>12

\* Cleanup begins with a discard owed, or ends at once.
LEMMA StartCleanupOnward ==
    ASSUME NEW s, InCleanup(s), ~s.cleanupPriority, NEW u \in StartCleanup(s)
    PROVE  Onward(s, u)
  <1>1. CASE u \in FinishCleanup(s)
    BY <1>1, FinishCleanupOnward
  <1>2. ASSUME NEW g \in CleanupSbas(s),
               u = ResetPasses([g EXCEPT !.discard = g.active, !.priority = g.active])
        PROVE  Onward(s, u)
    <2>1. s \in State /\ Calm(s)
      BY CalmLive DEF InCleanup
    <2>2. Keeps(s, g) /\ g.lost = s.lost /\ g.choice = s.choice /\ g \in State
      BY <2>1, CleanupSbasKeeps DEF Keeps, Follows
    <2>3. /\ g.active \in Seat /\ g.active \in 0 .. N /\ g.active # NoSeat
      BY <2>2, SeatsAssumption DEF State, Seat, NoSeat
    <2>4. /\ g.step = "Cleanup" /\ g.combat = NoCombat /\ ~g.damagePending /\ ~g.cleanupPriority
          /\ SameTurn(s, g) /\ (Fresh(s) => Fresh(g))
      BY <2>2 DEF Keeps, Follows, CombatShrinks, InCleanup, SameTurn, SameRound, Fresh
    <2>5. /\ u \in State /\ u.step = g.step /\ u.combat = g.combat /\ u.lost = g.lost
          /\ u.active = g.active /\ u.resume = g.resume /\ u.queue = g.queue
          /\ u.cleanupPriority = g.cleanupPriority /\ u.discard = g.active
          /\ u.damagePending = g.damagePending
          /\ u.choice = g.choice /\ u.passes = 0 /\ u.passed = {}
      BY <1>2, <2>2, <2>3 DEF ResetPasses, State
    <2>6. Shape(u)
      BY <2>1, <2>2, <2>3, <2>4, <2>5, InCleanupShape DEF Calm
    <2> QED  BY <2>2, <2>4, <2>5, <2>6 DEF Onward, Turned, SameTurn, Fresh
  <1> QED  BY <1>1, <1>2 DEF StartCleanup

\* adv_on_empty_stack, one case per step of the turn; its fallback arm in cleanup
\* is never reached.
LEMMA AdvOnEmptyStackOnward ==
    ASSUME NEW s, Calm(s), Shape(s), s.damagePending => s.step = "CombatDamage",
           s.step = "Cleanup" => s.cleanupPriority,
           s.step = "DeclareBlockers" => s.combat.blocked,
           NEW u \in AdvOnEmptyStack(s)
    PROVE  Onward(s, u)
  <1>0. /\ s \in State /\ s.step \in Steps /\ s.combat \in Combat /\ s.choice.kind = "None"
        /\ ~Terminal(s)
    BY CalmLive DEF State, Calm
  <1>a. /\ NoCombat \in Combat /\ NewCombat \in Combat /\ s.active \notin NoCombat.waiting
        /\ s.active \notin NewCombat.waiting /\ NewCombat.on
    BY NoCombatType, NoCombatFields
  <1>b. ASSUME NEW t \in Steps \ {"Cleanup"}, t \notin CombatSteps,
               s.step # "Cleanup", s.step # "CombatDamage"
        PROVE  /\ Onward(s, Enter([s EXCEPT !.combat = NoCombat], t))
               /\ Onward(s, EnterFresh([s EXCEPT !.combat = NoCombat], t))
    <2>1. t # "DeclareBlockers"
      BY <1>b DEF CombatSteps
    <2> QED  BY <1>0, <1>a, <1>b, <2>1, EnterOnward
  <1>1. CASE s.step = "Upkeep"
    <2>1. u \in DrawStep(s)
      BY <1>1 DEF AdvOnEmptyStack
    <2> QED  BY <1>1, <2>1, DrawStepOnward
  <1>2. CASE s.step = "Draw"
    <2>1. u = EnterFresh([s EXCEPT !.combat = NoCombat], "Main1")
      BY <1>2 DEF AdvOnEmptyStack
    <2> QED  BY <1>2, <1>b, <2>1 DEF Steps, CombatSteps
  <1>3. CASE s.step = "Main1"
    <2>1. u = Enter(s, "BeginCombat")
      BY <1>3 DEF AdvOnEmptyStack
    <2>2. s.combat = NoCombat
      BY <1>3 DEF Shape, Scoped, CombatSteps
    <2>3. "BeginCombat" \in Steps \ {"Cleanup"} /\ "BeginCombat" \notin CombatSteps
      BY DEF Steps, CombatSteps
    <2> QED  BY <1>0, <1>3, <2>1, <2>2, <2>3, EnterSameOnward
  <1>4. CASE s.step = "BeginCombat"
    <2>1. \/ u = EnterFresh([s EXCEPT !.combat = NoCombat], "EndCombat")
          \/ u = Enter([s EXCEPT !.combat = NewCombat], "DeclareAttackers")
      BY <1>4 DEF AdvOnEmptyStack
    <2>2. Onward(s, EnterFresh([s EXCEPT !.combat = NoCombat], "EndCombat"))
      BY <1>4, <1>b DEF Steps, CombatSteps
    <2>3. /\ "DeclareAttackers" \in Steps \ {"Cleanup"} /\ "DeclareAttackers" \in CombatSteps
      BY DEF Steps, CombatSteps
    <2>4. Onward(s, Enter([s EXCEPT !.combat = NewCombat], "DeclareAttackers"))
      BY <1>0, <1>4, <1>a, <2>3, EnterOnward
    <2> QED  BY <2>1, <2>2, <2>4
  <1>5. CASE s.step = "DeclareAttackers"
    <2>1. u \in BeginBlocks(s)
      BY <1>5 DEF AdvOnEmptyStack
    <2> QED  BY <1>5, <2>1, BeginBlocksOnward
  <1>6. CASE s.step = "DeclareBlockers"
    <2> DEFINE c == [s.combat EXCEPT !.assign = TRUE]
    <2>1. \/ u = EnterFresh([s EXCEPT !.combat = c], "DeclareBlockers")
          \/ u \in ResolveCombatDamageStep(s)
      BY <1>6 DEF AdvOnEmptyStack
    <2>2. c \in Combat /\ c.on /\ c.blocked /\ c.waiting = s.combat.waiting
      BY <1>0, <1>6 DEF Combat, Shape, Scoped, CombatSteps
    <2>3. s.active \notin c.waiting
      BY <2>2 DEF Shape, BlocksDue
    <2>4. "DeclareBlockers" \in Steps \ {"Cleanup"} /\ "DeclareBlockers" \in CombatSteps
      BY DEF Steps, CombatSteps
    <2> HIDE DEF c
    <2>5. Onward(s, EnterFresh([s EXCEPT !.combat = c], "DeclareBlockers"))
      BY <1>0, <1>6, <2>2, <2>3, <2>4, EnterOnward
    <2> QED  BY <1>6, <2>1, <2>4, <2>5, ResolveCombatDamageStepOnward
  <1>7. CASE s.step = "FirstStrikeDamage"
    <2>1. u \in ResolveCombatDamageStep(s)
      BY <1>7 DEF AdvOnEmptyStack
    <2> QED  BY <1>7, <2>1, ResolveCombatDamageStepOnward DEF CombatSteps
  <1>8. CASE s.step = "CombatDamage"
    <2>1. u = EnterFresh(s, "EndCombat")
      BY <1>8 DEF AdvOnEmptyStack
    <2>2. "EndCombat" \in Steps \ {"Cleanup"} /\ "EndCombat" \notin CombatSteps
      BY DEF Steps, CombatSteps
    <2> QED  BY <1>0, <1>8, <2>1, <2>2, EnterSameOnward
  <1>9. CASE s.step = "EndCombat"
    <2>1. u = Enter([s EXCEPT !.combat = NoCombat], "Main2")
      BY <1>9 DEF AdvOnEmptyStack
    <2> QED  BY <1>9, <1>b, <2>1 DEF Steps, CombatSteps
  <1>10. CASE s.step = "Main2"
    <2>1. u = EnterFresh(s, "EndStep")
      BY <1>10 DEF AdvOnEmptyStack
    <2>2. s.combat = NoCombat
      BY <1>10 DEF Shape, Scoped, CombatSteps
    <2>3. "EndStep" \in Steps \ {"Cleanup"} /\ "EndStep" \notin CombatSteps
      BY DEF Steps, CombatSteps
    <2> QED  BY <1>0, <1>10, <2>1, <2>2, <2>3, EnterSameOnward
  <1>11. CASE s.step = "EndStep"
    <2> DEFINE r == ResetPasses([s EXCEPT !.step = "Cleanup", !.cleanupSba = FALSE])
    <2>1. PICK g \in CleanupSbas(r) : u \in StartCleanup(g)
      BY <1>11 DEF AdvOnEmptyStack
    <2>2. SameCore(s, r)
      BY <1>0 DEF ResetPasses, SameCore, State, Steps
    <2>3. /\ r \in State /\ r.step = "Cleanup" /\ r.combat = s.combat
          /\ r.damagePending = s.damagePending /\ r.cleanupPriority = s.cleanupPriority
          /\ r.lost = s.lost /\ SameTurn(s, r) /\ Fresh(r)
      BY <1>0, <2>2 DEF ResetPasses, SameCore, State, SameTurn, Fresh
    <2>4. s.combat = NoCombat /\ ~s.cleanupPriority
      BY <1>0, <1>11 DEF Shape, Scoped, CombatSteps, Accounted
    <2> HIDE DEF r
    <2>5. InCleanup(r)
      BY <1>11, <2>2, <2>3, <2>4, CalmFrame DEF InCleanup
    <2>6. Calm(g) /\ Keeps(r, g) /\ g.lost = r.lost /\ g \in State
      BY <2>3, <2>5, CleanupSbasCalm, CleanupSbasKeeps, CalmLive DEF InCleanup
    <2>7. InCleanup(g) /\ ~g.cleanupPriority
      BY <2>3, <2>4, <2>5, <2>6, InCleanupFollows DEF Keeps, Follows
    <2>8. Onward(g, u)
      BY <2>1, <2>7, StartCleanupOnward
    <2>9. SameTurn(s, g) /\ Fresh(g) /\ g.lost = s.lost
      BY <2>3, <2>6 DEF Keeps, Follows, SameTurn, SameRound, Fresh
    <2> QED  BY <1>0, <2>6, <2>8, <2>9, SameOnward
  <1>12. CASE s.step = "Cleanup"
    <2> DEFINE r == [s EXCEPT !.cleanupPriority = FALSE, !.cleanupSba = FALSE]
    <2>1. u \in StartCleanup(r)
      BY <1>12 DEF AdvOnEmptyStack
    <2>2. /\ SameCore(s, r) /\ r \in State /\ r.step = s.step /\ r.combat = s.combat
          /\ r.damagePending = s.damagePending /\ ~r.cleanupPriority
          /\ r.lost = s.lost /\ SameTurn(s, r) /\ (Fresh(s) => Fresh(r))
      BY <1>0 DEF SameCore, State, SameTurn, Fresh
    <2>3. s.combat = NoCombat
      BY <1>12 DEF Shape, Scoped, CombatSteps
    <2> HIDE DEF r
    <2>4. InCleanup(r)
      BY <1>12, <2>2, <2>3, CalmFrame DEF InCleanup
    <2>5. Onward(r, u)
      BY <2>1, <2>2, <2>4, StartCleanupOnward
    <2> QED  BY <1>0, <2>2, <2>5, SameOnward
  <1> QED  BY <1>0, <1>1, <1>2, <1>3, <1>4, <1>5, <1>6, <1>7, <1>8, <1>9, <1>10, <1>11, <1>12 DEF Steps

\* An empty attack skips to the end of combat.
LEMMA DeclineAttackOnward ==
    ASSUME NEW s, Calm(s), Shape(s), ~s.damagePending, s.step # "Cleanup"
    PROVE  Onward(s, DeclineAttack(s)) /\ Fresh(DeclineAttack(s))
  <1>1. s \in State /\ s.choice.kind = "None"
    BY CalmLive DEF Calm
  <1>2. "EndCombat" \in Steps \ {"Cleanup"} /\ "EndCombat" \notin CombatSteps
    BY DEF Steps, CombatSteps
  <1>3. Onward(s, DeclineAttack(s))
    BY <1>1, <1>2, EnterOnward, NoCombatType, NoCombatFields DEF DeclineAttack
  <1>4. Fresh(DeclineAttack(s))
    BY <1>1 DEF DeclineAttack, EnterFresh, Enter, ResetPasses, State, Fresh
  <1> QED  BY <1>3, <1>4

\* Attackers are declared in their own step.
LEMMA FinalizeAttackOnward ==
    ASSUME NEW s \in State, Shape(s), s.step = "DeclareAttackers", NEW A \in SUBSET Seat
    PROVE  Onward(s, FinalizeAttack(s, A)) /\ Fresh(FinalizeAttack(s, A))
  <1> DEFINE c == [NewCombat EXCEPT !.declared = TRUE, !.attacked = A]
             r == [s EXCEPT !.choice = NoChoice]
             f == EnterFresh([r EXCEPT !.combat = c], "DeclareAttackers")
  <1>1. c \in Combat /\ c.on /\ c.waiting = {}
    BY DEF NewCombat, NoCombat, Combat
  <1>2. Keeps(s, r)
    BY CloseKeeps
  <1>3. r \in State /\ r.choice = NoChoice /\ r.damagePending = s.damagePending /\ r.lost = s.lost
    BY <1>2 DEF Keeps, Follows, State
  <1>4. ~r.damagePending /\ r.choice.kind = "None" /\ r.step # "Cleanup" /\ Shape(r)
    BY <1>2, <1>3 DEF Shape, DamageDue, DamageStepsOnly, NoChoice, Keeps, Follows
  <1>5. FinalizeAttack(s, A) = f
    <2>1. [s EXCEPT !.combat = c, !.choice = NoChoice] = [r EXCEPT !.combat = c]
      BY DEF State
    <2> HIDE DEF r, c
    <2> QED  BY <2>1 DEF FinalizeAttack, c
  <1>6. "DeclareAttackers" \in Steps \ {"Cleanup"} /\ "DeclareAttackers" \in CombatSteps
    BY DEF Steps, CombatSteps
  <1> HIDE DEF r, c
  <1>7. Onward(r, f)
    BY <1>1, <1>3, <1>4, <1>6, EnterOnward
  <1>8. Fresh(f)
    BY <1>1, <1>3 DEF EnterFresh, Enter, ResetPasses, State, Fresh
  <1>9. SameTurn(s, r) /\ (Fresh(s) => Fresh(r))
    BY <1>2 DEF Keeps, Follows, SameTurn, SameRound, Fresh
  <1> QED  BY <1>3, <1>5, <1>7, <1>8, <1>9, SameOnward

\* One defender declares and the next one is asked.
LEMMA SetBlockersOnward ==
    ASSUME NEW s, Calm(s), Shape(s), s.step = "DeclareBlockers",
           NEW d \in Seat, NEW B \in SUBSET Seat, NEW M \in SUBSET Seat, NEW T \in SUBSET Seat
    PROVE  Onward(s, SetBlockers(s, d, B, M, T)) /\ Fresh(SetBlockers(s, d, B, M, T))
  <1> DEFINE c == [s.combat EXCEPT !.blocks = @ \cup B, !.needs = @ \cup M,
                                   !.short = @ \cup T, !.assigned = {},
                                   !.needed = @ \/ M # {}, !.assign = FALSE,
                                   !.waiting = @ \ {d}]
             done == c.waiting = {}
             e == [c EXCEPT !.blocked = done]
             n == IF done THEN s.active ELSE FirstAfter(s.active, c.waiting)
             u == ResetPasses([s EXCEPT !.combat = e, !.priority = n])
  <1>1. s \in State /\ s.combat \in Combat /\ s.active \in Seat /\ s.choice.kind = "None" /\ s.combat.on
    BY CalmLive DEF State, Calm, Shape, Scoped, CombatSteps
  <1>2. c \in Combat /\ c.on /\ c.waiting = s.combat.waiting \ {d}
    BY <1>1 DEF Combat
  <1>3. SetBlockers(s, d, B, M, T) = u
    BY DEF SetBlockers
  <1> HIDE DEF c
  <1>4. e \in Combat /\ e.on /\ e.waiting = c.waiting /\ e.blocked = done
    BY <1>2 DEF Combat
  <1>5. n \in Seat
    BY <1>1, <1>2, FirstAfterInSet DEF Combat
  <1>6. ~e.blocked => e.waiting # {} /\ n = FirstAfter(s.active, e.waiting)
    BY <1>4
  <1> HIDE DEF e, n
  <1>7. /\ u \in State /\ u.step = s.step /\ u.combat = e /\ u.priority = n
        /\ u.active = s.active /\ u.resume = s.resume /\ u.queue = s.queue /\ u.lost = s.lost
        /\ u.outcome = s.outcome /\ u.choice = s.choice /\ u.damagePending = s.damagePending
        /\ u.discard = s.discard /\ u.cleanupPriority = s.cleanupPriority
        /\ u.passes = 0 /\ u.passed = {}
    BY <1>1, <1>4, <1>5 DEF ResetPasses, State
  <1> HIDE DEF u
  <1>8. s.active \notin s.combat.waiting
    BY DEF Shape, BlocksDue
  <1>9. Scoped(u) /\ DamageDue(u) /\ BlocksDue(u)
    BY <1>1, <1>2, <1>4, <1>6, <1>7, <1>8 DEF Shape, Scoped, DamageDue, BlocksDue, CombatSteps
  <1>10. Accounted(u)
    BY <1>7 DEF Shape, Accounted, Terminal
  <1> QED  BY <1>3, <1>7, <1>9, <1>10 DEF Onward, Shape, Turned, SameTurn, Fresh

-----------------------------------------------------------------------------
(***************************************************************************)
(* Resolution.                                                             *)
(***************************************************************************)

\* An effect on combat leaves the block declarations as they are.
LEMMA CombatChangesShrink ==
    ASSUME NEW c \in Combat, NEW x \in CombatChanges(c)
    PROVE  CombatShrinks(c, x) /\ x.waiting = c.waiting /\ x.blocked = c.blocked
  <1>1. CASE x \in Removals(c)
    BY <1>1, RemovalsShrink
  <1>2. ASSUME NEW d \in c.blocks \ c.assigned,
               x \in CoverOrNot([c EXCEPT !.needs = @ \cup {d}], d)
        PROVE  CombatShrinks(c, x) /\ x.waiting = c.waiting /\ x.blocked = c.blocked
    <2> DEFINE e == [c EXCEPT !.needs = @ \cup {d}]
    <2>1. c # NoCombat
      BY <1>2 DEF NoCombat
    <2>2. /\ e \in Combat /\ e.on = c.on /\ e.waiting = c.waiting /\ e.blocked = c.blocked
          /\ d \in Seat
      BY DEF Combat
    <2> HIDE DEF e
    <2>3. x \in CoverOrNot(e, d)
      BY <1>2 DEF e
    <2>4. x \in Combat /\ x.on = c.on /\ x.waiting = c.waiting /\ x.blocked = c.blocked
      BY <2>2, <2>3, CoverOrNotFields
    <2> QED  BY <2>1, <2>4 DEF CombatShrinks
  <1>3. ASSUME NEW d \in c.needs, x = NoNeed(c, d)
        PROVE  CombatShrinks(c, x) /\ x.waiting = c.waiting /\ x.blocked = c.blocked
    <2>1. c # NoCombat
      BY <1>3 DEF NoCombat
    <2>2. x \in Combat /\ x.on = c.on /\ x.waiting = c.waiting /\ x.blocked = c.blocked
      BY <1>3, NoNeedFields
    <2> QED  BY <2>1, <2>2 DEF CombatShrinks
  <1> QED  BY <1>1, <1>2, <1>3 DEF CombatChanges

\* A finished resolution stays in its step and round, and grants at most a turn.
LEMMA EffectsOnward ==
    ASSUME NEW s \in State, Shape(s), NEW t \in Effects(s)
    PROVE  Onward(s, t) /\ SameRound(s, t) /\ t.lost = s.lost
  <1>1. ASSUME NEW D \in SUBSET Live(s), t = [s EXCEPT !.doomed = D]
        PROVE  Onward(s, t) /\ SameRound(s, t) /\ t.lost = s.lost
    <2>1. D \in SUBSET Seat
      BY DEF Live
    <2>2. Keeps(s, t) /\ t.lost = s.lost
      BY <1>1, <2>1, MarkKeeps DEF State
    <2> QED  BY <2>2, KeepsOnward DEF Keeps, Follows
  <1>2. ASSUME NEW p \in Live(s), t = ScheduleExtraTurn(s, p)
        PROVE  Onward(s, t) /\ SameRound(s, t) /\ t.lost = s.lost
    <2> DEFINE q == <<p>> \o s.queue
    <2>1. s.queue \in Seq(Seat) /\ <<p>> \in Seq(Seat)
      BY DEF State, Live
    <2>2. q \in Seq(Seat)
      BY <2>1
    <2>3. t = [s EXCEPT !.queue = q]
      BY <1>2 DEF ScheduleExtraTurn
    <2>4. \E x \in Live(s) : q = <<x>> \o s.queue
      OBVIOUS
    <2> HIDE DEF q
    <2>5. /\ t \in State /\ t.queue = q
          /\ t.step = s.step /\ t.active = s.active /\ t.resume = s.resume
          /\ t.cleanupPriority = s.cleanupPriority /\ t.lost = s.lost
          /\ t.outcome = s.outcome /\ t.discard = s.discard /\ t.damagePending = s.damagePending
          /\ t.choice = s.choice /\ t.combat = s.combat /\ t.priority = s.priority
          /\ t.passes = s.passes /\ t.passed = s.passed
      BY <2>2, <2>3 DEF State
    <2>6. CombatShrinks(s.combat, t.combat)
      BY <2>5, CombatShrinksSelf DEF State
    <2>7. SameRound(s, t) /\ Follows(s, t)
      BY <2>5, <2>6 DEF Follows, Terminal, SameRound
    <2>8. Shape(t)
      BY <2>5, <2>7, ShapeFrame
    <2>9. Turned(s, t)
      BY <2>4, <2>5 DEF Turned, Grants
    <2> QED  BY <2>5, <2>7, <2>8, <2>9 DEF Onward, Fresh
  <1>3. ASSUME NEW c \in CombatChanges(s.combat), t = [s EXCEPT !.combat = c]
        PROVE  Onward(s, t) /\ SameRound(s, t) /\ t.lost = s.lost
    <2>1. /\ CombatShrinks(s.combat, c)
          /\ c.waiting = s.combat.waiting /\ c.blocked = s.combat.blocked
      BY CombatChangesShrink DEF State
    <2>2. Keeps(s, t) /\ t.lost = s.lost
      BY <1>3, <2>1, CombatKeeps DEF State
    <2> QED  BY <2>2, KeepsOnward DEF Keeps, Follows
  <1> QED  BY <1>1, <1>2, <1>3 DEF Effects

\* A resolution, whatever it does, stays in the step and in the round of passes.
LEMMA ResolveTopOfStackOnward ==
    ASSUME NEW s \in State, Shape(s), NEW t \in ResolveTopOfStack(s)
    PROVE  Onward(s, t) /\ SameRound(s, t) /\ t.lost = s.lost
  <1> DEFINE k == s.stack \ {Top(s)}
             r == [s EXCEPT !.stack = k]
  <1>1. k \in SUBSET ((1 .. MaxPlays) \X Seat)
    BY DEF State
  <1>2. t \in Effects(r) \/ t \in Parked(r) \/ t \in GameEnded(r)
    BY DEF ResolveTopOfStack
  <1> HIDE DEF k
  <1>3. /\ Quiet(s, r) /\ r \in State /\ SameTurn(s, r) /\ r.lost = s.lost
        /\ r.priority = s.priority /\ r.passes = s.passes /\ r.passed = s.passed
    BY <1>1 DEF State, Quiet, SameRound, Terminal, SameTurn
  <1>4. Keeps(s, r) /\ Shape(r)
    BY <1>3, QuietKeeps DEF Keeps
  <1> HIDE DEF r
  <1>5. Onward(r, t) /\ SameRound(r, t) /\ t.lost = r.lost
    <2>1. CASE t \in Effects(r)
      BY <1>3, <1>4, <2>1, EffectsOnward
    <2>2. CASE t \in Parked(r)
      <3>1. Keeps(r, t) /\ t.lost = r.lost
        BY <1>3, <2>2, ParkedKeeps DEF Parked, Ask, State
      <3> QED  BY <1>3, <1>4, <3>1, KeepsOnward DEF Keeps, Follows
    <2>3. CASE t \in GameEnded(r)
      <3>1. PICK p \in Live(r) : t = [r EXCEPT !.outcome = p]
        BY <2>3 DEF GameEnded
      <3>2. p \in 0 .. (N + 1) /\ p # NoOutcome
        BY SeatsAssumption DEF Live, Seat, NoOutcome
      <3>3. Quiet(r, t) /\ t.lost = r.lost
        BY <1>3, <3>1, <3>2 DEF State, Quiet, SameRound, Terminal
      <3>4. Keeps(r, t)
        BY <1>3, <3>3, QuietKeeps
      <3> QED  BY <1>3, <1>4, <3>3, <3>4, KeepsOnward DEF Keeps, Follows
    <2> QED  BY <1>2, <2>1, <2>2, <2>3
  <1>6. SameRound(s, t)
    BY <1>3, <1>5 DEF SameRound
  <1>7. Fresh(s) => Fresh(r)
    BY <1>3 DEF Fresh
  <1> QED  BY <1>3, <1>5, <1>6, <1>7, SameOnward

-----------------------------------------------------------------------------
(***************************************************************************)
(* Rounds of passes.                                                       *)
(***************************************************************************)

\* passes counts the different players who passed, the one with priority is not
\* among them, and those who have not passed come round before those who have.
RoundOK(s) ==
    /\ s.passes = Cardinality(s.passed)
    /\ s.priority \notin s.passed
    /\ \A q \in Live(s) \ s.passed, r \in Live(s) \cap s.passed :
          q # s.priority => Ahead(s.priority, q) < Ahead(s.priority, r)

\* A round stays in order when it goes on, starts afresh or loses players.
LEMMA RoundFrame ==
    ASSUME NEW s, RoundOK(s), NEW t, SameRound(s, t), s.lost \subseteq t.lost PROVE RoundOK(t)
  <1>1. CASE Fresh(t)
    BY <1>1, FS_EmptySet DEF Fresh, RoundOK
  <1>2. CASE t.passes = s.passes /\ t.passed = s.passed /\ t.priority = s.priority
    <2>1. Live(t) \subseteq Live(s)
      BY DEF Live
    <2> QED  BY <1>2, <2>1 DEF RoundOK
  <1> QED  BY <1>1, <1>2 DEF SameRound, Fresh

\* The seats are finitely many.
LEMMA SeatsFinite ==
    /\ IsFiniteSet(Seat)
    /\ \A S \in SUBSET Seat : IsFiniteSet(S)
  <1>1. IsFiniteSet(Seat)
    BY FS_Interval, SeatsAssumption DEF Seat
  <1> QED  BY <1>1, FS_Subset

\* A pass that is not the last one goes to a player who has not passed.
LEMMA CountPassRound ==
    ASSUME NEW s \in State, RoundOK(s), ~LastPass(s) PROVE RoundOK(CountPass(s))
  <1> DEFINE P == s.passed \cup {s.priority}
             n == NextInGame(s, s.priority)
             t == CountPass(s)
  <1>1. /\ s.priority \in Seat /\ s.passed \in SUBSET Seat /\ Live(s) \in SUBSET Seat
        /\ s.passes \in Nat
    BY DEF State, Live
  <1>2. IsFiniteSet(s.passed) /\ IsFiniteSet(P) /\ IsFiniteSet(Live(s))
    BY <1>1, SeatsFinite
  <1>3. Cardinality(P) = s.passes + 1
    BY <1>2, FS_AddElement DEF RoundOK
  <1>4. Cardinality(Live(s)) \in Nat /\ s.passes + 1 < Cardinality(Live(s))
    BY <1>1, <1>2, FS_CardinalityType DEF LastPass
  <1>5. ~(Live(s) \subseteq P)
    <2>1. Live(s) \in SUBSET P => Cardinality(Live(s)) <= Cardinality(P)
      BY <1>2, FS_Subset
    <2> HIDE DEF P
    <2> QED  BY <1>1, <1>3, <1>4, <2>1
  <1>6. PICK q0 \in Live(s) : q0 \notin P
    BY <1>5
  <1>7. n \in Live(s) /\ \A q \in Live(s) : Ahead(s.priority, n) <= Ahead(s.priority, q)
    BY <1>1, <1>6, FirstAfterIsNearest DEF NextInGame
  <1>8. /\ t.passes = s.passes + 1 /\ t.passed = P /\ t.priority = n /\ t.lost = s.lost
    BY DEF CountPass, State
  <1>9. n \notin P
    <2>1. q0 \in Seat /\ n \in Seat /\ q0 # s.priority /\ q0 \notin s.passed
      BY <1>1, <1>6, <1>7
    <2>2. n # s.priority
      BY <1>1, <1>6, <1>7, <2>1, SeatsAssumption DEF Ahead, Seat
    <2>3. n \notin s.passed
      <3>1. SUFFICES ASSUME n \in s.passed PROVE FALSE
        OBVIOUS
      <3>2. Ahead(s.priority, q0) < Ahead(s.priority, n)
        BY <1>6, <1>7, <2>1, <3>1 DEF RoundOK
      <3>3. Ahead(s.priority, n) <= Ahead(s.priority, q0)
        BY <1>6, <1>7
      <3> QED  BY <1>1, <2>1, <3>2, <3>3, SeatsAssumption DEF Ahead, Seat
    <2> QED  BY <2>2, <2>3
  <1>10. ASSUME NEW q \in Live(s) \ P, NEW r \in Live(s) \cap P, q # n
         PROVE  Ahead(n, q) < Ahead(n, r)
    <2>1. q \in Seat /\ r \in Seat /\ n \in Seat /\ q # s.priority /\ n # s.priority
      BY <1>1, <1>7, <1>9
    <2>2. Ahead(s.priority, n) <= Ahead(s.priority, q)
      BY <1>7
    <2>3. r = s.priority \/ Ahead(s.priority, q) < Ahead(s.priority, r)
      BY <2>1 DEF RoundOK
    <2>4. r # n
      BY <1>9
    <2> HIDE DEF n
    <2> QED  BY <1>1, <1>10, <2>1, <2>2, <2>3, <2>4, SeatsAssumption DEF Ahead, Seat
  <1> HIDE DEF t, P, n
  <1>11. Live(t) = Live(s)
    BY <1>8 DEF Live
  <1>12. RoundOK(t)
    BY <1>3, <1>8, <1>9, <1>10, <1>11 DEF RoundOK
  <1> QED  BY <1>12 DEF t

\* A last pass with no departed player's pass among the counted ones was preceded
\* by a pass of every other player in the game.
LEMMA LastPassRound ==
    ASSUME NEW s \in State, RoundOK(s), LastPass(s), s.priority \in Live(s),
           s.passed \cap s.lost = {}
    PROVE  Live(s) \subseteq s.passed \cup {s.priority}
  <1> DEFINE P == s.passed \cup {s.priority}
  <1>1. s.passed \in SUBSET Seat /\ Live(s) \in SUBSET Seat /\ s.passes \in Nat
    BY DEF State, Live
  <1>2. IsFiniteSet(s.passed) /\ IsFiniteSet(Live(s)) /\ P \subseteq Live(s)
    BY <1>1, SeatsFinite DEF Live
  <1>3. Cardinality(P) = s.passes + 1 /\ Cardinality(P) \in Nat
    <2>1. s.priority \notin s.passed /\ Cardinality(s.passed) = s.passes
      BY DEF RoundOK
    <2>2. Cardinality(P) = s.passes + 1
      BY <1>2, <2>1, FS_AddElement
    <2> QED  BY <1>1, <2>2
  <1>4. Cardinality(Live(s)) \in Nat /\ Cardinality(P) >= Cardinality(Live(s))
    BY <1>1, <1>2, <1>3, FS_CardinalityType DEF LastPass
  <1>5. Cardinality(P) <= Cardinality(Live(s)) /\ (Cardinality(P) = Cardinality(Live(s)) => P = Live(s))
    BY <1>2, FS_Subset
  <1> QED  BY <1>3, <1>4, <1>5
=============================================================================
