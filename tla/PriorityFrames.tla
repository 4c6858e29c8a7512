--------------------------- MODULE PriorityFrames ---------------------------
(***************************************************************************)
(* What the operations of the priority machine leave alone, and the shape  *)
(* they keep: combat, block declarations and cleanup stay accounted for    *)
(* through a command and its settlement.                                   *)
(***************************************************************************)
EXTENDS PriorityProofs

CombatSteps == {"DeclareAttackers", "DeclareBlockers", "FirstStrikeDamage", "CombatDamage"}
DamageStepsOnly == {"FirstStrikeDamage", "CombatDamage"}

\* Combat is there in the steps that unwrap it and gone outside combat.
Scoped(s) ==
    /\ s.combat.on \/ s.combat = NoCombat
    /\ s.step \in CombatSteps => s.combat.on
    /\ s.step \notin CombatSteps \cup {"EndCombat"} => s.combat = NoCombat

\* A priority window is owed in a damage step, or after the second one when its
\* damage was refused; an attack is paid for in its own step.
DamageDue(s) ==
    /\ s.damagePending => s.step \in DamageStepsOnly \cup {"EndCombat"}
    /\ s.choice.kind = "Attack" => s.step = "DeclareAttackers"

\* In an unfinished block declaration the first defender who has not declared
\* holds priority, and nobody casts anything.
BlocksDue(s) ==
    /\ s.active \notin s.combat.waiting
    /\ s.step = "DeclareBlockers" /\ ~s.combat.blocked =>
          /\ s.combat.waiting # {}
          /\ s.priority = FirstAfter(s.active, s.combat.waiting)
          /\ s.choice.kind # "Cast"

\* In cleanup a discard is owed or a priority round runs, and not both.
Accounted(s) ==
    ~Terminal(s) =>
        IF s.step = "Cleanup" THEN (s.discard # NoSeat) # s.cleanupPriority
        ELSE s.discard = NoSeat /\ ~s.cleanupPriority

Shape(s) == Scoped(s) /\ DamageDue(s) /\ BlocksDue(s) /\ Accounted(s)

(***************************************************************************)
(* t follows s within one step of a turn: step, turn and cleanup stay,     *)
(* nobody comes back, combat only shrinks, and the round of passes goes on *)
(* or starts afresh.                                                       *)
(***************************************************************************)
SameRound(s, t) ==
    \/ t.passes = 0 /\ t.passed = {}
    \/ t.passes = s.passes /\ t.passed = s.passed /\ t.priority = s.priority

CombatShrinks(c, d) ==
    /\ d \in Combat
    /\ d.on = c.on
    /\ c = NoCombat => d = NoCombat
    /\ d.waiting \subseteq c.waiting
    /\ c.blocked => d.blocked

Follows(s, t) ==
    /\ t \in State
    /\ t.step = s.step /\ t.active = s.active /\ t.resume = s.resume
    /\ t.cleanupPriority = s.cleanupPriority
    /\ s.lost \subseteq t.lost
    /\ Terminal(s) => Terminal(t)
    /\ t.discard = s.discard \/ Terminal(t)
    /\ t.damagePending => s.damagePending
    /\ t.choice.kind \in {"Cast", "Attack"} => t.choice.kind = s.choice.kind
    /\ CombatShrinks(s.combat, t.combat)
    /\ SameRound(s, t)

-----------------------------------------------------------------------------
(***************************************************************************)
(* Framing.                                                                *)
(***************************************************************************)

\* Combat that does not change has shrunk by nothing.
LEMMA CombatShrinksSelf ==
    ASSUME NEW c \in Combat PROVE CombatShrinks(c, c)
  BY DEF CombatShrinks

\* A state follows itself.
LEMMA FollowsSelf ==
    ASSUME NEW s \in State PROVE Follows(s, s)
  <1>1. CombatShrinks(s.combat, s.combat)
    BY CombatShrinksSelf DEF State
  <1> QED  BY <1>1 DEF Follows, SameRound

\* What follows a follower follows the first.
LEMMA FollowsChain ==
    ASSUME NEW s \in State, NEW t, NEW u, Follows(s, t), Follows(t, u) PROVE Follows(s, u)
  <1>1. CombatShrinks(s.combat, u.combat)
    BY DEF Follows, CombatShrinks
  <1>2. SameRound(s, u)
    BY DEF Follows, SameRound
  <1> QED  BY <1>1, <1>2 DEF Follows

\* The shape survives whatever leaves block declarations and priority alone.
LEMMA ShapeFrame ==
    ASSUME NEW s, Shape(s), NEW t, Follows(s, t),
           t.combat.waiting = s.combat.waiting,
           t.combat.blocked = s.combat.blocked,
           t.priority = s.priority \/ s.step # "DeclareBlockers"
    PROVE  Shape(t)
  <1>1. Scoped(t)
    BY DEF Shape, Scoped, Follows, CombatShrinks
  <1>2. DamageDue(t)
    BY DEF Shape, DamageDue, Follows
  <1>3. BlocksDue(t)
    BY DEF Shape, BlocksDue, Follows
  <1>4. Accounted(t)
    BY DEF Shape, Accounted, Follows
  <1> QED  BY <1>1, <1>2, <1>3, <1>4 DEF Shape

\* A new round of passes changes nothing but the round.
LEMMA ResetPassesFollows ==
    ASSUME NEW s \in State
    PROVE  /\ Follows(s, ResetPasses(s)) /\ ResetPasses(s).queue = s.queue
           /\ Shape(s) => Shape(ResetPasses(s))
  <1> DEFINE t == ResetPasses(s)
  <1>1. /\ t \in State /\ t.step = s.step /\ t.active = s.active /\ t.resume = s.resume
        /\ t.queue = s.queue /\ t.cleanupPriority = s.cleanupPriority /\ t.lost = s.lost
        /\ t.outcome = s.outcome /\ t.discard = s.discard /\ t.damagePending = s.damagePending
        /\ t.choice = s.choice /\ t.combat = s.combat /\ t.priority = s.priority
        /\ t.passes = 0 /\ t.passed = {}
    BY DEF ResetPasses, State
  <1> HIDE DEF t
  <1>2. CombatShrinks(s.combat, t.combat)
    BY <1>1, CombatShrinksSelf DEF State
  <1>3. Follows(s, t)
    BY <1>1, <1>2 DEF Follows, Terminal, SameRound
  <1>4. Shape(s) => Shape(t)
    BY <1>1, <1>3, ShapeFrame
  <1> QED  BY <1>1, <1>3, <1>4 DEF t

-----------------------------------------------------------------------------
(***************************************************************************)
(* Operations that stay within a step of a turn.                           *)
(***************************************************************************)
Keeps(s, t) ==
    /\ Follows(s, t)
    /\ t.queue = s.queue
    /\ Shape(s) => Shape(t)

\* A sufficient condition: combat, priority, step, turn and cleanup are the same.
Quiet(s, t) ==
    /\ t \in State
    /\ t.step = s.step /\ t.active = s.active /\ t.resume = s.resume /\ t.queue = s.queue
    /\ t.cleanupPriority = s.cleanupPriority /\ t.discard = s.discard
    /\ t.damagePending = s.damagePending /\ t.combat = s.combat /\ t.priority = s.priority
    /\ s.lost \subseteq t.lost
    /\ Terminal(s) => Terminal(t)
    /\ t.choice.kind \in {"Cast", "Attack"} => t.choice.kind = s.choice.kind
    /\ SameRound(s, t)

\* Doing nothing stays within a step.
LEMMA KeepsSelf ==
    ASSUME NEW s \in State PROVE Keeps(s, s)
  BY FollowsSelf DEF Keeps

\* Two operations within a step, one after the other.
LEMMA KeepsChain ==
    ASSUME NEW s \in State, NEW t, NEW u, Keeps(s, t), Keeps(t, u) PROVE Keeps(s, u)
  <1>1. Follows(s, u)
    BY FollowsChain DEF Keeps
  <1> QED  BY <1>1 DEF Keeps

\* A quiet change stays within a step and keeps the shape.
LEMMA QuietKeeps ==
    ASSUME NEW s \in State, NEW t, Quiet(s, t) PROVE Keeps(s, t)
  <1>1. CombatShrinks(s.combat, t.combat)
    BY CombatShrinksSelf DEF Quiet, State
  <1>2. Follows(s, t)
    BY <1>1 DEF Quiet, Follows
  <1>3. Shape(s) => Shape(t)
    BY <1>2, ShapeFrame DEF Quiet
  <1> QED  BY <1>2, <1>3 DEF Keeps, Quiet

\* Starting the round of passes afresh.
LEMMA ResetPassesKeeps ==
    ASSUME NEW s \in State PROVE Keeps(s, ResetPasses(s))
  BY ResetPassesFollows DEF Keeps

\* Putting an object on the stack.
LEMMA PushKeeps ==
    ASSUME NEW s \in State, NEW p \in Seat, s.plays < MaxPlays PROVE Keeps(s, Push(s, p))
  <1> DEFINE t == Push(s, p)
  <1>1. t \in State
    BY PushType
  <1>2. Quiet(s, t)
    BY <1>1 DEF Push, ResetPasses, State, Quiet, SameRound, Terminal
  <1> QED  BY <1>2, QuietKeeps

\* A question of a parked resolution or of a trigger.
LEMMA AskKeeps ==
    ASSUME NEW s \in State, NEW p \in Seat, NEW kind \in {"Resolution", "Trigger"}
    PROVE  Keeps(s, Ask(s, kind, p))
  <1> DEFINE q == [kind |-> kind, player |-> p]
  <1>1. q \in Choice /\ q.kind \notin {"Cast", "Attack"}
    BY SeatsAssumption DEF Choice, Seat
  <1>2. Ask(s, kind, p) = [s EXCEPT !.choice = q]
    BY DEF Ask
  <1> HIDE DEF q
  <1>3. Quiet(s, [s EXCEPT !.choice = q])
    BY <1>1 DEF State, Quiet, SameRound, Terminal
  <1> QED  BY <1>2, <1>3, QuietKeeps

\* Parking a resolution on a question.
LEMMA ParkedKeeps ==
    ASSUME NEW s \in State, NEW t \in Parked(s) PROVE Keeps(s, t)
  BY AskKeeps DEF Parked, Live

\* Ending a transaction changes nothing else.
LEMMA CloseKeeps ==
    ASSUME NEW s \in State PROVE Keeps(s, [s EXCEPT !.choice = NoChoice])
  <1>1. NoChoice \in Choice /\ NoChoice.kind = "None"
    BY SeatsAssumption DEF NoChoice, Choice, NoSeat
  <1>2. Quiet(s, [s EXCEPT !.choice = NoChoice])
    BY <1>1 DEF State, Quiet, SameRound, Terminal
  <1> QED  BY <1>2, QuietKeeps

\* Marking players who are about to lose changes nothing else.
LEMMA MarkKeeps ==
    ASSUME NEW s \in State, NEW D \in SUBSET Seat, NEW C \in SUBSET Seat
    PROVE  /\ Keeps(s, [s EXCEPT !.doomed = D])
           /\ Keeps(s, [s EXCEPT !.doomed = D, !.crushed = C])
  <1>1. Quiet(s, [s EXCEPT !.doomed = D]) /\ Quiet(s, [s EXCEPT !.doomed = D, !.crushed = C])
    BY DEF State, Quiet, SameRound, Terminal
  <1> QED  BY <1>1, QuietKeeps

\* flush_triggers: nothing, an object on the stack, or a question.
LEMMA FlushTriggersKeeps ==
    ASSUME NEW s \in State, NEW f \in FlushTriggers(s) PROVE Keeps(s, f)
  <1>1. CASE f = s
    BY <1>1, KeepsSelf
  <1>2. CASE s.plays < MaxPlays /\ \E p \in Live(s) : f = Push(s, p)
    BY <1>2, PushKeeps DEF Live
  <1>3. CASE \E p \in Live(s) : f = Ask(s, "Trigger", p)
    BY <1>3, AskKeeps DEF Live
  <1> QED  BY <1>1, <1>2, <1>3 DEF FlushTriggers

\* sweep_life takes players out of the game and may end it.
LEMMA SweepLifeKeeps ==
    ASSUME NEW s, Sound(s), ~Terminal(s) PROVE Keeps(s, SweepLife(s))
  <1> DEFINE o == OutcomeOf(Live(s) \ s.doomed)
             L == s.lost \cup s.doomed
  <1>1. s \in State /\ SweepLife(s) \in State
    BY SweepLifeSound DEF Sound
  <1>2. SweepLife(s) = [s EXCEPT !.lost = L, !.doomed = {}, !.outcome = o]
    BY DEF SweepLife
  <1>3. s.lost \subseteq L
    OBVIOUS
  <1> HIDE DEF o, L
  <1>4. Quiet(s, SweepLife(s))
    BY <1>1, <1>2, <1>3 DEF State, Quiet, SameRound
  <1> QED  BY <1>1, <1>4, QuietKeeps

\* What is recorded about a group's assignment leaves the declarations alone.
LEMMA NoNeedFields ==
    ASSUME NEW c \in Combat, NEW d
    PROVE  /\ NoNeed(c, d) \in Combat /\ NoNeed(c, d).on = c.on
           /\ NoNeed(c, d).waiting = c.waiting /\ NoNeed(c, d).blocked = c.blocked
           /\ NoNeed(c, d).attacked = c.attacked /\ NoNeed(c, d).needs \subseteq c.needs
  BY DEF NoNeed, Combat

LEMMA CoverOrNotFields ==
    ASSUME NEW c \in Combat, NEW d \in Seat, NEW x \in CoverOrNot(c, d)
    PROVE  /\ x \in Combat /\ x.on = c.on /\ x.waiting = c.waiting /\ x.blocked = c.blocked
           /\ x.attacked = c.attacked /\ x.needs = c.needs
  <1>1. CASE x = [c EXCEPT !.short = @ \ {d}]
    BY <1>1 DEF Combat
  <1>2. CASE x = [c EXCEPT !.short = @ \cup {d}]
    BY <1>2 DEF Combat
  <1> QED  BY <1>1, <1>2 DEF CoverOrNot

\* Creatures that leave combat leave the block declarations as they are.
LEMMA RemovalsShrink ==
    ASSUME NEW c \in Combat, NEW x \in Removals(c)
    PROVE  /\ CombatShrinks(c, x) /\ x.waiting = c.waiting /\ x.blocked = c.blocked
           /\ x.attacked \subseteq c.attacked /\ x.needs \subseteq c.needs
  <1>1. PICK y : /\ x = Recomputed(y)
                 /\ \/ \E d \in c.attacked :
                          y = [NoNeed(c, d) EXCEPT !.attacked = @ \ {d}, !.blocks = @ \ {d}]
                    \/ \E d \in c.blocks : y = NoNeed(c, d)
                    \/ \E d \in c.needs \ c.thinned :
                          y \in CoverOrNot([c EXCEPT !.assigned = @ \ {d},
                                                     !.thinned = @ \cup {d}], d)
    BY DEF Removals
  <1>2. c # NoCombat
    <2>1. c.attacked # {} \/ c.blocks # {} \/ c.needs # {}
      BY <1>1
    <2> QED  BY <2>1 DEF NoCombat
  <1>3. /\ y \in Combat /\ y.on = c.on /\ y.waiting = c.waiting /\ y.blocked = c.blocked
        /\ y.attacked \subseteq c.attacked /\ y.needs \subseteq c.needs
    <2>1. ASSUME NEW d \in c.attacked,
                 y = [NoNeed(c, d) EXCEPT !.attacked = @ \ {d}, !.blocks = @ \ {d}]
          PROVE  /\ y \in Combat /\ y.on = c.on /\ y.waiting = c.waiting /\ y.blocked = c.blocked
                 /\ y.attacked \subseteq c.attacked /\ y.needs \subseteq c.needs
      <3> DEFINE n == NoNeed(c, d)
      <3>1. /\ n \in Combat /\ n.on = c.on /\ n.waiting = c.waiting /\ n.blocked = c.blocked
            /\ n.attacked = c.attacked /\ n.needs \subseteq c.needs
        BY NoNeedFields
      <3> HIDE DEF n
      <3>2. y = [n EXCEPT !.attacked = n.attacked \ {d}, !.blocks = n.blocks \ {d}]
        BY <2>1 DEF n
      <3> QED  BY <3>1, <3>2 DEF Combat
    <2>2. ASSUME NEW d \in c.blocks, y = NoNeed(c, d)
          PROVE  /\ y \in Combat /\ y.on = c.on /\ y.waiting = c.waiting /\ y.blocked = c.blocked
                 /\ y.attacked \subseteq c.attacked /\ y.needs \subseteq c.needs
      BY <2>2, NoNeedFields
    <2>3. ASSUME NEW d \in c.needs \ c.thinned,
                 y \in CoverOrNot([c EXCEPT !.assigned = @ \ {d}, !.thinned = @ \cup {d}], d)
          PROVE  /\ y \in Combat /\ y.on = c.on /\ y.waiting = c.waiting /\ y.blocked = c.blocked
                 /\ y.attacked \subseteq c.attacked /\ y.needs \subseteq c.needs
      <3> DEFINE e == [c EXCEPT !.assigned = @ \ {d}, !.thinned = @ \cup {d}]
      <3>1. /\ e \in Combat /\ e.on = c.on /\ e.waiting = c.waiting /\ e.blocked = c.blocked
            /\ e.attacked = c.attacked /\ e.needs = c.needs /\ d \in Seat
        BY DEF Combat
      <3> HIDE DEF e
      <3>2. y \in CoverOrNot(e, d)
        BY <2>3 DEF e
      <3> QED  BY <3>1, <3>2, CoverOrNotFields
    <2> QED  BY <1>1, <2>1, <2>2, <2>3
  <1>4. /\ x \in Combat /\ x.on = y.on /\ x.waiting = y.waiting /\ x.blocked = y.blocked
        /\ x.attacked = y.attacked /\ x.needs = y.needs
    BY <1>1, <1>3 DEF Recomputed, Missing, Combat
  <1> QED  BY <1>2, <1>3, <1>4 DEF CombatShrinks

\* A combat that only shrinks, with the block declarations as they were.
LEMMA CombatKeeps ==
    ASSUME NEW s \in State, NEW c, CombatShrinks(s.combat, c),
           c.waiting = s.combat.waiting, c.blocked = s.combat.blocked
    PROVE  Keeps(s, [s EXCEPT !.combat = c])
  <1> DEFINE t == [s EXCEPT !.combat = c]
  <1>0. c \in Combat
    BY DEF CombatShrinks
  <1>1. /\ t \in State /\ t.step = s.step /\ t.active = s.active /\ t.resume = s.resume
        /\ t.queue = s.queue /\ t.cleanupPriority = s.cleanupPriority /\ t.lost = s.lost
        /\ t.outcome = s.outcome /\ t.discard = s.discard /\ t.damagePending = s.damagePending
        /\ t.choice = s.choice /\ t.combat = c /\ t.priority = s.priority
        /\ t.passes = s.passes /\ t.passed = s.passed
    BY <1>0 DEF State
  <1> HIDE DEF t
  <1>2. Follows(s, t)
    BY <1>1 DEF Follows, Terminal, SameRound
  <1>3. Shape(s) => Shape(t)
    BY <1>1, <1>2, ShapeFrame
  <1> QED  BY <1>1, <1>2, <1>3 DEF Keeps, t

\* apply_sbas takes players out of the game and creatures out of combat.
LEMMA ApplySbasKeeps ==
    ASSUME NEW s \in State, NEW a \in ApplySbas(s) PROVE Keeps(s, a)
  <1>1. PICK c : /\ c = s.combat \/ c \in Removals(s.combat)
                 /\ a = [s EXCEPT !.lost = s.lost \cup s.crushed, !.crushed = {}, !.combat = c]
    BY DEF ApplySbas
  <1>2. CombatShrinks(s.combat, c) /\ c.waiting = s.combat.waiting /\ c.blocked = s.combat.blocked
    BY <1>1, RemovalsShrink, CombatShrinksSelf DEF State
  <1> DEFINE b == [s EXCEPT !.combat = c]
             L == s.lost \cup s.crushed
  <1>3. Keeps(s, b)
    BY <1>2, CombatKeeps
  <1>4. c \in Combat /\ b \in State
    BY <1>2, <1>3 DEF CombatShrinks, Keeps, Follows
  <1>5. L \in SUBSET Seat /\ s.lost \subseteq L
    BY DEF State
  <1>6. a = [b EXCEPT !.lost = L, !.crushed = {}] /\ b.lost = s.lost
    BY <1>1, <1>4 DEF State
  <1> HIDE DEF b, L
  <1>7. Quiet(b, a)
    BY <1>4, <1>5, <1>6 DEF State, Quiet, SameRound, Terminal
  <1> QED  BY <1>3, <1>4, <1>7, QuietKeeps, KeepsChain

\* The priority window owed after combat damage opens in a damage step only.
LEMMA PublishKeeps ==
    ASSUME NEW s \in State, Live(s) # {} PROVE Keeps(s, PublishCombatPriority(s))
  <1>1. CASE ~(s.damagePending /\ ~Parking(s))
    BY <1>1, KeepsSelf DEF PublishCombatPriority
  <1>2. CASE s.damagePending /\ ~Parking(s)
    <2> DEFINE n == ActiveOrNext(s)
               t == ResetPasses([s EXCEPT !.priority = n, !.damagePending = FALSE])
    <2>1. n \in Seat
      BY ActiveOrNextIsLive
    <2>2. PublishCombatPriority(s) = t
      BY <1>2 DEF PublishCombatPriority
    <2> HIDE DEF n
    <2>3. /\ t \in State /\ t.step = s.step /\ t.active = s.active /\ t.resume = s.resume
          /\ t.queue = s.queue /\ t.cleanupPriority = s.cleanupPriority /\ t.lost = s.lost
          /\ t.outcome = s.outcome /\ t.discard = s.discard /\ t.damagePending = FALSE
          /\ t.choice = s.choice /\ t.combat = s.combat
          /\ t.passes = 0 /\ t.passed = {}
      BY <2>1 DEF ResetPasses, State
    <2> HIDE DEF t
    <2>4. CombatShrinks(s.combat, t.combat)
      BY <2>3, CombatShrinksSelf DEF State
    <2>5. Follows(s, t)
      BY <2>3, <2>4 DEF Follows, Terminal, SameRound
    <2>6. Shape(s) => s.step # "DeclareBlockers"
      BY <1>2 DEF Shape, DamageDue, DamageStepsOnly
    <2>7. Shape(s) => Shape(t)
      BY <2>3, <2>5, <2>6, ShapeFrame
    <2> QED  BY <2>2, <2>3, <2>5, <2>7 DEF Keeps
  <1> QED  BY <1>1, <1>2

\* finish_terminal_batch drops what the game was waiting for.
LEMMA FinishTerminalKeeps ==
    ASSUME NEW s, Sound(s), Terminal(s) PROVE Keeps(s, FinishTerminal(s))
  <1> DEFINE c == IF s.choice.kind = "Attack" THEN s.choice ELSE NoChoice
             t == FinishTerminal(s)
  <1>1. /\ s \in State /\ t \in State
        /\ c.kind \in {"Cast", "Attack"} => c.kind = s.choice.kind
    BY FinishTerminalSound DEF NoChoice, Sound, Settled
  <1>2. t = [s EXCEPT !.choice = c, !.damagePending = FALSE, !.discard = NoSeat]
    BY DEF FinishTerminal
  <1> HIDE DEF c, t
  <1>3. /\ t.step = s.step /\ t.active = s.active /\ t.resume = s.resume
        /\ t.queue = s.queue /\ t.cleanupPriority = s.cleanupPriority /\ t.lost = s.lost
        /\ t.outcome = s.outcome /\ t.damagePending = FALSE
        /\ t.choice = c /\ t.combat = s.combat /\ t.priority = s.priority
        /\ t.passes = s.passes /\ t.passed = s.passed
    BY <1>1, <1>2 DEF State
  <1>4. CombatShrinks(s.combat, t.combat)
    BY <1>1, <1>3, CombatShrinksSelf DEF State
  <1>5. Follows(s, t)
    BY <1>1, <1>3, <1>4 DEF Follows, Terminal, SameRound
  <1>6. Shape(s) => Shape(t)
    BY <1>3, <1>5, ShapeFrame
  <1> QED  BY <1>3, <1>5, <1>6 DEF Keeps, t

-----------------------------------------------------------------------------
(***************************************************************************)
(* Departures.                                                             *)
(***************************************************************************)

\* Nothing of the players in `gone` is left on the stack or in combat.
Clean(s, gone) ==
    /\ \A e \in s.stack : e[2] \notin gone
    /\ s.combat.attacked \cap gone = {}
    /\ s.combat.waiting \cap gone = {}

\* Apart from the block declarations the shape survives whatever follows.
LEMMA FollowsShape ==
    ASSUME NEW s, Shape(s), NEW t, Follows(s, t)
    PROVE  Scoped(t) /\ DamageDue(t) /\ Accounted(t) /\ t.active \notin t.combat.waiting
  <1>1. Scoped(t)
    BY DEF Shape, Scoped, Follows, CombatShrinks
  <1>2. DamageDue(t)
    BY DEF Shape, DamageDue, Follows
  <1>3. Accounted(t)
    BY DEF Shape, Accounted, Follows
  <1>4. t.active \notin t.combat.waiting
    BY DEF Shape, BlocksDue, Follows, CombatShrinks
  <1> QED  BY <1>1, <1>2, <1>3, <1>4

\* Combat without the players who left.
LEMMA WithoutDefendersShrinks ==
    ASSUME NEW c \in Combat, NEW gone
    PROVE  /\ CombatShrinks(c, WithoutDefenders(c, gone))
           /\ WithoutDefenders(c, gone).blocked = c.blocked
           /\ WithoutDefenders(c, gone).waiting = c.waiting \ gone
           /\ WithoutDefenders(c, gone).attacked = c.attacked \ gone
           /\ WithoutDefenders(c, gone).needs = c.needs \ gone
  <1> DEFINE d == WithoutDefenders(c, gone)
  <1>1. d \in Combat
    BY WithoutDefendersType
  <1>2. /\ d.on = c.on /\ d.blocked = c.blocked /\ d.waiting = c.waiting \ gone
        /\ d.attacked = c.attacked \ gone /\ d.needs = c.needs \ gone
    BY DEF WithoutDefenders, Combat
  <1>3. ASSUME c = NoCombat PROVE d = NoCombat
    <2>1. NoCombat \in Combat
      BY NoCombatType
    <2>2. /\ d.on = c.on /\ d.declared = c.declared /\ d.blocked = c.blocked
          /\ d.needed = c.needed /\ d.assign = c.assign /\ d.firstDone = c.firstDone
      BY DEF WithoutDefenders, Combat
    <2>3. /\ d.attacked = c.attacked \ gone /\ d.waiting = c.waiting \ gone
          /\ d.blocks = c.blocks \ gone /\ d.needs = c.needs \ gone
          /\ d.assigned = c.assigned \ gone /\ d.thinned = c.thinned \ gone
          /\ d.short = c.short \ gone
      BY DEF WithoutDefenders, Combat
    <2>4. /\ c.attacked = {} /\ c.waiting = {} /\ c.blocks = {} /\ c.needs = {}
          /\ c.assigned = {} /\ c.thinned = {} /\ c.short = {}
      BY <1>3 DEF NoCombat
    <2>5. /\ d.attacked = c.attacked /\ d.waiting = c.waiting /\ d.blocks = c.blocks
          /\ d.needs = c.needs /\ d.assigned = c.assigned /\ d.thinned = c.thinned
          /\ d.short = c.short
      BY <2>3, <2>4
    <2> HIDE DEF d
    <2>6. d = c
      BY <1>1, <2>2, <2>5 DEF Combat
    <2> QED  BY <1>3, <2>6
  <1> HIDE DEF d
  <1>4. CombatShrinks(c, d)
    BY <1>1, <1>2, <1>3 DEF CombatShrinks
  <1> QED  BY <1>2, <1>4 DEF d

\* The queue of block declarations moves on to the first defender left in it, or
\* the declaration is complete.
LEMMA ReconcileBlocksFollows ==
    ASSUME NEW s \in State, Live(s) # {}
    PROVE  /\ Follows(s, ReconcileBlocks(s)) /\ ReconcileBlocks(s).queue = s.queue
           /\ ReconcileBlocks(s).stack = s.stack /\ ReconcileBlocks(s).lost = s.lost
           /\ ReconcileBlocks(s).choice = s.choice
           /\ ReconcileBlocks(s).combat.attacked = s.combat.attacked
           /\ ReconcileBlocks(s).combat.waiting = s.combat.waiting
           /\ ReconcileBlocks(s).combat.needs = s.combat.needs
           /\ s.step = "DeclareBlockers" /\ s.combat.on /\ ~ReconcileBlocks(s).combat.blocked =>
                 /\ s.combat.waiting # {}
                 /\ ReconcileBlocks(s).priority = FirstAfter(s.active, s.combat.waiting)
  <1> DEFINE d == ReconcileBlocks(s)
             n == FirstAfter(s.active, s.combat.waiting)
             m == ActiveOrNext(s)
             c == [s.combat EXCEPT !.blocked = TRUE]
  <1>0. s.combat \in Combat
    BY DEF State
  <1>1. CASE s.step # "DeclareBlockers" \/ ~s.combat.on \/ s.combat.blocked
    <2>1. d = s
      BY <1>1 DEF ReconcileBlocks
    <2> QED  BY <1>1, <2>1, FollowsSelf
  <1>2. CASE ~(s.step # "DeclareBlockers" \/ ~s.combat.on \/ s.combat.blocked)
             /\ s.combat.waiting # {}
    <2>1. n \in Seat
      BY <1>2, FirstAfterInSet DEF State, Combat
    <2>2. d = ResetPasses([s EXCEPT !.priority = n])
      BY <1>2 DEF ReconcileBlocks
    <2> HIDE DEF n, d
    <2>3. /\ d \in State /\ d.step = s.step /\ d.active = s.active /\ d.resume = s.resume
          /\ d.queue = s.queue /\ d.cleanupPriority = s.cleanupPriority /\ d.lost = s.lost
          /\ d.outcome = s.outcome /\ d.discard = s.discard /\ d.damagePending = s.damagePending
          /\ d.choice = s.choice /\ d.combat = s.combat /\ d.priority = n /\ d.stack = s.stack
          /\ d.passes = 0 /\ d.passed = {}
      BY <2>1, <2>2 DEF ResetPasses, State
    <2>4. Follows(s, d)
      BY <1>0, <2>3, CombatShrinksSelf DEF Follows, Terminal, SameRound
    <2> QED  BY <1>2, <2>3, <2>4 DEF d, n
  <1>3. CASE ~(s.step # "DeclareBlockers" \/ ~s.combat.on \/ s.combat.blocked)
             /\ s.combat.waiting = {}
    <2>1. m \in Seat
      BY ActiveOrNextIsLive
    <2>2. d = ResetPasses([s EXCEPT !.combat = c, !.priority = m])
      BY <1>3 DEF ReconcileBlocks
    <2>3. /\ c \in Combat /\ c.on = s.combat.on /\ c.blocked /\ c.waiting = s.combat.waiting
          /\ c.attacked = s.combat.attacked /\ c.needs = s.combat.needs
      BY <1>0 DEF Combat
    <2>4. s.combat # NoCombat
      BY <1>3 DEF NoCombat
    <2>5. CombatShrinks(s.combat, c)
      BY <2>3, <2>4 DEF CombatShrinks
    <2> HIDE DEF m, c, d
    <2>6. /\ d \in State /\ d.step = s.step /\ d.active = s.active /\ d.resume = s.resume
          /\ d.queue = s.queue /\ d.cleanupPriority = s.cleanupPriority /\ d.lost = s.lost
          /\ d.outcome = s.outcome /\ d.discard = s.discard /\ d.damagePending = s.damagePending
          /\ d.choice = s.choice /\ d.combat = c /\ d.stack = s.stack
          /\ d.passes = 0 /\ d.passed = {}
      BY <2>1, <2>2, <2>3 DEF ResetPasses, State
    <2>7. Follows(s, d)
      BY <2>5, <2>6 DEF Follows, Terminal, SameRound
    <2> QED  BY <2>3, <2>6, <2>7 DEF d
  <1> QED  BY <1>1, <1>2, <1>3

\* Priority moves only when the player who had it left.
LEMMA ReconcilePriorityFollows ==
    ASSUME NEW s \in State, Live(s) # {}
    PROVE  /\ Follows(s, ReconcilePriority(s)) /\ ReconcilePriority(s).queue = s.queue
           /\ ReconcilePriority(s).stack = s.stack /\ ReconcilePriority(s).lost = s.lost
           /\ ReconcilePriority(s).combat = s.combat
           /\ s.priority \notin s.lost => ReconcilePriority(s) = s
  <1> DEFINE d == ReconcilePriority(s)
             n == NextInGame(s, s.priority)
  <1>1. CASE s.priority \notin s.lost
    BY <1>1, FollowsSelf DEF ReconcilePriority
  <1>2. CASE s.priority \in s.lost
    <2>1. n \in Seat
      BY NextInGameIsLive DEF State
    <2>2. d = ResetPasses([s EXCEPT !.priority = n])
      BY <1>2 DEF ReconcilePriority
    <2> HIDE DEF n, d
    <2>3. /\ d \in State /\ d.step = s.step /\ d.active = s.active /\ d.resume = s.resume
          /\ d.queue = s.queue /\ d.cleanupPriority = s.cleanupPriority /\ d.lost = s.lost
          /\ d.outcome = s.outcome /\ d.discard = s.discard /\ d.damagePending = s.damagePending
          /\ d.choice = s.choice /\ d.combat = s.combat /\ d.stack = s.stack
          /\ d.passes = 0 /\ d.passed = {}
      BY <2>1, <2>2 DEF ResetPasses, State
    <2>4. CombatShrinks(s.combat, s.combat)
      BY CombatShrinksSelf DEF State
    <2>5. Follows(s, d)
      BY <2>3, <2>4 DEF Follows, Terminal, SameRound
    <2> QED  BY <1>2, <2>3, <2>5 DEF d
  <1> QED  BY <1>1, <1>2

\* RemoveDeparted leaves nothing of the departed, and no assignment to make once
\* the active player is gone.
LEMMA RemoveDepartedFollows ==
    ASSUME NEW s \in State, NEW c \in Choice,
           c.kind \in {"Cast", "Attack"} => c.kind = s.choice.kind
    PROVE  LET b == [RemoveDeparted(s) EXCEPT !.choice = c]
           IN  /\ Follows(s, b) /\ b.queue = s.queue /\ b.lost = s.lost /\ b.choice = c
               /\ Clean(b, s.lost)
               /\ b.combat.blocked = s.combat.blocked
               /\ s.active \in s.lost => b.combat.needs = {}
  <1> DEFINE gone == IF s.active \in s.lost THEN Seat ELSE s.lost
             x == WithoutDefenders(s.combat, gone)
             k == {e \in s.stack : e[2] \notin s.lost}
             a == RemoveDeparted(s)
             b == [a EXCEPT !.choice = c]
  <1>1. s.combat \in Combat /\ s.lost \subseteq gone /\ s.lost \subseteq Seat
    BY DEF State
  <1>2. /\ CombatShrinks(s.combat, x) /\ x.blocked = s.combat.blocked
        /\ x.waiting = s.combat.waiting \ gone /\ x.attacked = s.combat.attacked \ gone
        /\ x.needs = s.combat.needs \ gone
    BY <1>1, WithoutDefendersShrinks
  <1>3. s.active \in s.lost => x.needs = {}
    BY <1>1, <1>2 DEF Combat
  <1>4. a = [s EXCEPT !.stack = k, !.combat = x]
    BY DEF RemoveDeparted
  <1>5. a \in State
    BY RemoveDepartedType
  <1>6. \A e \in k : e[2] \notin s.lost
    OBVIOUS
  <1> HIDE DEF gone, x, k, a
  <1>7. /\ b \in State /\ b.choice = c /\ b.stack = a.stack /\ b.combat = a.combat
        /\ b.step = a.step /\ b.active = a.active /\ b.resume = a.resume
        /\ b.queue = a.queue /\ b.cleanupPriority = a.cleanupPriority /\ b.lost = a.lost
        /\ b.outcome = a.outcome /\ b.discard = a.discard /\ b.damagePending = a.damagePending
        /\ b.priority = a.priority /\ b.passes = a.passes /\ b.passed = a.passed
    BY <1>5 DEF State
  <1>8. /\ a.stack = k /\ a.combat = x
        /\ a.step = s.step /\ a.active = s.active /\ a.resume = s.resume
        /\ a.queue = s.queue /\ a.cleanupPriority = s.cleanupPriority /\ a.lost = s.lost
        /\ a.outcome = s.outcome /\ a.discard = s.discard /\ a.damagePending = s.damagePending
        /\ a.priority = s.priority /\ a.passes = s.passes /\ a.passed = s.passed
    BY <1>4 DEF State
  <1> HIDE DEF b
  <1>9. Follows(s, b)
    BY <1>2, <1>7, <1>8 DEF Follows, Terminal, SameRound
  <1>10. Clean(b, s.lost)
    BY <1>1, <1>2, <1>6, <1>7, <1>8 DEF Clean
  <1>11. /\ b.queue = s.queue /\ b.lost = s.lost /\ b.choice = c
         /\ b.combat.blocked = s.combat.blocked /\ (s.active \in s.lost => b.combat.needs = {})
    BY <1>2, <1>3, <1>7, <1>8
  <1> QED  BY <1>9, <1>10, <1>11 DEF b, a

\* reconcile_departed_players keeps the shape, the unfinished block declaration
\* included, and leaves nothing of the departed behind.
LEMMA ReconcileDepartedKeeps ==
    ASSUME NEW s, Sound(s), NEW r \in ReconcileDeparted(s)
    PROVE  /\ Keeps(s, r) /\ r.lost = s.lost
           /\ ~Terminal(s) => Clean(r, s.lost) /\ (s.active \in s.lost => r.combat.needs = {})
  <1>1. s \in State
    BY DEF Sound
  <1>2. CASE Terminal(s) \/ s.lost = {}
    <2>1. r = s
      BY <1>2 DEF ReconcileDeparted
    <2> QED  BY <1>1, <1>2, <2>1, KeepsSelf DEF Clean
  <1>3. CASE ~(Terminal(s) \/ s.lost = {})
    <2>1. PICK c \in ChoicesAfterDeparture(s) :
              r = ReconcilePriority(ReconcileBlocks([RemoveDeparted(s) EXCEPT !.choice = c]))
      BY <1>3 DEF ReconcileDeparted
    <2> DEFINE b == [RemoveDeparted(s) EXCEPT !.choice = c]
               d == ReconcileBlocks(b)
    <2>2. c \in Choice /\ (c.kind \in {"Cast", "Attack"} => c.kind = s.choice.kind)
      BY ChoicesAfterDepartureSound
    <2>3. /\ Follows(s, b) /\ b.queue = s.queue /\ b.lost = s.lost /\ b.choice = c
          /\ Clean(b, s.lost) /\ b.combat.blocked = s.combat.blocked
          /\ s.active \in s.lost => b.combat.needs = {}
      BY <1>1, <2>2, RemoveDepartedFollows
    <2>4. Live(s) # {}
      BY <1>3 DEF Sound, Terminal
    <2> HIDE DEF b
    <2>5. b \in State /\ Live(b) # {}
      BY <2>3, <2>4 DEF Follows, Live
    <2>6. /\ Follows(b, d) /\ d.queue = b.queue /\ d.stack = b.stack /\ d.lost = b.lost
          /\ d.choice = b.choice
          /\ d.combat.attacked = b.combat.attacked /\ d.combat.waiting = b.combat.waiting
          /\ d.combat.needs = b.combat.needs
          /\ b.step = "DeclareBlockers" /\ b.combat.on /\ ~d.combat.blocked =>
                b.combat.waiting # {} /\ d.priority = FirstAfter(b.active, b.combat.waiting)
      BY <2>5, ReconcileBlocksFollows
    <2> HIDE DEF d
    <2>7. d \in State /\ Live(d) # {}
      BY <2>5, <2>6 DEF Follows, Live
    <2>8. /\ Follows(d, r) /\ r.queue = d.queue /\ r.stack = d.stack /\ r.lost = d.lost
          /\ r.combat = d.combat /\ (d.priority \notin d.lost => r = d)
      BY <2>1, <2>7, ReconcilePriorityFollows DEF b, d
    <2>9. Follows(s, r)
      BY <1>1, <2>3, <2>5, <2>6, <2>7, <2>8, FollowsChain
    <2>10. ASSUME Shape(s) PROVE Shape(r)
      <3>1. Scoped(r) /\ DamageDue(r) /\ Accounted(r) /\ r.active \notin r.combat.waiting
        BY <2>9, <2>10, FollowsShape
      <3>2. ASSUME r.step = "DeclareBlockers", ~r.combat.blocked
            PROVE  /\ r.combat.waiting # {}
                   /\ r.priority = FirstAfter(r.active, r.combat.waiting)
                   /\ r.choice.kind # "Cast"
        <4>1. s.step = "DeclareBlockers" /\ ~s.combat.blocked
          BY <2>9, <3>2 DEF Follows, CombatShrinks
        <4>2. s.choice.kind # "Cast"
          BY <2>10, <4>1 DEF Shape, BlocksDue
        <4>3. b.step = "DeclareBlockers" /\ b.combat.on /\ b.active = s.active
          BY <2>3, <2>10, <4>1 DEF Follows, CombatShrinks, Shape, Scoped, CombatSteps
        <4>4. b.combat.waiting # {} /\ d.priority = FirstAfter(b.active, b.combat.waiting)
          BY <2>6, <2>8, <3>2, <4>3
        <4>5. b.active \in Seat /\ b.combat.waiting \in SUBSET Seat
          BY <2>5 DEF State, Combat
        <4>6. d.priority \in b.combat.waiting
          BY <4>4, <4>5, FirstAfterInSet
        <4>7. r = d
          BY <2>3, <2>6, <2>8, <4>6 DEF Clean
        <4> QED  BY <2>6, <2>9, <4>2, <4>4, <4>7 DEF Follows
      <3> QED  BY <3>1, <3>2 DEF Shape, BlocksDue
    <2>11. Clean(r, s.lost)
      BY <2>3, <2>6, <2>8 DEF Clean
    <2> QED  BY <2>3, <2>6, <2>8, <2>9, <2>10, <2>11 DEF Keeps
  <1> QED  BY <1>2, <1>3

-----------------------------------------------------------------------------
(***************************************************************************)
(* Settlement.                                                             *)
(***************************************************************************)

\* State-based actions put nothing of departed players back.
LEMMA ApplySbasClean ==
    ASSUME NEW s \in State, NEW a \in ApplySbas(s), NEW gone
    PROVE  /\ Clean(s, gone) => Clean(a, gone)
           /\ a.combat.needs \subseteq s.combat.needs
           /\ a.doomed = s.doomed /\ a.lost = s.lost \cup s.crushed
  <1>1. PICK c : /\ c = s.combat \/ c \in Removals(s.combat)
                 /\ a = [s EXCEPT !.lost = s.lost \cup s.crushed, !.crushed = {}, !.combat = c]
    BY DEF ApplySbas
  <1>2. /\ c.waiting = s.combat.waiting /\ c.attacked \subseteq s.combat.attacked
        /\ c.needs \subseteq s.combat.needs
    BY <1>1, RemovalsShrink DEF State
  <1>3. /\ a.combat = c /\ a.stack = s.stack /\ a.doomed = s.doomed
        /\ a.lost = s.lost \cup s.crushed
    BY <1>1 DEF State
  <1> QED  BY <1>2, <1>3 DEF Clean

\* Triggers are put on the stack by players in the game.
LEMMA FlushTriggersClean ==
    ASSUME NEW s \in State, NEW f \in FlushTriggers(s), NEW gone, gone \subseteq s.lost,
           Clean(s, gone)
    PROVE  Clean(f, gone)
  <1>1. CASE f = s
    BY <1>1
  <1>2. ASSUME NEW p \in Live(s), f = Push(s, p) PROVE Clean(f, gone)
    <2>1. f.stack = s.stack \cup {<<s.plays + 1, p>>} /\ f.combat = s.combat
      BY <1>2 DEF Push, ResetPasses, State
    <2>2. <<s.plays + 1, p>>[2] = p /\ p \notin gone
      BY DEF Live
    <2> QED  BY <2>1, <2>2 DEF Clean
  <1>3. ASSUME NEW p \in Live(s), f = Ask(s, "Trigger", p) PROVE Clean(f, gone)
    BY <1>3 DEF Ask, State, Clean
  <1> QED  BY <1>1, <1>2, <1>3 DEF FlushTriggers

\* Opening the priority window changes priority and its round alone.
LEMMA PublishSame ==
    ASSUME NEW s \in State
    PROVE  LET u == PublishCombatPriority(s)
           IN  /\ u.lost = s.lost /\ u.doomed = s.doomed /\ u.stack = s.stack
               /\ u.combat = s.combat /\ u.choice = s.choice /\ u.active = s.active
               /\ u.outcome = s.outcome /\ u.step = s.step
               /\ s.choice.kind = "None" => ~u.damagePending
  BY DEF Parking,  PublishCombatPriority, ResetPasses, State

\* What settlement leaves: a state the game can rest in.
Rested(s) ==
    ~Terminal(s) /\ ~Unsettled(s) =>
        /\ s.doomed = {}
        /\ s.choice.kind = "None" /\ s.damagePending =>
              s.step = "CombatDamage" /\ s.passes = 0 /\ s.passed = {}
        /\ s.choice.kind = "None" /\ s.active \in s.lost => s.combat.needs = {}
        /\ s.step = "DeclareBlockers" => Clean(s, s.lost)

\* settle_command_batch stays within the step, keeps the shape, postpones losses
\* while a transaction is unfinished, and otherwise leaves nothing of those who
\* were gone when it began.
LEMMA SettleKeeps ==
    ASSUME NEW s, Pending(s), NEW u \in Settle(s)
    PROVE  /\ Keeps(s, u)
           /\ Terminal(s) \/ Unsettled(s) => u.lost = s.lost
           /\ ~Terminal(s) /\ ~Unsettled(s) => ~Unsettled(u)
           /\ ~Terminal(u) /\ ~Unsettled(u) => Clean(u, s.lost)
           /\ Shape(s) => Rested(u)
  <1>1. Sound(s) /\ s \in State
    BY DEF Pending, Sound
  <1>2. CASE Terminal(s)
    <2>1. u = FinishTerminal(s)
      BY <1>2 DEF Settle
    <2>2. Keeps(s, u) /\ u.lost = s.lost /\ Terminal(u)
      BY <1>1, <1>2, <2>1, FinishTerminalKeeps DEF Keeps, Follows, FinishTerminal, State
    <2> QED  BY <1>2, <2>2 DEF Rested
  <1>3. CASE ~Terminal(s) /\ Unsettled(s)
    <2>1. u = PublishCombatPriority(s)
      BY <1>3 DEF Settle
    <2>2. Live(s) # {}
      BY <1>1, <1>3 DEF Sound, Terminal
    <2>3. Keeps(s, u)
      BY <1>1, <2>1, <2>2, PublishKeeps
    <2>4. u.lost = s.lost /\ u.choice = s.choice
      BY <1>1, <2>1, PublishSame
    <2> QED  BY <1>3, <2>3, <2>4 DEF Rested, Unsettled
  <1>4. CASE ~Terminal(s) /\ ~Unsettled(s)
    <2> DEFINE w == SweepLife(s)
    <2>1. u \in SettleLosses(s)
      BY <1>4 DEF Settle
    <2>2. /\ Sound(w) /\ w.lost = s.lost \cup s.doomed /\ w.doomed = {}
          /\ w.choice = s.choice /\ w.crushed = s.crushed /\ w.active = s.active
          /\ w.damagePending = s.damagePending
      BY <1>1, SweepLifeSound
    <2>3. Keeps(s, w)
      BY <1>1, <1>4, SweepLifeKeeps
    <2>4. w \in State
      BY <2>2 DEF Sound
    <2> HIDE DEF w
    <2>5. CASE Terminal(w)
      <3>1. u = FinishTerminal(w)
        BY <2>1, <2>5 DEF SettleLosses, w
      <3>2. Keeps(w, u)
        BY <2>2, <2>5, <3>1, FinishTerminalKeeps
      <3>3. Keeps(s, u)
        BY <1>1, <2>3, <3>2, KeepsChain
      <3>4. Terminal(u)
        BY <2>5, <3>2 DEF Keeps, Follows
      <3>5. u.choice = NoChoice
        BY <1>4, <2>2, <2>4, <3>1 DEF FinishTerminal, State, Unsettled
      <3> QED  BY <1>4, <3>3, <3>4, <3>5 DEF Rested, Unsettled, NoChoice
    <2>6. CASE ~Terminal(w)
      <3>1. PICK r \in ReconcileDeparted(w) :
                \E x \in ApplySbas(r) : \E y \in FlushTriggers(x) : u = PublishCombatPriority(y)
        BY <2>1, <2>6 DEF SettleLosses, w
      <3>2. PICK a \in ApplySbas(r) : \E y \in FlushTriggers(a) : u = PublishCombatPriority(y)
        BY <3>1
      <3>3. PICK f \in FlushTriggers(a) : u = PublishCombatPriority(f)
        BY <3>2
      <3>4. /\ Keeps(w, r) /\ r.lost = w.lost /\ Clean(r, w.lost)
            /\ w.active \in w.lost => r.combat.needs = {}
        BY <2>2, <2>6, ReconcileDepartedKeeps
      <3>5. /\ Sound(r) /\ r.choice.kind \in {"None", w.choice.kind} /\ r.active = w.active
            /\ r.doomed = w.doomed /\ r.crushed = w.crushed /\ r.outcome = w.outcome
            /\ r.damagePending = w.damagePending
            /\ r.active \in r.lost => r.combat.attacked = {}
        BY <2>2, <2>6, ReconcileDepartedSound
      <3>6. r \in State
        BY <3>5 DEF Sound
      <3>7. Keeps(r, a)
        BY <3>6, ApplySbasKeeps
      <3>8. /\ Clean(a, w.lost) /\ a.combat.needs \subseteq r.combat.needs
            /\ a.doomed = r.doomed /\ a.lost = r.lost \cup r.crushed
        BY <3>4, <3>6, ApplySbasClean
      <3>9. s.crushed # {} => /\ s.active \in Live(s)
                              /\ s.active \notin s.doomed \cup s.crushed
                              /\ s.damagePending /\ s.choice.kind = "None"
        BY <1>4 DEF Pending
      <3>10. ~Terminal(r) /\ (r.crushed # {} => r.active \in Live(r) \ r.crushed)
        BY <2>2, <2>6, <3>4, <3>5, <3>9 DEF Terminal, Live
      <3>11. Sound(a) /\ a \in State /\ a.choice = r.choice /\ a.active = r.active /\ ~Terminal(a)
        BY <3>5, <3>10, ApplySbasSound DEF Sound
      <3>12. Keeps(a, f)
        BY <3>11, FlushTriggersKeeps
      <3>13. /\ Sound(f) /\ f.lost = a.lost /\ f.active = a.active /\ f.combat = a.combat
             /\ f.doomed = a.doomed /\ f.outcome = a.outcome
             /\ f.choice = a.choice \/ f.choice.kind = "Trigger"
        BY <3>11, FlushTriggersSound
      <3>14. Clean(f, w.lost)
        BY <3>4, <3>8, <3>11, FlushTriggersClean
      <3>15. f \in State /\ Live(f) # {}
        BY <3>11, <3>13 DEF Sound, Terminal
      <3>16. Keeps(f, u)
        BY <3>3, <3>15, PublishKeeps
      <3>17. /\ u.lost = f.lost /\ u.doomed = f.doomed /\ u.stack = f.stack
             /\ u.combat = f.combat /\ u.choice = f.choice /\ u.active = f.active
             /\ f.choice.kind = "None" => ~u.damagePending
        BY <3>3, <3>15, PublishSame
      <3>18. Keeps(s, u)
        BY <1>1, <2>3, <2>4, <3>4, <3>6, <3>7, <3>11, <3>12, <3>15, <3>16, KeepsChain
      <3>19. ~Unsettled(u)
        BY <1>4, <2>2, <3>5, <3>11, <3>13, <3>17 DEF Unsettled
      <3>20. Clean(u, w.lost)
        BY <3>14, <3>17 DEF Clean
      <3>21. Clean(u, s.lost)
        BY <2>2, <3>20 DEF Clean
      <3>22. u.doomed = {} /\ u.lost = w.lost \cup s.crushed
        BY <2>2, <3>4, <3>5, <3>8, <3>13, <3>17
      <3>23. u.active \in u.lost => u.combat.needs = {}
        BY <2>2, <3>4, <3>5, <3>8, <3>9, <3>11, <3>13, <3>17, <3>22 DEF Live
      <3>24. ASSUME Shape(s), u.step = "DeclareBlockers" PROVE Clean(u, u.lost)
        <4>1. s.step = "DeclareBlockers"
          BY <3>18, <3>24 DEF Keeps, Follows
        <4>2. s.crushed = {}
          BY <3>9, <3>24, <4>1 DEF Shape, DamageDue, DamageStepsOnly
        <4> QED  BY <3>20, <3>22, <4>2
      <3> QED  BY <1>4, <3>17, <3>18, <3>19, <3>21, <3>22, <3>23, <3>24 DEF Rested
    <2> QED  BY <2>5, <2>6
  <1> QED  BY <1>2, <1>3, <1>4
=============================================================================
