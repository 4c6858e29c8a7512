-------------------------- MODULE PriorityTheorems --------------------------
(***************************************************************************)
(* Every command of the priority machine keeps the shape of combat, of     *)
(* block declarations and of cleanup, leaves nothing of departed players   *)
(* behind, counts passes fairly and moves the turn only by rolling it.     *)
(***************************************************************************)
EXTENDS PriorityShapes

\* What a command hands to settlement, and what settlement makes of it.
Commanded(s, t) ==
    /\ Pending(t) /\ Shape(t) /\ Turned(s, t)
    /\ Unsettled(s) => t.lost = s.lost
    /\ ~StructuredYield /\ RoundOK(s) => RoundOK(t)

Carried(s, u) ==
    /\ Shape(u) /\ Rested(u) /\ Turned(s, u)
    /\ Unsettled(s) /\ Unsettled(u) => \E p \in Seat : u.lost \subseteq s.lost \cup {p}
    /\ ~StructuredYield /\ RoundOK(s) => RoundOK(u)

\* The same for a command that was not refused: nothing of the departed is left.
Stepped(s, u) ==
    /\ Carried(s, u)
    /\ ~Terminal(u) /\ ~Unsettled(u) => Clean(u, s.lost)

\* The inductive invariant.
Resting == Inv /\ Shape(st) /\ Rested(st)

-----------------------------------------------------------------------------
(***************************************************************************)
(* From what a command does to what is left after settlement.              *)
(***************************************************************************)

\* What stays within the turn after a command does not disturb its turn order.
LEMMA TurnedKeeps ==
    ASSUME NEW s \in State, NEW t, Turned(s, t), NEW u, Keeps(t, u) PROVE Turned(s, u)
  <1>1. s.lost \subseteq u.lost /\ SameTurn(t, u)
    BY DEF Turned, Keeps, Follows, SameTurn
  <1>2. SameTurn(s, t) => SameTurn(s, u)
    BY <1>1 DEF SameTurn
  <1>3. Grants(s, t) => Grants(s, u)
    BY <1>1 DEF SameTurn, Grants
  <1>4. Rolls(s, t) => Rolls(s, u)
    BY <1>1 DEF SameTurn, Rolls
  <1> QED  BY <1>1, <1>2, <1>3, <1>4 DEF Turned

\* Nothing of a set of players is nothing of a smaller one.
LEMMA CleanFewer ==
    ASSUME NEW s, NEW gone, Clean(s, gone), NEW fewer, fewer \subseteq gone
    PROVE  Clean(s, fewer)
  BY DEF Clean

\* Staying within a round of passes keeps the round.
LEMMA KeepsRound ==
    ASSUME NEW s, RoundOK(s), NEW t, Keeps(s, t) PROVE RoundOK(t)
  BY RoundFrame DEF Keeps, Follows

\* Settlement of what a command did.
LEMMA SettleStepped ==
    ASSUME NEW s \in State, NEW t, Commanded(s, t), NEW u \in Settle(t) PROVE Stepped(s, u)
  <1>1. Pending(t) /\ Shape(t) /\ Turned(s, t) /\ s.lost \subseteq t.lost
    BY DEF Commanded, Turned
  <1>2. /\ Keeps(t, u)
        /\ Terminal(t) \/ Unsettled(t) => u.lost = t.lost
        /\ ~Terminal(t) /\ ~Unsettled(t) => ~Unsettled(u)
        /\ ~Terminal(u) /\ ~Unsettled(u) => Clean(u, t.lost)
        /\ Rested(u)
    BY <1>1, SettleKeeps
  <1>3. Shape(u) /\ Turned(s, u)
    BY <1>1, <1>2, TurnedKeeps DEF Keeps
  <1>4. ~Terminal(u) /\ ~Unsettled(u) => Clean(u, s.lost)
    BY <1>1, <1>2, CleanFewer
  <1>5. Unsettled(s) /\ Unsettled(u) => \E p \in Seat : u.lost \subseteq s.lost \cup {p}
    <2>1. 0 \in Seat
      BY SeatsAssumption DEF Seat
    <2> QED  BY <1>2, <2>1 DEF Commanded
  <1>6. ~StructuredYield /\ RoundOK(s) => RoundOK(u)
    BY <1>2, KeepsRound DEF Commanded
  <1> QED  BY <1>2, <1>3, <1>4, <1>5, <1>6 DEF Stepped, Carried

\* An accepted command is one of several states, settled.
LEMMA AcceptStepped ==
    ASSUME Resting, NEW S, \A t \in S : Commanded(st, t), Accept(S) PROVE Stepped(st, st')
  <1>1. st \in State
    BY DEF Resting, Inv, Settled, Sound
  <1>2. PICK t \in S : st' \in Settle(t)
    BY DEF Accept
  <1> QED  BY <1>1, <1>2, SettleStepped

\* Most commands go on from the state they find and stay in its round of passes.
LEMMA OnwardCommanded ==
    ASSUME NEW s \in State, NEW t, Onward(s, t), Pending(t), SameRound(s, t),
           Unsettled(s) => t.lost = s.lost
    PROVE  Commanded(s, t)
  <1>1. s.lost \subseteq t.lost
    BY DEF Onward, Turned
  <1>2. RoundOK(s) => RoundOK(t)
    BY <1>1, RoundFrame
  <1> QED  BY <1>2 DEF Commanded, Onward

\* A round that starts afresh belongs to every state.
LEMMA FreshRound ==
    ASSUME NEW s, NEW t, Fresh(t) PROVE SameRound(s, t)
  BY DEF Fresh, SameRound

\* A command that stays within the step.
LEMMA KeepsCommanded ==
    ASSUME NEW s \in State, Shape(s), NEW t, Keeps(s, t), Pending(t), t.lost = s.lost
    PROVE  Commanded(s, t)
  <1>1. Onward(s, t) /\ SameRound(s, t)
    BY KeepsOnward DEF Keeps, Follows
  <1> QED  BY <1>1, OnwardCommanded

\* A free player commands in a calm state that owes no priority window, unless the
\* second damage step was refused.
LEMMA FreeRested ==
    ASSUME Resting, NEW p \in Seat, Free(p)
    PROVE  /\ Calm(st) /\ Shape(st) /\ st \in State
           /\ st.damagePending => st.step = "CombatDamage"
           /\ ~Unsettled(st) /\ ~Terminal(st) /\ p \in Live(st) /\ st.priority \in Live(st)
           /\ st.choice.kind = "None"
  <1>1. Calm(st) /\ p \in Live(st) /\ st.priority \in Live(st)
    BY FreeCalm DEF Resting
  <1>2. st.choice.kind = "None" /\ ~Terminal(st) /\ st \in State
    BY <1>1, CalmLive DEF Calm
  <1>3. ~Unsettled(st)
    BY <1>2 DEF Unsettled
  <1> QED  BY <1>1, <1>2, <1>3 DEF Resting, Rested

\* t differs from s only in who has priority and who passed.
Moved(s, t) ==
    /\ t \in State /\ SameTurn(s, t)
    /\ t.lost = s.lost /\ t.outcome = s.outcome /\ t.step = s.step
    /\ t.combat = s.combat /\ t.choice = s.choice /\ t.stack = s.stack
    /\ t.damagePending = s.damagePending /\ t.discard = s.discard
    /\ t.cleanupPriority = s.cleanupPriority /\ t.doomed = s.doomed

\* Priority may move once the blocks are declared.
LEMMA MovedShape ==
    ASSUME NEW s, Shape(s), s.step = "DeclareBlockers" => s.combat.blocked, NEW t, Moved(s, t)
    PROVE  Shape(t)
  <1>1. Scoped(t) /\ DamageDue(t)
    BY DEF Moved, Shape, Scoped, DamageDue
  <1>2. BlocksDue(t)
    BY DEF Moved, SameTurn, Shape, BlocksDue
  <1>3. Accounted(t)
    BY DEF Moved, Shape, Accounted, Terminal
  <1> QED  BY <1>1, <1>2, <1>3 DEF Shape

-----------------------------------------------------------------------------
(***************************************************************************)
(* Passing.                                                                *)
(***************************************************************************)

\* Nobody passes in an unfinished block declaration: the defender who holds
\* priority is not the active player, and a defender's pass is a declaration.
LEMMA PassBlocked ==
    ASSUME Resting, NEW p \in Seat, MayPass(p), st.step = "DeclareBlockers"
    PROVE  st.combat.blocked
  <1> SUFFICES ASSUME ~st.combat.blocked PROVE FALSE
    OBVIOUS
  <1>1. /\ st.active \notin st.combat.waiting /\ st.combat.waiting # {}
        /\ st.priority = FirstAfter(st.active, st.combat.waiting)
    BY DEF Resting, Shape, BlocksDue
  <1>2. st.active \in Seat /\ st.combat.waiting \in SUBSET Seat
    BY DEF Resting, Inv, Settled, Sound, State, Combat
  <1>3. st.priority \in st.combat.waiting
    BY <1>1, <1>2, FirstAfterInSet
  <1> QED  BY <1>1, <1>3 DEF MayPass

\* Counting a pass moves priority and nothing else.
LEMMA CountPassMoves ==
    ASSUME Resting, NEW p \in Seat, MayPass(p)
    PROVE  LET t == CountPass(st)
               r == ResetPasses(t)
           IN  Moved(st, t) /\ Shape(t) /\ Moved(st, r) /\ Shape(r) /\ Fresh(r)
  <1> DEFINE n == NextInGame(st, st.priority)
             m == st.passes + 1
             P == st.passed \cup {st.priority}
             t == CountPass(st)
             r == ResetPasses(t)
  <1>1. st \in State /\ Shape(st) /\ Calm(st)
    BY FreeRested DEF MayPass
  <1>2. n \in Seat /\ m \in Nat /\ P \in SUBSET Seat
    BY <1>1, CalmLive, NextInGameIsLive DEF State
  <1>3. t = [st EXCEPT !.passes = m, !.passed = P, !.priority = n]
    BY DEF CountPass
  <1> HIDE DEF n, m, P, t
  <1>4. Moved(st, t)
    BY <1>1, <1>2, <1>3 DEF Moved, SameTurn, State
  <1>5. t \in State
    BY <1>4 DEF Moved
  <1>6. Moved(t, r) /\ Fresh(r)
    BY <1>5 DEF ResetPasses, Moved, SameTurn, State, Fresh
  <1> HIDE DEF r
  <1>7. Moved(st, r)
    BY <1>4, <1>6 DEF Moved, SameTurn
  <1>8. st.step = "DeclareBlockers" => st.combat.blocked
    BY PassBlocked
  <1>9. Shape(t) /\ Shape(r)
    BY <1>1, <1>4, <1>7, <1>8, MovedShape
  <1> QED  BY <1>4, <1>6, <1>7, <1>9 DEF t, r

\* A pass that is not the last one.
LEMMA PassOnStepped ==
    ASSUME Resting, NEW p \in Seat, PassOn(p) PROVE Stepped(st, st')
  <1> DEFINE t == CountPass(st)
  <1>1. MayPass(p) /\ ~LastPass(st) /\ Accept({t}) /\ Free(p)
    BY DEF PassOn, MayPass
  <1>2. st \in State /\ Calm(st) /\ ~Unsettled(st)
    BY <1>1, FreeRested
  <1>3. Pending(t)
    BY <1>2, CountPassCalm, CalmPending
  <1>4. Moved(st, t) /\ Shape(t)
    BY <1>1, CountPassMoves
  <1>5. RoundOK(st) => RoundOK(t)
    BY <1>1, <1>2, CountPassRound
  <1> HIDE DEF t
  <1>6. Commanded(st, t)
    BY <1>2, <1>3, <1>4, <1>5 DEF Commanded, Turned, Moved
  <1> QED  BY <1>1, <1>6, AcceptStepped

\* The last pass on a stack that is not empty.
LEMMA PassResolvesStepped ==
    ASSUME Resting, NEW p \in Seat, PassResolves(p) PROVE Stepped(st, st')
  <1> DEFINE x == ResetPasses(st)
             y == [x EXCEPT !.priority = st.active]
  <1>1. MayPass(p) /\ Free(p)
    BY DEF PassResolves, MayPass
  <1>2. PICK t \in ResolveTopOfStack(y) : st' \in Settle(t)
    BY DEF PassResolves
  <1>3. st \in State /\ Calm(st) /\ Shape(st) /\ ~Unsettled(st) /\ st.active \in Seat
    BY <1>1, FreeRested DEF State
  <1>4. SameCore(st, x) /\ Moved(st, x) /\ Fresh(x)
    BY <1>3, ResetPassesCore DEF ResetPasses, Moved, SameTurn, State, Fresh
  <1>5. x \in State
    BY <1>4 DEF Moved
  <1> HIDE DEF x
  <1>6. SameCore(x, y) /\ Moved(x, y) /\ Fresh(y)
    BY <1>3, <1>4, <1>5 DEF SameCore, Moved, SameTurn, State, Fresh
  <1> HIDE DEF y
  <1>7. Calm(y)
    BY <1>3, <1>4, <1>6, CalmFrame
  <1>8. Moved(st, y)
    BY <1>4, <1>6 DEF Moved, SameTurn
  <1>a. st.step = "DeclareBlockers" => st.combat.blocked
    BY <1>1, PassBlocked
  <1>9. y \in State /\ Shape(y) /\ SameTurn(st, y) /\ y.lost = st.lost
    BY <1>3, <1>8, <1>a, MovedShape DEF Moved
  <1>10. Onward(y, t) /\ Pending(t)
    BY <1>2, <1>7, <1>9, ResolveTopOfStackOnward, ResolveTopOfStackPending
  <1>11. Onward(st, t) /\ SameRound(st, t)
    <2>1. Fresh(t)
      BY <1>6, <1>10 DEF Onward
    <2>2. Onward(st, t)
      BY <1>3, <1>6, <1>9, <1>10, SameOnward
    <2> QED  BY <2>1, <2>2, FreshRound
  <1>12. Commanded(st, t)
    BY <1>3, <1>10, <1>11, OnwardCommanded
  <1> QED  BY <1>2, <1>3, <1>12, SettleStepped

\* The last pass on the empty stack.
LEMMA PassAdvancesStepped ==
    ASSUME Resting, NEW p \in Seat, PassAdvances(p) PROVE Stepped(st, st')
  <1> DEFINE r == ResetPasses(CountPass(st))
  <1>1. MayPass(p) /\ Free(p) /\ st.stack = {}
    BY DEF PassAdvances, MayPass
  <1>2. PICK t \in AdvOnEmptyStack(r) : st' \in Settle(t)
    BY DEF PassAdvances
  <1>3. /\ st \in State /\ Calm(st) /\ Shape(st) /\ ~Unsettled(st) /\ ~Terminal(st)
        /\ st.damagePending => st.step = "CombatDamage"
    BY <1>1, FreeRested
  <1>a. Moved(st, r) /\ Shape(r) /\ Fresh(r)
    BY <1>1, CountPassMoves
  <1>5. Calm(r)
    BY <1>3, CountPassCalm
  <1> HIDE DEF r
  <1>4. /\ r \in State /\ Shape(r) /\ SameTurn(st, r) /\ r.lost = st.lost /\ Fresh(r)
        /\ r.step = st.step /\ r.combat = st.combat
        /\ r.damagePending = st.damagePending
        /\ r.cleanupPriority = st.cleanupPriority
    BY <1>a DEF Moved
  <1>6. r.step = "DeclareBlockers" => r.combat.blocked
    BY <1>1, <1>4, PassBlocked
  <1>7. r.step = "Cleanup" => r.cleanupPriority
    <2>1. st.step = "Cleanup" => st.discard = NoSeat
      BY <1>1 DEF MayPass, DiscardFirst
    <2>2. st.step = "Cleanup" => (st.discard # NoSeat) # st.cleanupPriority
      BY <1>3 DEF Shape, Accounted
    <2>3. st.cleanupPriority \in BOOLEAN
      BY <1>3 DEF State
    <2> QED  BY <1>4, <2>1, <2>2, <2>3
  <1>8. Onward(r, t) /\ Pending(t)
    BY <1>2, <1>3, <1>4, <1>5, <1>6, <1>7, AdvOnEmptyStackOnward, AdvOnEmptyStackPending
  <1>9. Onward(st, t) /\ SameRound(st, t)
    <2>1. Fresh(t)
      BY <1>4, <1>8 DEF Onward
    <2>2. Onward(st, t)
      BY <1>3, <1>4, <1>8, SameOnward
    <2> QED  BY <2>1, <2>2, FreshRound
  <1>10. Commanded(st, t)
    BY <1>3, <1>8, <1>9, OnwardCommanded
  <1> QED  BY <1>2, <1>3, <1>10, SettleStepped

\* The refused pass is not settled.  It leaves the step as it was, or the second
\* damage step begun and no damage dealt.
LEMMA PassRefusedCarried ==
    ASSUME Resting, NEW p \in Seat, PassRefused(p) PROVE Carried(st, st')
  <1> DEFINE r == ResetPasses(CountPass(st))
             b == BeginDamageStep(r, "CombatDamage")
  <1>1. MayPass(p) /\ Free(p) /\ st' \in Refusals(r)
    BY DEF PassRefused, MayPass
  <1>2. /\ st \in State /\ ~Unsettled(st) /\ ~Terminal(st) /\ st.choice.kind = "None" /\ Calm(st)
        /\ st.damagePending => st.step = "CombatDamage"
    BY <1>1, FreeRested
  <1>a. Moved(st, r) /\ Shape(r) /\ Fresh(r)
    BY <1>1, CountPassMoves
  <1>b. Calm(r)
    BY <1>2, CountPassCalm
  <1> HIDE DEF r
  <1>3. /\ r \in State /\ Shape(r) /\ SameTurn(st, r) /\ r.lost = st.lost /\ Fresh(r)
        /\ r.outcome = st.outcome /\ r.step = st.step /\ r.combat = st.combat
        /\ r.choice = st.choice /\ r.stack = st.stack /\ r.doomed = st.doomed
        /\ r.damagePending = st.damagePending /\ r.active = st.active
    BY <1>a DEF Moved, SameTurn
  <1>4. /\ Rested(st) /\ st.doomed = {}
        /\ st.active \in st.lost => st.combat.needs = {}
        /\ st.step = "DeclareBlockers" => Clean(st, st.lost)
    BY <1>2 DEF Resting, Rested
  <1>5. CASE r.step = "DeclareBlockers" /\ st' = r
    <2>1. Clean(r, st.lost)
      BY <1>3, <1>4, <1>5 DEF Clean
    <2>2. Rested(r) /\ ~Unsettled(r)
      BY <1>2, <1>3, <1>4, <1>5, <2>1 DEF Rested, Unsettled, Terminal
    <2>3. RoundOK(st) => RoundOK(r)
      BY <1>3, FreshRound, RoundFrame
    <2>4. Carried(st, r)
      BY <1>3, <2>2, <2>3 DEF Carried, Turned
    <2> QED  BY <1>5, <2>4
  <1>6. CASE r.step = "FirstStrikeDamage" /\ r.combat.needs # {} /\ st' = b
    <2>1. /\ Onward(r, b) /\ Fresh(b) /\ b \in State /\ b.damagePending /\ b.step = "CombatDamage"
          /\ b.lost = r.lost /\ b.outcome = r.outcome /\ b.choice = r.choice
          /\ b.active = r.active
      BY <1>3, <1>6, <1>b, BeginDamageStepOnward DEF CombatSteps, DamageStepsOnly
    <2>2. b.doomed = {} /\ st.active \notin st.lost
      BY <1>3, <1>4, <1>6 DEF BeginDamageStep, EnterFresh, Enter, ResetPasses, State
    <2> HIDE DEF b
    <2>3. Rested(b) /\ ~Unsettled(b)
      BY <1>2, <1>3, <2>1, <2>2 DEF Rested, Unsettled, Terminal, Fresh
    <2>4. Onward(st, b)
      BY <1>2, <1>3, <2>1, SameOnward
    <2>5. RoundOK(st) => RoundOK(b)
      BY <1>3, <2>1, FreshRound, RoundFrame
    <2>6. Carried(st, b)
      BY <2>3, <2>4, <2>5 DEF Carried, Onward
    <2> QED  BY <1>6, <2>6
  <1> QED  BY <1>1, <1>5, <1>6 DEF Refusals, AdvanceRefused

-----------------------------------------------------------------------------
(***************************************************************************)
(* Declarations.                                                           *)
(***************************************************************************)

\* set_attackers with nothing in it, commanded or stood for by a pass.
LEMMA DeclineCommanded ==
    ASSUME Resting, NEW p \in Seat, Free(p), st.step = "DeclareAttackers"
    PROVE  Commanded(st, DeclineAttack(st))
  <1>1. st \in State /\ Calm(st) /\ Shape(st) /\ ~st.damagePending /\ ~Unsettled(st)
    BY FreeRested
  <1>2. Pending(DeclineAttack(st))
    BY <1>1, DeclineAttackCalm, CalmPending
  <1>3. Onward(st, DeclineAttack(st)) /\ Fresh(DeclineAttack(st))
    BY <1>1, DeclineAttackOnward
  <1> QED  BY <1>1, <1>2, <1>3, FreshRound, OnwardCommanded

\* set_blockers, with any blocks.
LEMMA BlocksCommanded ==
    ASSUME Resting, NEW p \in Seat, Free(p), st.step = "DeclareBlockers",
           NEW B \in SUBSET Seat, NEW M \in SUBSET Seat, NEW T \in SUBSET Seat
    PROVE  Commanded(st, SetBlockers(st, p, B, M, T))
  <1> DEFINE t == SetBlockers(st, p, B, M, T)
  <1>1. st \in State /\ Calm(st) /\ Shape(st) /\ ~Unsettled(st)
    BY FreeRested
  <1>2. Pending(t)
    BY <1>1, SetBlockersCalm, CalmPending
  <1>3. Onward(st, t) /\ Fresh(t)
    BY <1>1, SetBlockersOnward
  <1> HIDE DEF t
  <1>4. Commanded(st, t)
    BY <1>1, <1>2, <1>3, FreshRound, OnwardCommanded
  <1> QED  BY <1>4 DEF t

\* finalize_attack_declaration, with or without a tax paid before.
LEMMA AttackCommanded ==
    ASSUME Resting, ~Terminal(st), st.active \in Live(st), st.step = "DeclareAttackers",
           NEW A \in SUBSET (Seat \ {st.active})
    PROVE  Commanded(st, FinalizeAttack(st, A))
  <1> DEFINE t == FinalizeAttack(st, A)
  <1>1. st \in State /\ Sound(st) /\ Shape(st) /\ st.crushed = {}
    BY DEF Resting, Inv, Settled, Sound
  <1>2. Pending(t)
    BY <1>1, FinalizeAttackCalm, CalmPending
  <1>3. Onward(st, t) /\ Fresh(t)
    BY <1>1, FinalizeAttackOnward
  <1>4. t.lost = st.lost
    BY <1>1 DEF FinalizeAttack, EnterFresh, Enter, ResetPasses, State
  <1> HIDE DEF t
  <1>5. Commanded(st, t)
    BY <1>1, <1>2, <1>3, <1>4, FreshRound, OnwardCommanded
  <1> QED  BY <1>5 DEF t

\* A spell or an attack tax is going to be paid for.
LEMMA AskCommanded ==
    ASSUME Resting, NEW p \in Seat, Free(p), NEW kind \in {"Cast", "Attack"},
           kind = "Cast" => st.plays < MaxPlays
                            /\ (st.step = "DeclareBlockers" => st.combat.blocked),
           kind = "Attack" => p = st.active /\ st.step = "DeclareAttackers"
    PROVE  Commanded(st, Ask(st, kind, p))
  <1> DEFINE q == [kind |-> kind, player |-> p]
             t == Ask(st, kind, p)
  <1>1. /\ st \in State /\ Calm(st) /\ Sound(st) /\ Shape(st) /\ ~Unsettled(st) /\ p \in Live(st)
        /\ st.choice.kind = "None"
    BY FreeRested DEF Calm
  <1>2. /\ Sound(t) /\ t.choice = q /\ t.lost = st.lost /\ t.active = st.active
        /\ t.combat = st.combat /\ t.crushed = st.crushed
    <2>1. kind \in {"Resolution", "Cast", "Attack", "Trigger"}
      OBVIOUS
    <2>2. kind \in {"Cast", "Trigger"} => st.plays < MaxPlays
      OBVIOUS
    <2>3. kind = "Attack" => p = st.active
      OBVIOUS
    <2> QED  BY ONLY <1>1, <2>1, <2>2, <2>3, p \in Seat, AskSound
  <1>3. q.player = p /\ q.kind = kind
    OBVIOUS
  <1>4. /\ t.step = st.step /\ t.resume = st.resume /\ t.queue = st.queue
        /\ t.outcome = st.outcome /\ t.damagePending = st.damagePending
        /\ t.discard = st.discard /\ t.cleanupPriority = st.cleanupPriority
        /\ t.priority = st.priority /\ t.passes = st.passes /\ t.passed = st.passed
    BY <1>1 DEF Ask, State
  <1> HIDE DEF q, t
  <1>5. Pending(t)
    BY <1>1, <1>2, <1>3 DEF Pending, Calm, Live
  <1>6. Scoped(t) /\ DamageDue(t)
    BY <1>1, <1>2, <1>3, <1>4 DEF Shape, Scoped, DamageDue
  <1>7. BlocksDue(t)
    BY <1>1, <1>2, <1>3, <1>4 DEF Shape, BlocksDue
  <1>8. Accounted(t)
    BY <1>1, <1>4 DEF Shape, Accounted, Terminal
  <1>9. t \in State /\ Turned(st, t) /\ SameRound(st, t)
    BY <1>2, <1>4 DEF Sound, Turned, SameTurn, SameRound
  <1>10. RoundOK(st) => RoundOK(t)
    BY <1>2, <1>9, RoundFrame
  <1>11. Commanded(st, t)
    BY <1>2, <1>5, <1>6, <1>7, <1>8, <1>9, <1>10 DEF Commanded, Shape
  <1> QED  BY <1>11 DEF t

\* A transaction is given up.
LEMMA CloseCommanded ==
    ASSUME Resting, NEW p \in Seat, NEW kind, kind # "None", Answering(p, kind)
    PROVE  /\ Commanded(st, [st EXCEPT !.choice = NoChoice])
           /\ Keeps(st, [st EXCEPT !.choice = NoChoice])
           /\ Calm([st EXCEPT !.choice = NoChoice])
           /\ [st EXCEPT !.choice = NoChoice].lost = st.lost
  <1> DEFINE r == [st EXCEPT !.choice = NoChoice]
  <1>1. st \in State /\ Shape(st) /\ Inv
    BY DEF Resting, Inv, Settled, Sound
  <1>2. Calm(r)
    BY <1>1, ClosedCalm
  <1>3. Keeps(st, r)
    BY <1>1, CloseKeeps
  <1>4. r.lost = st.lost
    BY <1>1 DEF State
  <1> HIDE DEF r
  <1>5. Commanded(st, r)
    BY <1>1, <1>2, <1>3, <1>4, CalmPending, KeepsCommanded
  <1> QED  BY <1>2, <1>3, <1>4, <1>5 DEF r

\* Declarations of attackers and blockers, made, declined, paid for or taken back.
LEMMA DeclarationsStepped ==
    ASSUME Resting, NEW p \in Seat,
           PassDeclines(p) \/ DeclareAttackers(p) \/ CommitAttack(p) \/ CancelAttack(p)
           \/ DeclareBlockers(p)
    PROVE  Stepped(st, st')
  <1>1. CASE PassDeclines(p)
    <2>1. Free(p) /\ MayDecline(st, p)
      BY <1>1 DEF PassDeclines
    <2>2. CASE st.step = "DeclareAttackers"
      <3>1. Accept({DeclineAttack(st)})
        BY <1>1, <2>2 DEF PassDeclines
      <3> QED  BY <2>1, <2>2, <3>1, DeclineCommanded, AcceptStepped
    <2>3. CASE st.step # "DeclareAttackers"
      <3>1. st.step = "DeclareBlockers"
        BY <2>1, <2>3 DEF MayDecline, MayDeclareBlocks
      <3>2. Accept({SetBlockers(st, p, {}, {}, {})})
        BY <1>1, <2>3 DEF PassDeclines
      <3>3. Commanded(st, SetBlockers(st, p, {}, {}, {}))
        BY <2>1, <3>1, BlocksCommanded
      <3> QED  BY <3>2, <3>3, AcceptStepped
    <2> QED  BY <2>2, <2>3
  <1>2. CASE DeclareAttackers(p)
    <2>1. Free(p) /\ st.step = "DeclareAttackers" /\ p = st.active
      BY <1>2 DEF DeclareAttackers
    <2>2. CASE Accept({DeclineAttack(st)})
      BY <2>1, <2>2, DeclineCommanded, AcceptStepped
    <2>3. CASE Accept({FinalizeAttack(st, A) : A \in SUBSET Defending(st) \ {{}}})
      <3>1. \A A \in SUBSET Defending(st) : A \in SUBSET (Seat \ {st.active})
        BY DEF Defending, Live
      <3>2. ~Terminal(st) /\ st.active \in Live(st)
        BY <2>1, FreeRested
      <3>3. \A A \in SUBSET Defending(st) : Commanded(st, FinalizeAttack(st, A))
        BY <2>1, <3>1, <3>2, AttackCommanded
      <3> QED  BY <2>3, <3>3, AcceptStepped
    <2>4. CASE Accept({Ask(st, "Attack", p)})
      <3>1. Commanded(st, Ask(st, "Attack", p))
        BY <2>1, AskCommanded
      <3> QED  BY <2>4, <3>1, AcceptStepped
    <2> QED  BY <1>2, <2>2, <2>3, <2>4 DEF DeclareAttackers
  <1>3. CASE CommitAttack(p)
    <2>1. Answering(p, "Attack") /\ Accept({FinalizeAttack(st, A) : A \in SUBSET (Seat \ {p})})
      BY <1>3 DEF CommitAttack
    <2>2. Sound(st) /\ ~Terminal(st) /\ st.choice.kind = "Attack" /\ st.choice.player = p /\ p \in Live(st)
      BY <2>1, AnsweringSettled DEF Resting
    <2>3. p = st.active /\ st.step = "DeclareAttackers"
      BY <2>2 DEF Sound, Resting, Shape, DamageDue
    <2>4. \A A \in SUBSET (Seat \ {p}) : Commanded(st, FinalizeAttack(st, A))
      BY <2>2, <2>3, AttackCommanded
    <2> QED  BY <2>1, <2>4, AcceptStepped
  <1>4. CASE CancelAttack(p)
    <2>1. Answering(p, "Attack") /\ Accept({[st EXCEPT !.choice = NoChoice]})
      BY <1>4 DEF CancelAttack
    <2>2. Commanded(st, [st EXCEPT !.choice = NoChoice])
      BY <2>1, CloseCommanded
    <2> QED  BY <2>1, <2>2, AcceptStepped
  <1>5. CASE DeclareBlockers(p)
    <2>1. Free(p) /\ st.step = "DeclareBlockers"
          /\ Accept(UNION {{SetBlockers(st, p, {p}, needs, short) : short \in SUBSET needs} :
                               needs \in SUBSET {p}})
      BY <1>5 DEF DeclareBlockers, MayDeclareBlocks
    <2>2. ASSUME NEW needs \in SUBSET {p}, NEW short \in SUBSET needs
          PROVE  Commanded(st, SetBlockers(st, p, {p}, needs, short))
      <3>1. {p} \in SUBSET Seat /\ needs \in SUBSET Seat /\ short \in SUBSET Seat
        OBVIOUS
      <3> QED  BY <2>1, <3>1, BlocksCommanded
    <2> QED  BY <2>1, <2>2, AcceptStepped
  <1> QED  BY <1>1, <1>2, <1>3, <1>4, <1>5

-----------------------------------------------------------------------------
(***************************************************************************)
(* Casting and answering.                                                  *)
(***************************************************************************)

\* The life paid for mana is counted when the payment is over.
LEMMA PayLifeStepped ==
    ASSUME Resting, NEW p \in Seat, PayLife(p) PROVE Stepped(st, st')
  <1> DEFINE D == st.doomed \cup {p}
             t == [st EXCEPT !.doomed = D]
  <1>1. Accept({t})
    BY DEF PayLife
  <1>2. /\ Sound(st) /\ ~Terminal(st) /\ st.crushed = {}
        /\ st.active \in st.lost => st.combat.attacked = {}
        /\ st.choice.kind \in {"Cast", "Attack"} /\ st.choice.player = p /\ p \in Live(st)
    BY AnsweringSettled DEF PayLife, Resting
  <1>3. st \in State /\ D \in SUBSET Seat /\ Shape(st)
    BY <1>2 DEF Sound, State, Resting
  <1> HIDE DEF D
  <1>4. Keeps(st, t)
    BY <1>3, MarkKeeps
  <1>5. /\ t \in State /\ t.lost = st.lost /\ t.outcome = st.outcome /\ t.active = st.active
        /\ t.choice = st.choice /\ t.plays = st.plays /\ t.combat = st.combat
        /\ t.crushed = st.crushed
    BY <1>3 DEF State
  <1> HIDE DEF t
  <1>6. Pending(t)
    BY <1>2, <1>5 DEF Pending, Sound, Live
  <1>7. Commanded(st, t)
    BY <1>3, <1>4, <1>5, <1>6, KeepsCommanded
  <1> QED  BY <1>1, <1>7, AcceptStepped

\* The spell goes on the stack and its controller has priority.
LEMMA CommitCastStepped ==
    ASSUME Resting, NEW p \in Seat, CommitCast(p) PROVE Stepped(st, st')
  <1> DEFINE c == [st EXCEPT !.choice = NoChoice]
             r == [st EXCEPT !.choice = NoChoice, !.priority = p]
             t == Push(r, p)
  <1>1. Answering(p, "Cast") /\ Accept({t})
    BY DEF CommitCast
  <1>2. st \in State /\ st.plays < MaxPlays /\ Shape(st) /\ st.choice.kind = "Cast"
    BY <1>1, AnsweringSettled DEF Sound, Resting
  <1>3. Calm(c) /\ Keeps(st, c) /\ c.lost = st.lost
    BY <1>1, CloseCommanded
  <1>4. r = [c EXCEPT !.priority = p] /\ c.plays = st.plays
    BY <1>2 DEF State
  <1> HIDE DEF c, r
  <1>5. c \in State /\ Onward(st, c)
    BY <1>2, <1>3, CalmLive, KeepsOnward
  <1>6. SameCore(c, r) /\ Moved(c, r) /\ r.passes = c.passes /\ r.passed = c.passed
    BY <1>4, <1>5 DEF SameCore, Moved, SameTurn, State
  <1>7. c.step = "DeclareBlockers" => c.combat.blocked
    BY <1>2, <1>3 DEF Shape, BlocksDue, Keeps, Follows, CombatShrinks
  <1>8. Shape(r) /\ r \in State
    BY <1>5, <1>6, <1>7, MovedShape DEF Onward, Moved
  <1>9. Calm(r) /\ r.plays < MaxPlays
    BY <1>2, <1>3, <1>4, <1>6, CalmFrame DEF SameCore
  <1>10. Calm(t) /\ t.lost = r.lost
    BY <1>9, PushSound DEF Calm, Terminal
  <1>11. Keeps(r, t) /\ Fresh(t)
    BY <1>8, <1>9, PushKeeps DEF Push, ResetPasses, State, Fresh
  <1> HIDE DEF t
  <1>12. Shape(t) /\ t.lost = st.lost
    BY <1>3, <1>6, <1>8, <1>10, <1>11 DEF Keeps, Moved
  <1>13. SameTurn(st, t)
    BY <1>3, <1>6, <1>11 DEF Keeps, Follows, Moved, SameTurn
  <1>14. RoundOK(st) => RoundOK(t)
    BY <1>11, <1>12, FreshRound, RoundFrame
  <1>15. Commanded(st, t)
    BY <1>10, <1>12, <1>13, <1>14, CalmPending DEF Commanded, Turned
  <1> QED  BY <1>1, <1>15, AcceptStepped

\* Casting begins or is taken back, and lands are played.
LEMMA CastsStepped ==
    ASSUME Resting, NEW p \in Seat, BeginCast(p) \/ CancelCast(p) \/ PlayLand(p)
    PROVE  Stepped(st, st')
  <1>1. CASE BeginCast(p)
    <2>1. Free(p) /\ st.plays < MaxPlays /\ Accept({Ask(st, "Cast", p)})
      BY <1>1 DEF BeginCast
    <2>2. st.step = "DeclareBlockers" => st.combat.blocked
      BY <1>1 DEF BeginCast, DeclarationDue
    <2>3. Commanded(st, Ask(st, "Cast", p))
      BY <2>1, <2>2, AskCommanded
    <2> QED  BY <2>1, <2>3, AcceptStepped
  <1>2. CASE CancelCast(p)
    <2>1. Answering(p, "Cast") /\ Accept({[st EXCEPT !.choice = NoChoice]})
      BY <1>2 DEF CancelCast
    <2>2. Commanded(st, [st EXCEPT !.choice = NoChoice])
      BY <2>1, CloseCommanded
    <2> QED  BY <2>1, <2>2, AcceptStepped
  <1>3. CASE PlayLand(p)
    <2> DEFINE m == st.plays + 1
               t == ResetPasses([st EXCEPT !.plays = m])
    <2>1. Free(p) /\ st.plays < MaxPlays /\ Accept({t})
      BY <1>3 DEF PlayLand
    <2>2. st \in State /\ Calm(st) /\ Shape(st)
      BY <2>1, FreeRested
    <2>3. m \in 0 .. MaxPlays
      BY <2>1, <2>2, BoundsAssumption DEF State
    <2> HIDE DEF m
    <2>4. /\ Quiet(st, t) /\ t.lost = st.lost /\ t.outcome = st.outcome /\ t.crushed = st.crushed
          /\ t.choice = st.choice
      BY <2>2, <2>3 DEF ResetPasses, State, Quiet, SameRound, Terminal
    <2> HIDE DEF t
    <2>5. Calm(t)
      BY <2>2, <2>4 DEF Calm, Sound, Terminal, Live, Quiet
    <2>6. Keeps(st, t)
      BY <2>2, <2>4, QuietKeeps
    <2>7. Commanded(st, t)
      BY <2>2, <2>4, <2>5, <2>6, CalmPending, KeepsCommanded
    <2> QED  BY <2>1, <2>7, AcceptStepped
  <1> QED  BY <1>1, <1>2, <1>3

\* The parked resolution runs to its end.
LEMMA SubmitChoiceStepped ==
    ASSUME Resting, NEW p \in Seat, SubmitChoice(p) PROVE Stepped(st, st')
  <1> DEFINE c == [st EXCEPT !.choice = NoChoice]
             r == IF st.step = "Draw" THEN ResetPasses(c) ELSE c
  <1>1. Answering(p, "Resolution") /\ Accept(Effects(r))
    BY DEF SubmitChoice
  <1>2. Calm(c) /\ Keeps(st, c) /\ c.lost = st.lost
    BY <1>1, CloseCommanded
  <1>3. st \in State /\ Shape(st)
    BY DEF Resting, Inv, Settled, Sound
  <1> HIDE DEF c
  <1>4. c \in State
    BY <1>2, CalmLive
  <1>5. Calm(r) /\ Keeps(c, r) /\ r.lost = c.lost
    <2>1. Calm(ResetPasses(c)) /\ Keeps(c, ResetPasses(c)) /\ ResetPasses(c).lost = c.lost
      BY <1>2, <1>4, ResetPassesCore, CalmFrame, ResetPassesKeeps DEF SameCore
    <2> QED  BY <1>2, <1>4, <2>1, KeepsSelf
  <1> HIDE DEF r
  <1>6. Keeps(st, r) /\ r.lost = st.lost /\ r \in State
    BY <1>2, <1>3, <1>4, <1>5, KeepsChain DEF Keeps, Follows
  <1>7. SameTurn(st, r) /\ SameRound(st, r) /\ Shape(r) /\ (Fresh(st) => Fresh(r))
    BY <1>3, <1>6 DEF Keeps, Follows, SameTurn, SameRound, Fresh
  <1>8. ASSUME NEW t \in Effects(r) PROVE Commanded(st, t)
    <2>1. Onward(r, t) /\ SameRound(r, t) /\ t.lost = r.lost
      BY <1>6, <1>7, EffectsOnward
    <2>2. Onward(st, t)
      BY <1>3, <1>6, <1>7, <2>1, SameOnward
    <2>3. SameRound(st, t)
      BY <1>7, <2>1 DEF SameRound
    <2>4. Pending(t)
      BY <1>5, EffectsCalm, CalmPending
    <2> QED  BY <1>3, <1>6, <2>1, <2>2, <2>3, <2>4, OnwardCommanded
  <1> QED  BY <1>1, <1>8, AcceptStepped

\* A trigger gets its target or its place and goes on the stack.
LEMMA PlaceTriggerStepped ==
    ASSUME Resting, NEW p \in Seat, PlaceTrigger(p) PROVE Stepped(st, st')
  <1> DEFINE c == [st EXCEPT !.choice = NoChoice]
             t == Push(c, p)
  <1>1. Answering(p, "Trigger") /\ Accept({t})
    BY DEF PlaceTrigger
  <1>2. st \in State /\ st.plays < MaxPlays /\ Shape(st)
    BY <1>1, AnsweringSettled DEF Sound, Resting
  <1>3. Calm(c) /\ Keeps(st, c) /\ c.lost = st.lost
    BY <1>1, CloseCommanded
  <1>4. c.plays = st.plays
    BY <1>2 DEF State
  <1> HIDE DEF c
  <1>5. c \in State /\ c.plays < MaxPlays
    BY <1>2, <1>3, <1>4, CalmLive
  <1>6. Calm(t) /\ t.lost = c.lost
    BY <1>3, <1>5, PushSound DEF Calm, Terminal
  <1>7. Keeps(c, t)
    BY <1>5, PushKeeps
  <1> HIDE DEF t
  <1>8. Keeps(st, t) /\ t.lost = st.lost
    BY <1>2, <1>3, <1>6, <1>7, KeepsChain
  <1>9. Commanded(st, t)
    BY <1>2, <1>6, <1>8, CalmPending, KeepsCommanded
  <1> QED  BY <1>1, <1>9, AcceptStepped

-----------------------------------------------------------------------------
(***************************************************************************)
(* Damage assignment, the cleanup discard and the structured yield.        *)
(***************************************************************************)

\* Damage is assigned; with the last assignment it is dealt.
LEMMA AssignStepped ==
    ASSUME Resting, NEW p \in Seat, AssignCombatDamage(p) PROVE Stepped(st, st')
  <1>1. Free(p) /\ st.combat.blocked
    BY DEF AssignCombatDamage
  <1>2. PICK d \in st.combat.needs \ st.combat.short :
            LET c == [st.combat EXCEPT !.assigned = @ \cup {d}]
                a == [st EXCEPT !.combat = c]
                b == [st EXCEPT !.combat = [c EXCEPT !.needed = FALSE]]
            IN  Accept(IF Missing(c) THEN {a} ELSE ResolveCombatDamageStep(b))
    BY DEF AssignCombatDamage
  <1> DEFINE c == [st.combat EXCEPT !.assigned = @ \cup {d}]
             e == [c EXCEPT !.needed = FALSE]
             a == [st EXCEPT !.combat = c]
             b == [st EXCEPT !.combat = e]
  <1>3. Accept({a}) \/ Accept(ResolveCombatDamageStep(b))
    BY <1>2
  <1>4. /\ st \in State /\ Calm(st) /\ Shape(st) /\ ~Unsettled(st)
        /\ st.combat \in Combat
    BY <1>1, FreeRested DEF State
  <1>5. st.combat # NoCombat
    BY <1>1, NoCombatFields
  <1>6. /\ c \in Combat /\ c.attacked = st.combat.attacked /\ c.waiting = st.combat.waiting
        /\ c.blocked = st.combat.blocked /\ c.on = st.combat.on
    BY <1>4 DEF Combat
  <1> HIDE DEF c
  <1>7. /\ e \in Combat /\ e.attacked = st.combat.attacked /\ e.waiting = st.combat.waiting
        /\ e.blocked = st.combat.blocked /\ e.on = st.combat.on
    BY <1>6 DEF Combat
  <1> HIDE DEF e
  <1>8. CombatShrinks(st.combat, c) /\ CombatShrinks(st.combat, e)
    BY <1>5, <1>6, <1>7 DEF CombatShrinks
  <1>9. Keeps(st, a) /\ Keeps(st, b)
    BY <1>4, <1>6, <1>7, <1>8, CombatKeeps
  <1>10. Calm(a) /\ Calm(b)
    BY <1>4, <1>6, <1>7, CalmCombat
  <1>11. a.lost = st.lost /\ b.lost = st.lost /\ b.combat = e
    BY <1>4, <1>7 DEF State
  <1> HIDE DEF a, b
  <1>12. Commanded(st, a)
    BY <1>4, <1>9, <1>10, <1>11, CalmPending, KeepsCommanded
  <1>13. st.step # "Cleanup"
    BY <1>4, <1>5 DEF Shape, Scoped, CombatSteps
  <1>14. /\ Shape(b) /\ b.combat.blocked /\ b.step # "Cleanup"
         /\ b \in State /\ SameTurn(st, b) /\ (Fresh(st) => Fresh(b))
    BY <1>1, <1>4, <1>7, <1>9, <1>11, <1>13 DEF Keeps, Follows, SameTurn, SameRound, Fresh
  <1>15. ASSUME NEW t \in ResolveCombatDamageStep(b) PROVE Commanded(st, t)
    <2>1. Onward(b, t) /\ Fresh(t)
      BY <1>10, <1>14, ResolveCombatDamageStepOnward
    <2>2. Onward(st, t)
      BY <1>4, <1>11, <1>14, <2>1, SameOnward
    <2>3. Pending(t)
      BY <1>10, ResolveCombatDamageStepPending
    <2> QED  BY <1>4, <2>1, <2>2, <2>3, FreshRound, OnwardCommanded
  <1> QED  BY <1>3, <1>12, <1>15, AcceptStepped

\* The discard in cleanup, after which cleanup goes on or ends.
LEMMA DiscardStepped ==
    ASSUME Resting, NEW p \in Seat, DiscardToHandSize(p) PROVE Stepped(st, st')
  <1>1. /\ Free(p) /\ st.step = "Cleanup"
        /\ Accept(UNION {{g} \cup FinishCleanup(g) : g \in CleanupSbas(st)})
    BY DEF DiscardToHandSize
  <1>2. /\ st \in State /\ Calm(st) /\ Shape(st) /\ ~st.damagePending /\ ~Unsettled(st)
    BY <1>1, FreeRested
  <1>3. InCleanup(st)
    BY <1>1, <1>2 DEF InCleanup, Shape, Scoped, CombatSteps
  <1>4. ASSUME NEW g \in CleanupSbas(st), NEW t \in {g} \cup FinishCleanup(g)
        PROVE  Commanded(st, t)
    <2>1. Keeps(st, g) /\ g.lost = st.lost /\ Calm(g) /\ g \in State
      BY <1>2, CleanupSbasKeeps, CleanupSbasCalm, CalmLive
    <2>2. CASE t = g
      BY <1>2, <2>1, <2>2, CalmPending, KeepsCommanded
    <2>3. CASE t \in FinishCleanup(g)
      <3>1. InCleanup(g)
        BY <1>3, <2>1, InCleanupFollows DEF Keeps
      <3>2. Onward(g, t) /\ Fresh(t) /\ Pending(t)
        BY <2>1, <2>3, <3>1, FinishCleanupOnward, FinishCleanupPending
      <3>3. SameTurn(st, g) /\ (Fresh(st) => Fresh(g))
        BY <2>1 DEF Keeps, Follows, SameTurn, SameRound, Fresh
      <3>4. Onward(st, t)
        BY <1>2, <2>1, <3>2, <3>3, SameOnward
      <3> QED  BY <1>2, <3>2, <3>4, FreshRound, OnwardCommanded
    <2> QED  BY <2>2, <2>3
  <1>5. \A t \in UNION {{g} \cup FinishCleanup(g) : g \in CleanupSbas(st)} : Commanded(st, t)
    BY <1>4
  <1> QED  BY <1>1, <1>5, AcceptStepped

\* The structured yield.
LEMMA YieldStepped ==
    ASSUME Resting, NEW p \in Seat, Yield(p) PROVE Stepped(st, st')
  <1>1. Free(p) /\ StructuredYield
    BY DEF Yield
  <1>2. /\ st \in State /\ Calm(st) /\ Shape(st) /\ ~Unsettled(st)
        /\ st.damagePending => st.step = "CombatDamage"
    BY <1>1, FreeRested
  <1>3. CASE st.step = "DeclareAttackers" /\ Accept({DeclineAttack(st)})
    BY <1>1, <1>3, DeclineCommanded, AcceptStepped
  <1>4. CASE st.step = "DeclareBlockers" /\ Accept({SetBlockers(st, p, {}, {}, {})})
    <2>1. Commanded(st, SetBlockers(st, p, {}, {}, {}))
      BY <1>1, <1>4, BlocksCommanded
    <2> QED  BY <1>4, <2>1, AcceptStepped
  <1>5. CASE st.step \notin {"DeclareAttackers", "DeclareBlockers", "FirstStrikeDamage", "Cleanup"}
             /\ Accept(AdvOnEmptyStack(st))
    <2>1. ASSUME NEW t \in AdvOnEmptyStack(st) PROVE Commanded(st, t)
      <3>1. Onward(st, t) /\ Pending(t)
        BY <1>2, <1>5, AdvOnEmptyStackOnward, AdvOnEmptyStackPending
      <3> QED  BY <1>1, <1>2, <3>1 DEF Commanded, Onward
    <2> QED  BY <1>5, <2>1, AcceptStepped
  <1> QED  BY <1>3, <1>4, <1>5 DEF Yield, MayDeclareBlocks

-----------------------------------------------------------------------------
(***************************************************************************)
(* Conceding.                                                              *)
(***************************************************************************)

\* A concession, whatever it interrupts, leaves a settled table behind and takes
\* out the conceding player alone while a transaction is unfinished.
LEMMA ConcedeStepped ==
    ASSUME Resting, NEW p \in Seat, Concede(p) PROVE Stepped(st, st')
  <1> DEFINE c == IF st.choice = [kind |-> "Attack", player |-> p] THEN NoChoice ELSE st.choice
             o == OutcomeOf(Live(st) \ {p})
             L == st.lost \cup {p}
             l == [st EXCEPT !.choice = c, !.lost = L, !.outcome = o]
  <1>1. /\ Sound(st) /\ st \in State /\ ~Terminal(st) /\ p \in Live(st) /\ st.crushed = {}
        /\ Shape(st)
    BY DEF Concede, MayCommand, Resting, Inv, Settled, Sound
  <1>2. /\ o \in 0 .. (N + 1)
        /\ o \in Seat => o \in Live(st) \ {p}
        /\ o = Draw => Live(st) \ {p} = {}
        /\ o = NoOutcome => Live(st) \ {p} # {}
    <2>1. Live(st) \ {p} \in SUBSET Seat
      BY DEF Live
    <2> QED  BY <2>1, OutcomeOfSurvivors
  <1>3. c \in Choice /\ (c = st.choice \/ c.kind = "None")
    <2>1. st.choice \in Choice /\ NoChoice \in Choice /\ NoChoice.kind = "None"
      BY <1>1, SeatsAssumption DEF NoChoice, Choice, NoSeat, State
    <2> QED  BY <2>1
  <1>4. L \in SUBSET Seat /\ st.lost \subseteq L
    BY <1>1 DEF State
  <1>5. IF Terminal(l) THEN st' = FinishTerminal(l)
        ELSE \E r \in ReconcileDeparted(l) : \E f \in FlushTriggers(r) : st' \in Settle(f)
    <2> DEFINE ab == [st EXCEPT !.choice = c]
               left == [ab EXCEPT !.lost = @ \cup {p}, !.outcome = OutcomeOf(Live(st) \ {p})]
    <2>1. IF Terminal(left) THEN st' = FinishTerminal(left)
          ELSE \E r \in ReconcileDeparted(left) : \E f \in FlushTriggers(r) : st' \in Settle(f)
      BY DEF Concede
    <2>2. left = l
      BY <1>1 DEF State
    <2> HIDE DEF left, l
    <2> QED  BY <2>1, <2>2
  <1>6. L = st.lost \cup {p}
    OBVIOUS
  <1> HIDE DEF c, o, L
  <1>7. /\ l \in State /\ l.choice = c /\ l.lost = L /\ l.outcome = o /\ l.active = st.active
        /\ l.plays = st.plays /\ l.combat = st.combat /\ l.crushed = st.crushed
        /\ l.step = st.step /\ l.resume = st.resume /\ l.queue = st.queue
        /\ l.cleanupPriority = st.cleanupPriority /\ l.discard = st.discard
        /\ l.damagePending = st.damagePending /\ l.priority = st.priority
        /\ l.passes = st.passes /\ l.passed = st.passed
    BY <1>1, <1>2, <1>3, <1>4 DEF State
  <1> HIDE DEF l
  <1>8. Live(l) = Live(st) \ {p}
    BY <1>6, <1>7 DEF Live
  <1>9. Sound(l)
    BY <1>1, <1>2, <1>3, <1>7, <1>8 DEF Sound
  <1>10. Keeps(st, l)
    <2>1. Quiet(st, l)
      BY <1>1, <1>3, <1>4, <1>7 DEF Quiet, SameRound
    <2> QED  BY <1>1, <2>1, QuietKeeps
  <1>11. CASE Terminal(l)
    <2>1. st' = FinishTerminal(l)
      BY <1>5, <1>11
    <2>2. Keeps(l, st')
      BY <1>9, <1>11, <2>1, FinishTerminalKeeps
    <2>3. Keeps(st, st') /\ Terminal(st')
      BY <1>1, <1>10, <1>11, <2>2, KeepsChain DEF Keeps, Follows
    <2>4. st'.lost = st.lost \cup {p}
      BY <1>6, <1>7, <2>1 DEF FinishTerminal, State
    <2>5. SameTurn(st, st') /\ Shape(st')
      BY <1>1, <2>3 DEF Keeps, Follows, SameTurn
    <2>6. RoundOK(st) => RoundOK(st')
      BY <2>3, KeepsRound
    <2> QED  BY <2>3, <2>4, <2>5, <2>6 DEF Stepped, Carried, Turned, Rested
  <1>12. CASE ~Terminal(l)
    <2>1. PICK r \in ReconcileDeparted(l) : \E f \in FlushTriggers(r) : st' \in Settle(f)
      BY <1>5, <1>12
    <2>2. PICK f \in FlushTriggers(r) : st' \in Settle(f)
      BY <2>1
    <2>3. /\ Sound(r) /\ r.lost = l.lost /\ r.crushed = l.crushed
          /\ r.active \in r.lost => r.combat.attacked = {}
          /\ r.choice.kind # "None" => r.choice.player \in Live(r)
      BY <1>9, <1>12, ReconcileDepartedSound
    <2>4. /\ Sound(f) /\ f.lost = r.lost /\ f.active = r.active /\ f.combat = r.combat
          /\ f.crushed = r.crushed
          /\ f.choice = r.choice \/ (f.choice.kind = "Trigger" /\ f.choice.player \in Live(r))
      BY <2>3, FlushTriggersSound
    <2>5. Pending(f)
      BY <1>1, <1>7, <2>3, <2>4 DEF Pending, Unsettled, Live
    <2>6. Keeps(l, r)
      BY <1>9, ReconcileDepartedKeeps
    <2>7. Keeps(r, f)
      BY <2>3, FlushTriggersKeeps DEF Sound
    <2>8. /\ Keeps(f, st')
          /\ Terminal(f) \/ Unsettled(f) => st'.lost = f.lost
          /\ ~Terminal(f) /\ ~Unsettled(f) => ~Unsettled(st')
          /\ ~Terminal(st') /\ ~Unsettled(st') => Clean(st', f.lost)
          /\ Shape(f) => Rested(st')
      BY <2>2, <2>5, SettleKeeps
    <2>9. Keeps(st, f)
      BY <1>1, <1>7, <1>10, <2>3, <2>6, <2>7, KeepsChain DEF Sound
    <2>10. Keeps(st, st')
      BY <1>1, <2>8, <2>9, KeepsChain
    <2>11. f.lost = st.lost \cup {p}
      BY <1>6, <1>7, <2>3, <2>4
    <2>12. Shape(st') /\ Rested(st') /\ SameTurn(st, st') /\ st.lost \subseteq st'.lost
      BY <1>1, <2>8, <2>9, <2>10 DEF Keeps, Follows, SameTurn
    <2>13. ~Terminal(st') /\ ~Unsettled(st') => Clean(st', st.lost)
      BY <2>8, <2>11, CleanFewer
    <2>14. Unsettled(st') => st'.lost = st.lost \cup {p}
      BY <2>8, <2>11
    <2>15. RoundOK(st) => RoundOK(st')
      BY <2>10, KeepsRound
    <2> QED  BY <2>12, <2>13, <2>14, <2>15 DEF Stepped, Carried, Turned
  <1> QED  BY <1>11, <1>12

\* Every command leaves a rested state and keeps to the turn order, and one that is
\* not refused leaves nothing of those who were gone.
LEMMA NextStepped ==
    ASSUME Resting, Next
    PROVE  Carried(st, st') /\ (reply' # "rejected" => Stepped(st, st'))
  <1>1. PICK p \in Seat :
            \/ PassOn(p) \/ PassResolves(p) \/ PassAdvances(p) \/ PassRefused(p)
            \/ PassDeclines(p)
            \/ BeginCast(p) \/ PayLife(p) \/ CommitCast(p) \/ CancelCast(p)
            \/ PlayLand(p) \/ SubmitChoice(p) \/ PlaceTrigger(p)
            \/ DeclareAttackers(p) \/ CommitAttack(p) \/ CancelAttack(p)
            \/ DeclareBlockers(p) \/ AssignCombatDamage(p)
            \/ DiscardToHandSize(p) \/ Yield(p) \/ Concede(p)
    BY DEF Next
  <1>2. CASE PassOn(p) \/ PassResolves(p) \/ PassAdvances(p)
    BY <1>2, PassOnStepped, PassResolvesStepped, PassAdvancesStepped DEF Stepped
  <1>3. CASE PassDeclines(p) \/ DeclareAttackers(p) \/ CommitAttack(p) \/ CancelAttack(p)
             \/ DeclareBlockers(p)
    BY <1>3, DeclarationsStepped DEF Stepped
  <1>4. CASE BeginCast(p) \/ PayLife(p) \/ CommitCast(p) \/ CancelCast(p) \/ PlayLand(p)
    BY <1>4, CastsStepped, PayLifeStepped, CommitCastStepped DEF Stepped
  <1>5. CASE SubmitChoice(p) \/ PlaceTrigger(p)
    BY <1>5, SubmitChoiceStepped, PlaceTriggerStepped DEF Stepped
  <1>6. CASE AssignCombatDamage(p) \/ DiscardToHandSize(p) \/ Yield(p) \/ Concede(p)
    BY <1>6, AssignStepped, DiscardStepped, YieldStepped, ConcedeStepped DEF Stepped
  <1>7. CASE PassRefused(p)
    BY <1>7, PassRefusedCarried DEF PassRefused
  <1> QED  BY <1>1, <1>2, <1>3, <1>4, <1>5, <1>6, <1>7

-----------------------------------------------------------------------------
(***************************************************************************)
(* The theorems.                                                           *)
(***************************************************************************)

\* The first upkeep is a rested state with a fresh round.
LEMMA InitResting == Init => Resting /\ RoundOK(st)
  <1> SUFFICES ASSUME Init PROVE Resting /\ RoundOK(st)
    OBVIOUS
  <1>1. Inv
    BY InitInv
  <1>2. /\ st.lost = {} /\ st.passes = 0 /\ st.passed = {} /\ st.step = "Upkeep"
        /\ st.stack = {} /\ st.choice = NoChoice /\ st.combat = NoCombat
        /\ ~st.damagePending /\ st.discard = NoSeat /\ ~st.cleanupPriority
        /\ st.doomed = {}
    BY DEF Init
  <1>3. NoChoice.kind = "None" /\ NoCombat.waiting = {} /\ NoCombat.needs = {}
    BY DEF NoChoice, NoCombat
  <1>4. Shape(st)
    BY <1>2, <1>3 DEF Shape, Scoped, CombatSteps, DamageDue, BlocksDue, Accounted
  <1>5. Rested(st)
    BY <1>2, <1>3 DEF Rested
  <1>6. RoundOK(st)
    BY <1>2, FS_EmptySet DEF RoundOK
  <1> QED  BY <1>1, <1>4, <1>5, <1>6 DEF Resting

\* The invariant is inductive.
LEMMA NextResting == Resting /\ [Next]_vars => Resting'
  <1> SUFFICES ASSUME Resting, [Next]_vars PROVE Resting'
    OBVIOUS
  <1>1. Inv'
    BY NextInv DEF Resting
  <1>2. CASE Next
    <2>1. Shape(st') /\ Rested(st')
      BY <1>2, NextStepped DEF Carried
    <2> QED  BY <1>1, <2>1 DEF Resting
  <1>3. CASE UNCHANGED vars
    BY <1>1, <1>3 DEF Resting, vars
  <1> QED  BY <1>2, <1>3

\* The invariant holds in every state between two commands.
LEMMA AlwaysResting == Spec => []Resting
  BY InitResting, NextResting, PTL DEF Spec

\* Combat state is there in every step that unwrap()s it and gone in every step
\* outside combat, however a combat is entered, skipped, cut short or left behind
\* by a player who goes.
THEOREM CombatScoped == Spec => []CombatIsScoped
  <1>1. Resting => CombatIsScoped
    BY DEF Resting, Shape, Scoped, CombatSteps, CombatIsScoped
  <1> QED  BY <1>1, AlwaysResting, PTL

\* In cleanup somebody owes a discard or a priority round runs, never both and
\* never neither: the fallback arm of adv_on_empty_stack is dead code.
THEOREM CleanupAccounted == Spec => []CleanupIsAccounted
  <1>1. Resting => CleanupIsAccounted
    BY DEF Resting, Shape, Accounted, CleanupIsAccounted
  <1> QED  BY <1>1, AlwaysResting, PTL

\* In an unfinished block declaration the next defender in turn order who has not
\* declared holds priority, also after others left in the middle of it.
THEOREM BlocksOrdered == Spec => []BlocksInTurnOrder
  <1>1. Resting => BlocksInTurnOrder
    BY DEF Resting, Shape, BlocksDue, BlocksInTurnOrder
  <1> QED  BY <1>1, AlwaysResting, PTL

\* A stale damage assignment flag, a damage assignment nobody can make and a discard
\* owed by a player who left are the only ways to stall a game: in every other state
\* some player can move it on.
THEOREM NothingElseStalls == Spec => []NoOtherStall
  <1>1. Resting => NoOtherStall
    <2> SUFFICES ASSUME Resting, ~Terminal(st), ~FlagIsStale, ~AssignmentIsImpossible,
                        ~DiscardIsOrphaned
                 PROVE  \E p \in Seat : CanAct(p)
      BY DEF NoOtherStall
    <2>1. /\ st \in State /\ Shape(st) /\ Rested(st) /\ st.choice \in Choice /\ st.combat \in Combat
          /\ st.choice.kind = "None" => st.priority \in Live(st)
          /\ st.choice.kind # "None" => st.choice.player \in Live(st)
      BY DEF Resting, Inv, Settled, Sound, State
    <2>2. CASE st.choice.kind # "None"
      <3> DEFINE p == st.choice.player
                 kind == st.choice.kind
      <3>1. p \in Live(st) /\ p \in Seat
        BY <2>1, <2>2 DEF Live
      <3>2. kind \in {"Resolution", "Cast", "Attack", "Trigger"}
        BY <2>1, <2>2 DEF Choice
      <3>3. st.choice = [kind |-> kind, player |-> p]
        BY <2>1 DEF Choice
      <3>4. Answering(p, kind)
        BY <3>1, <3>3 DEF Answering, MayCommand
      <3> HIDE DEF p, kind
      <3> QED  BY <3>1, <3>2, <3>4 DEF CanAct
    <2>3. CASE st.choice.kind = "None"
      <3> DEFINE p == st.priority
      <3>1. p \in Live(st) /\ p \in Seat /\ \A q \in Live(st) : Free(q) /\ q \in Seat
        BY <2>1, <2>3 DEF Live, Free, MayCommand
      <3>2. CASE st.step = "DeclareAttackers" /\ ~st.combat.declared /\ p = st.active
        BY <3>1, <3>2 DEF CanAct, MayDecline
      <3>3. CASE st.step = "DeclareBlockers" /\ ~st.combat.blocked
        <4>1. st.combat.waiting # {} /\ p = FirstAfter(st.active, st.combat.waiting)
          BY <2>1, <3>3 DEF Shape, BlocksDue
        <4>2. st.active \in Seat /\ st.combat.waiting \in SUBSET Seat
          BY <2>1 DEF State, Combat
        <4>3. p \in st.combat.waiting
          BY <4>1, <4>2, FirstAfterInSet
        <4> QED  BY <3>1, <3>3, <4>3 DEF CanAct, MayDecline, MayDeclareBlocks
      <3>4. CASE DiscardFirst(st)
        <4>1. st.discard \in Seat
          BY <2>1, <3>4, SeatsAssumption DEF State, DiscardFirst, NoSeat, Seat
        <4>2. st.discard \in Live(st)
          BY <4>1 DEF DiscardIsOrphaned, Live
        <4> QED  BY <3>1, <4>2 DEF CanAct
      <3>5. CASE /\ ~(st.step = "DeclareAttackers" /\ ~st.combat.declared /\ p = st.active)
                 /\ ~(st.step = "DeclareBlockers" /\ ~st.combat.blocked)
                 /\ ~DiscardFirst(st)
        <4>1. MayPass(p)
          BY <3>1, <3>5 DEF MayPass
        <4>2. CASE ~AdvanceRefused(st)
          BY <3>1, <4>1, <4>2 DEF CanAct
        <4>3. CASE AdvanceRefused(st)
          <5>1. st.step = "DeclareBlockers" /\ st.combat.blocked /\ st.combat.needed \in BOOLEAN
            BY <2>1, <3>5, <4>3 DEF AdvanceRefused, Combat
          <5>2. st.combat.needed = Missing(st.combat)
            BY <5>1 DEF FlagIsStale
          <5>3. Missing(st.combat) /\ st.combat.needed /\ st.combat.assign
            BY <4>3, <5>1, <5>2 DEF AdvanceRefused
          <5>4. st.combat.needs # {} /\ st.active \in Seat
            BY <2>1, <5>3 DEF Missing, State
          <5>6. (st.combat.needs \ st.combat.assigned) \ st.combat.short # {}
            BY <5>1, <5>3 DEF Missing, AssignmentIsImpossible
          <5>5. st.active \in Live(st)
            BY <2>1, <2>3, <5>4 DEF Rested, Unsettled, Live
          <5> QED  BY <3>1, <5>1, <5>3, <5>5, <5>6 DEF CanAct
        <4> QED  BY <4>2, <4>3
      <3> QED  BY <3>2, <3>3, <3>4, <3>5
    <2> QED  BY <2>2, <2>3
  <1> QED  BY <1>1, AlwaysResting, PTL

\* One command that is not refused after a player left, no object of that player is
\* on the stack, no attacker is aimed at them and no block declaration is due from
\* them.
THEOREM NothingIsLeftBehind == Spec => DepartedLeaveNothing
  <1>1. Resting /\ [Next]_vars =>
            [(~Terminal(st) /\ ~Unsettled(st) /\ reply # "rejected")' =>
                /\ \A e \in st'.stack : e[2] \notin st.lost
                /\ st'.combat.attacked \cap st.lost = {}
                /\ st'.combat.waiting \cap st.lost = {}]_vars
    BY NextStepped DEF Stepped, Clean
  <1> QED  BY <1>1, AlwaysResting, PTL DEF Spec, DepartedLeaveNothing

\* A player at zero life stays in the game exactly while a resolution or a payment
\* is unfinished, also when a command is refused and not settled, and while it stays
\* unfinished at most one player leaves per command: the one who concedes.
THEOREM LossesWait == Spec => LossesWaitForTransactions
  <1>1. ASSUME NEW s \in State, NEW u \in State, NEW p \in Seat, u.lost \subseteq s.lost \cup {p}
        PROVE  Cardinality(u.lost \ s.lost) <= 1
    <2>1. u.lost \ s.lost = {} \/ u.lost \ s.lost = {p}
      BY <1>1
    <2>2. Cardinality({}) = 0 /\ Cardinality({p}) = 1
      BY FS_EmptySet, FS_Singleton
    <2> QED  BY <2>1, <2>2
  <1>2. ASSUME Resting, Resting', Next
        PROVE  /\ (~Terminal(st) /\ ~Unsettled(st))' => st'.doomed = {}
               /\ Unsettled(st) /\ Unsettled(st)' => Cardinality(st'.lost \ st.lost) <= 1
    <2>1. Carried(st, st') /\ st \in State /\ st' \in State
      BY <1>2, NextStepped DEF Resting, Inv, Settled, Sound
    <2>2. (~Terminal(st) /\ ~Unsettled(st))' => st'.doomed = {}
      BY <2>1 DEF Carried, Rested
    <2>3. Unsettled(st) /\ Unsettled(st)' => Cardinality(st'.lost \ st.lost) <= 1
      BY <1>1, <2>1 DEF Carried
    <2> QED  BY <2>2, <2>3
  <1>3. Resting /\ Resting' /\ [Next]_vars =>
            [/\ (~Terminal(st) /\ ~Unsettled(st))' => st'.doomed = {}
             /\ Unsettled(st) /\ Unsettled(st)' => Cardinality(st'.lost \ st.lost) <= 1]_vars
    BY <1>2
  <1> QED  BY <1>3, AlwaysResting, PTL DEF Spec, LossesWaitForTransactions

-----------------------------------------------------------------------------
(***************************************************************************)
(* Rounds of passes, when no structured yield moves priority uncounted.    *)
(***************************************************************************)

\* Every command but the structured yield keeps the round in order.
LEMMA NextRound == ~StructuredYield /\ Resting /\ RoundOK(st) /\ [Next]_vars => RoundOK(st)'
  <1> SUFFICES ASSUME ~StructuredYield, Resting, RoundOK(st), [Next]_vars PROVE RoundOK(st')
    OBVIOUS
  <1>1. CASE Next
    BY <1>1, NextStepped DEF Carried
  <1>2. CASE UNCHANGED vars
    BY <1>2 DEF vars
  <1> QED  BY <1>1, <1>2

\* Without the structured yield the round is always in order.
LEMMA AlwaysRound == ASSUME ~StructuredYield PROVE Spec => []RoundOK(st)
  <1>1. ~StructuredYield
    OBVIOUS
  <1>2. Resting /\ RoundOK(st) /\ [Next]_vars => RoundOK(st)'
    BY <1>1, NextRound
  <1> QED  BY <1>2, AlwaysResting, InitResting, PTL DEF Spec

\* Without the structured yield passes_since_stack_change counts different
\* players, and the one with priority has not passed yet: no player is counted
\* twice in a round, whoever leaves in the middle of it.
THEOREM PassesDistinct == ASSUME ~StructuredYield PROVE Spec => []PassesAreDistinct
  <1>1. RoundOK(st) => PassesAreDistinct
    BY DEF RoundOK, PassesAreDistinct
  <1> QED  BY <1>1, AlwaysRound, PTL

\* Without the structured yield a round of passes closes only when every player
\* in the game passed, unless a pass of a player who left was counted.
THEOREM RoundsComplete == ASSUME ~StructuredYield PROVE Spec => RoundIsComplete
  <1>1. ASSUME Resting, RoundOK(st), Next, reply' = "closed"
        PROVE  \/ st.passed \cap st.lost # {}
               \/ Live(st) \subseteq st.passed \cup {st.priority}
    <2>1. PICK p \in Seat : PassResolves(p) \/ PassAdvances(p)
      BY <1>1 DEF Next, Accept, PassOn, PassRefused, PassDeclines, BeginCast, PayLife, CommitCast,
                  CancelCast, PlayLand, SubmitChoice, PlaceTrigger, DeclareAttackers,
                  CommitAttack, CancelAttack, DeclareBlockers, AssignCombatDamage,
                  DiscardToHandSize, Yield, Concede
    <2>2. MayPass(p) /\ LastPass(st)
      BY <2>1 DEF PassResolves, PassAdvances
    <2>3. Free(p)
      BY <2>2 DEF MayPass
    <2>4. st \in State /\ st.priority \in Live(st)
      BY <1>1, <2>3, FreeRested
    <2> QED  BY <1>1, <2>2, <2>4, LastPassRound
  <1>2. Resting /\ RoundOK(st) /\ [Next]_vars =>
            [reply' = "closed" =>
                \/ st.passed \cap st.lost # {}
                \/ Live(st) \subseteq st.passed \cup {st.priority}]_vars
    BY <1>1
  <1> QED  BY <1>2, AlwaysResting, AlwaysRound, PTL DEF Spec, RoundIsComplete

-----------------------------------------------------------------------------
(***************************************************************************)
(* The turn order is the one TurnOrder promises.                           *)
(***************************************************************************)

\* The seat of the last normal turn.
Cursor(s) == IF s.resume = NoSeat THEN s.active ELSE (s.resume + N - 1) % N

\* TakeExtraTurn and TakeNormalTurn of TurnOrder, read off two engine states.
ExtraTurn(s, t) ==
    /\ \E i \in 1 .. Len(s.queue) :
          /\ s.queue[i] \notin s.lost
          /\ \A j \in 1 .. (i - 1) : s.queue[j] \in s.lost
          /\ t.active = s.queue[i]
          /\ t.queue = SubSeq(s.queue, i + 1, Len(s.queue))
    /\ Cursor(t) = Cursor(s)

NormalTurn(s, t) ==
    /\ \A i \in 1 .. Len(s.queue) : s.queue[i] \in s.lost
    /\ \E k \in 1 .. N :
          /\ t.active = (Cursor(s) + k) % N
          /\ t.active \notin s.lost
          /\ \A j \in 1 .. (k - 1) : ((Cursor(s) + j) % N) \in s.lost
    /\ Cursor(t) = t.active
    /\ t.queue = <<>>

\* The search round the table as a walk that stops at the first seat of the set.
LEMMA FirstAfterWalk ==
    ASSUME NEW from \in Seat, NEW S \in SUBSET Seat, S # {}
    PROVE  \E k \in 1 .. N : /\ FirstAfter(from, S) = (from + k) % N
                             /\ \A j \in 1 .. (k - 1) : ((from + j) % N) \in Seat \ S
  <1> DEFINE f == FirstAfter(from, S)
             k == Ahead(from, f)
  <1>1. f \in S /\ f \in Seat /\ \A q \in S : Ahead(from, f) <= Ahead(from, q)
    BY FirstAfterIsNearest
  <1> HIDE DEF f
  <1>2. k \in 1 .. N /\ (from + k) % N = f
    BY <1>1, StepsAhead
  <1>3. ASSUME NEW j \in 1 .. (k - 1) PROVE ((from + j) % N) \in Seat \ S
    <2> DEFINE q == (from + j) % N
    <2>1. j \in 1 .. N /\ j < k /\ N \in Nat /\ N > 0
      BY <1>2, SeatsAssumption
    <2>2. q \in Seat
      BY <2>1, SeatsAssumption DEF Seat
    <2>3. j = Ahead(from, q)
      BY <2>1, <2>2, StepsAhead
    <2>4. q \notin S
      BY <1>1, <1>2, <2>1, <2>3
    <2> QED  BY <2>2, <2>4
  <1> QED  BY <1>2, <1>3 DEF f

\* Walking on from the next seat, if that one is empty, leads to the same place.
LEMMA WalkFromNextSeat ==
    ASSUME NEW c \in Seat, NEW S \in SUBSET Seat, S # {}, NEW r \in Seat, r = (c + 1) % N
    PROVE  /\ r \in S => FirstAfter(c, S) = r
           /\ r \notin S => FirstAfter(c, S) = FirstAfter(r, S)
  <1>1. N \in Nat /\ N >= 2 /\ c \in 0 .. (N - 1) /\ r = (IF c = N - 1 THEN 0 ELSE c + 1)
    BY SeatsAssumption, SeatAfter DEF Seat
  <1>2. ASSUME r \in S PROVE FirstAfter(c, S) = r
    <2>1. \A q \in S : Ahead(c, r) <= Ahead(c, q)
      <3>1. Ahead(c, r) = 1
        BY <1>1 DEF Ahead
      <3>2. \A q \in S : Ahead(c, q) \in 1 .. N
        BY StepsAhead
      <3> QED  BY <1>1, <3>1, <3>2
    <2> QED  BY <1>2, <2>1, NearestIsFirstAfter
  <1>3. ASSUME r \notin S PROVE FirstAfter(c, S) = FirstAfter(r, S)
    <2> DEFINE w == FirstAfter(r, S)
    <2>1. w \in S /\ \A q \in S : Ahead(r, w) <= Ahead(r, q)
      BY FirstAfterIsNearest
    <2> HIDE DEF w
    <2>2. \A q \in S : Ahead(c, q) = Ahead(r, q) + 1 /\ Ahead(r, q) \in Int
      BY <1>1, <1>3 DEF Ahead, Seat
    <2>3. \A q \in S : Ahead(c, w) <= Ahead(c, q)
      BY <2>1, <2>2
    <2>4. FirstAfter(c, S) = w
      BY <2>1, <2>3, NearestIsFirstAfter
    <2> QED  BY <2>4 DEF w
  <1> QED  BY <1>2, <1>3

\* select_next_turn_after_cleanup takes the newest extra turn of a player in the
\* game, or else the next normal turn.
LEMMA SelectNextTurnOrdered ==
    ASSUME NEW s \in State, Live(s) # {}
    PROVE  ExtraTurn(s, SelectNextTurn(s)) \/ NormalTurn(s, SelectNextTurn(s))
  <1> DEFINE resume == IF s.resume = NoSeat /\ s.queue # <<>> THEN (s.active + 1) % N ELSE s.resume
             i == FirstExtra(s)
             t == SelectNextTurn(s)
             c == Cursor(s)
  <1>0. s.active \in Seat /\ s.resume \in 0 .. N /\ s.queue \in Seq(Seat) /\ Live(s) \in SUBSET Seat
    BY DEF State, Live
  <1>1. N \in Nat /\ N >= 2 /\ NoSeat = N /\ \A q \in Seat : q \in 0 .. (N - 1)
    BY SeatsAssumption DEF NoSeat, Seat
  <1>2. c \in Seat
    <2>1. s.resume # NoSeat => s.resume \in Seat
      BY <1>0, <1>1 DEF Seat
    <2> QED  BY <1>0, <2>1, SeatBefore DEF Cursor
  <1>3. resume = NoSeat => s.resume = NoSeat /\ s.queue = <<>>
    <2>1. (s.active + 1) % N \in Seat
      BY <1>0, SeatAfter
    <2> QED  BY <1>1, <2>1
  <1>4. resume # NoSeat => resume \in Seat /\ resume = (c + 1) % N /\ c = (resume + N - 1) % N
    <2>1. CASE s.resume = NoSeat
      <3>1. c = s.active
        BY <2>1 DEF Cursor
      <3>2. (c + 1) % N \in Seat /\ (c + 1) % N = (IF c = N - 1 THEN 0 ELSE c + 1)
        BY <1>2, SeatAfter
      <3> DEFINE r == (c + 1) % N
      <3>3. (r + N - 1) % N = (IF r = 0 THEN N - 1 ELSE r - 1)
        BY <3>2, SeatBefore
      <3>4. (r + N - 1) % N = c
        <4> HIDE DEF c, r
        <4> QED  BY <1>1, <1>2, <3>2, <3>3 DEF r
      <3>5. resume # NoSeat => resume = r
        BY <2>1, <3>1
      <3> HIDE DEF c, resume
      <3> QED  BY <3>2, <3>4, <3>5
    <2>2. CASE s.resume # NoSeat
      <3>1. resume = s.resume /\ s.resume \in Seat /\ c = (s.resume + N - 1) % N
        BY <1>0, <1>1, <2>2 DEF Cursor, Seat
      <3>2. c = (IF s.resume = 0 THEN N - 1 ELSE s.resume - 1)
        BY <3>1, SeatBefore
      <3>3. (c + 1) % N = (IF c = N - 1 THEN 0 ELSE c + 1)
        BY <1>2, SeatAfter
      <3> HIDE DEF c, resume
      <3>4. (c + 1) % N = s.resume
        BY <1>1, <3>1, <3>2, <3>3
      <3> QED  BY <3>1, <3>4
    <2> QED  BY <2>1, <2>2
  <1>5. /\ i \in 1 .. (Len(s.queue) + 1)
        /\ i <= Len(s.queue) => s.queue[i] \notin s.lost
        /\ \A j \in 1 .. Len(s.queue) : s.queue[j] \notin s.lost => i <= j
    BY FirstExtraIsFirst
  <1>6. CASE i <= Len(s.queue)
    <2> DEFINE q == SubSeq(s.queue, i + 1, Len(s.queue))
    <2>1. t = [s EXCEPT !.active = s.queue[i], !.queue = q, !.resume = resume]
      BY <1>6 DEF SelectNextTurn
    <2>2. q = SubSeq(s.queue, i + 1, Len(s.queue))
      OBVIOUS
    <2>3. resume # NoSeat
      BY <1>0, <1>3, <1>5, <1>6
    <2> HIDE DEF resume, i, q, c, t
    <2>4. t.active = s.queue[i] /\ t.queue = q /\ t.resume = resume
      BY <2>1 DEF State
    <2>5. Cursor(t) = Cursor(s)
      BY <1>4, <2>3, <2>4 DEF Cursor, c
    <2>6. i \in 1 .. Len(s.queue) /\ Len(s.queue) \in Nat
      BY <1>0, <1>5, <1>6
    <2>7. \A j \in 1 .. (i - 1) : s.queue[j] \in s.lost
      BY <1>5, <2>6
    <2> QED  BY <1>5, <1>6, <2>2, <2>4, <2>5, <2>6, <2>7 DEF ExtraTurn, t
  <1>7. CASE ~(i <= Len(s.queue))
    <2> DEFINE n == IF resume = NoSeat THEN NextInGame(s, s.active)
                    ELSE IF resume \notin s.lost THEN resume ELSE NextInGame(s, resume)
    <2>1. t = [s EXCEPT !.active = n, !.queue = <<>>, !.resume = NoSeat]
      BY <1>7 DEF SelectNextTurn
    <2>2. \A j \in 1 .. Len(s.queue) : s.queue[j] \in s.lost
      <3>1. Len(s.queue) \in Nat
        BY <1>0
      <3> HIDE DEF i
      <3> QED  BY <1>5, <1>7, <3>1
    <2>3. n = FirstAfter(c, Live(s))
      <3>1. CASE resume = NoSeat
        BY <1>3, <3>1 DEF NextInGame, Cursor
      <3>2. CASE resume # NoSeat
        <4>1. resume \in Seat /\ resume = (c + 1) % N
          BY <1>4, <3>2
        <4> HIDE DEF resume, c
        <4>2. /\ resume \in Live(s) => FirstAfter(c, Live(s)) = resume
              /\ resume \notin Live(s) => FirstAfter(c, Live(s)) = FirstAfter(resume, Live(s))
          BY <1>0, <1>2, <4>1, WalkFromNextSeat
        <4> QED  BY <3>2, <4>1, <4>2 DEF NextInGame, Live
      <3> QED  BY <3>1, <3>2
    <2> HIDE DEF n, c, resume, i, t
    <2>4. t.active = n /\ t.queue = <<>> /\ t.resume = NoSeat
      BY <2>1 DEF State
    <2>5. n \in Live(s)
      BY <1>0, <1>2, <2>3, FirstAfterInSet
    <2>6. PICK k \in 1 .. N : /\ FirstAfter(c, Live(s)) = (c + k) % N
                              /\ \A j \in 1 .. (k - 1) : ((c + j) % N) \in Seat \ Live(s)
      BY <1>0, <1>2, FirstAfterWalk
    <2>7. /\ t.active = (Cursor(s) + k) % N /\ t.active \notin s.lost
          /\ \A j \in 1 .. (k - 1) : ((Cursor(s) + j) % N) \in s.lost
      BY <2>3, <2>4, <2>5, <2>6 DEF Live, c
    <2>8. Cursor(t) = t.active
      BY <2>4 DEF Cursor
    <2> QED  BY <2>2, <2>4, <2>7, <2>8 DEF NormalTurn, t
  <1> QED  BY <1>6, <1>7

\* A command that moves the turn order moves it as TurnOrder allows.
LEMMA TurnedOrdered ==
    ASSUME NEW s \in State, Live(s) # {}, NEW t \in State, Turned(s, t)
    PROVE  \/ SameTurn(s, t)
           \/ Grants(s, t)
           \/ ExtraTurn(s, t)
           \/ NormalTurn(s, t)
  <1> SUFFICES ASSUME Rolls(s, t) PROVE ExtraTurn(s, t) \/ NormalTurn(s, t)
    BY DEF Turned
  <1>1. PICK x \in State : /\ SameTurn(s, x) /\ x.lost = s.lost
                           /\ SameTurn(SelectNextTurn(x), t)
    BY DEF Rolls
  <1> DEFINE y == SelectNextTurn(x)
  <1>2. Live(x) # {}
    BY <1>1 DEF Live
  <1>3. ExtraTurn(x, y) \/ NormalTurn(x, y)
    BY <1>2, SelectNextTurnOrdered
  <1> HIDE DEF y
  <1>4. Cursor(x) = Cursor(s) /\ Cursor(y) = Cursor(t)
    BY <1>1 DEF SameTurn, Cursor, y
  <1>5. ExtraTurn(x, y) => ExtraTurn(s, t)
    BY <1>1, <1>4 DEF SameTurn, ExtraTurn, y
  <1>6. NormalTurn(x, y) => NormalTurn(s, t)
    BY <1>1, <1>4 DEF SameTurn, NormalTurn, y
  <1> QED  BY <1>3, <1>5, <1>6

\* Somebody commands, so somebody is in the game.
LEMMA SomebodyCommands ==
    ASSUME Next PROVE Live(st) # {}
  <1>1. \E p \in Seat : MayCommand(p)
    BY DEF Next, PassOn, PassResolves, PassAdvances, PassRefused, MayPass, PassDeclines,
           BeginCast, PayLife, CommitCast, CancelCast, PlayLand, SubmitChoice, PlaceTrigger,
           DeclareAttackers, CommitAttack, CancelAttack, DeclareBlockers, AssignCombatDamage,
           DiscardToHandSize, Yield, Concede, Free, Answering
  <1> QED  BY <1>1 DEF MayCommand

\* The engine implements TurnOrder: every command leaves the turn order alone,
\* grants one extra turn, or takes the turn select_next_turn_after_cleanup owes,
\* however extra turns, departures and losses interleave.
THEOREM TurnOrderImplemented == Spec => TurnOrderHolds
  <1>1. Init => Order!TurnInit
    <2> SUFFICES ASSUME Init PROVE Order!TurnInit
      OBVIOUS
    <2>1. st.active \in Seat /\ st.resume = NoSeat /\ st.queue = <<>> /\ st.lost = {}
      BY DEF Init
    <2> QED  BY <2>1 DEF Order!TurnInit, Order!Table, Seat
  <1>2. ASSUME Resting, Resting', Next PROVE Order!TurnNext
    <2>1. st \in State /\ st' \in State /\ Turned(st, st')
      BY <1>2, NextStepped DEF Carried, Resting, Inv, Settled, Sound
    <2>2. /\ st.lost \subseteq st'.lost /\ st'.lost \subseteq Order!Table
          /\ Live(st) = Order!Table \ st.lost
      BY <2>1 DEF Turned, State, Seat, Order!Table, Live
    <2>3. CASE SameTurn(st, st')
      BY <2>2, <2>3 DEF SameTurn, Order!TurnNext, Order!DuringTurn
    <2>4. CASE Grants(st, st')
      BY <2>2, <2>4 DEF Grants, Order!TurnNext, Order!DuringTurn
    <2>5. CASE ExtraTurn(st, st')
      BY <2>2, <2>5 DEF ExtraTurn, Cursor, Order!TurnNext, Order!TakeExtraTurn
    <2>6. CASE NormalTurn(st, st')
      BY <2>2, <2>6 DEF NormalTurn, Cursor, Order!TurnNext, Order!TakeNormalTurn
    <2> QED  BY <1>2, <2>1, <2>3, <2>4, <2>5, <2>6, SomebodyCommands, TurnedOrdered
  <1>3. Resting /\ Resting' /\ [Next]_vars => [Order!TurnNext]_(Order!tvars)
    BY <1>2 DEF vars, Order!tvars
  <1> QED  BY <1>1, <1>3, AlwaysResting, PTL DEF Spec, TurnOrderHolds, Order!TurnSpec
=============================================================================
