------------------------------ MODULE Priority ------------------------------
(***************************************************************************)
(* The turn and priority machine of the rules engine (tricerules-core):    *)
(* who may act, when a round of passes closes, how steps and turns follow  *)
(* each other, and what happens to all of that when a player leaves a      *)
(* free-for-all game in the middle of it.                                  *)
(*                                                                         *)
(* One variable, st, mirrors GameEngine.state.  Every command is one step: *)
(* the relay serialises commands and the engine settles each one before it *)
(* answers, so the interleavings are those of whole commands of different  *)
(* players.  Cards, mana, life totals and zones are abstracted to the      *)
(* effect they can have on control: a resolving object may kill players,   *)
(* grant an extra turn, disturb combat, ask a question or end the game.    *)
(***************************************************************************)
EXTENDS Seats, Sequences, FiniteSets

CONSTANTS
    MaxPlays,        \* bound: objects put on the stack, or lands, per turn
    MaxQueue,        \* bound: length of the queue of extra turns
    StructuredYield  \* whether the PrimitiveYieldStructured command is used

ASSUME BoundsAssumption == MaxPlays \in Nat /\ MaxQueue \in Nat
ASSUME YieldAssumption == StructuredYield \in BOOLEAN

VARIABLES
    st,     \* the engine state, see State
    reply   \* how the last command ended: "ok", "closed" (a round of passes
            \* was completed) or "rejected" although it changed the state

vars == <<st, reply>>

NoOutcome == N                \* the game goes on
Draw == N + 1                 \* GameOutcome::Draw; a seat is Winner(seat)

Steps == {"Upkeep", "Draw", "Main1", "BeginCombat", "DeclareAttackers",
          "DeclareBlockers", "FirstStrikeDamage", "CombatDamage",
          "EndCombat", "Main2", "EndStep", "Cleanup"}

(***************************************************************************)
(* CombatState.  Attackers are grouped by the player they attack: attacked *)
(* are those players, blocks the ones whose attackers are blocked, needs   *)
(* the ones with an attacker that needs an explicit damage assignment, and *)
(* assigned the ones that have it.  short are the ones of needs with a     *)
(* trampler whose power does not cover the lethal damage of its blockers:  *)
(* no assignment for it is legal.  waiting are the defenders able to block *)
(* that have not declared yet.  thinned is a bound, not code: the groups   *)
(* of blockers that lost one and still need an assignment, which happens   *)
(* to a group at most once in a combat.                                    *)
(***************************************************************************)
Combat == [on : BOOLEAN,            \* state.combat.is_some()
           declared : BOOLEAN,      \* attackers_declared
           attacked : SUBSET Seat,
           waiting : SUBSET Seat,
           blocked : BOOLEAN,       \* blockers_declared
           blocks : SUBSET Seat,
           needs : SUBSET Seat,
           assigned : SUBSET Seat,
           short : SUBSET Seat,
           thinned : SUBSET Seat,
           needed : BOOLEAN,        \* damage_assignment_needed
           assign : BOOLEAN,        \* assign_combat_damage_phase
           firstDone : BOOLEAN]     \* first_strike_damage_done

NoCombat == [on |-> FALSE, declared |-> FALSE, attacked |-> {}, waiting |-> {},
             blocked |-> FALSE, blocks |-> {}, needs |-> {}, assigned |-> {},
             short |-> {}, thinned |-> {}, needed |-> FALSE, assign |-> FALSE, firstDone |-> FALSE]

NewCombat == [NoCombat EXCEPT !.on = TRUE]

(***************************************************************************)
(* An unfinished transaction that somebody has to finish: a parked         *)
(* resolution, a spell or ability being paid for, an attack whose tax is   *)
(* being paid, or a trigger waiting for its target or its place.           *)
(***************************************************************************)
Choice == [kind : {"None", "Resolution", "Cast", "Attack", "Trigger"},
           player : 0 .. N]

NoChoice == [kind |-> "None", player |-> NoSeat]

(***************************************************************************)
(* doomed are the players at zero life or owed a library loss, crushed the *)
(* ones with 21 damage of one commander or ten poison: both lose only when *)
(* the matching state-based action is performed.  passed is not in the     *)
(* code: it remembers who made the passes that passes counts.              *)
(***************************************************************************)
State == [lost : SUBSET Seat,
          outcome : 0 .. (N + 1),
          active : Seat,                       \* active_player_idx
          priority : Seat,                     \* priority_idx
          passes : Nat,                        \* passes_since_stack_change
          passed : SUBSET Seat,
          step : Steps,                        \* turn_step
          stack : SUBSET ((1 .. MaxPlays) \X Seat),
          plays : 0 .. MaxPlays,
          choice : Choice,
          combat : Combat,
          damagePending : BOOLEAN,             \* combat_damage_priority_pending
          discard : 0 .. N,                    \* cleanup_discard_player
          cleanupPriority : BOOLEAN,           \* cleanup_priority_active
          cleanupSba : BOOLEAN,                \* cleanup_sba_performed
          queue : Seq(Seat),                   \* extra_turn_queue
          resume : 0 .. N,                     \* normal_turn_resume_player
          doomed : SUBSET Seat,
          crushed : SUBSET Seat]

Live(s) == Seat \ s.lost
Terminal(s) == s.outcome # NoOutcome

(***************************************************************************)
(* Seats.                                                                  *)
(***************************************************************************)

\* Mutant: the walk does not wrap.
NextSeatNoWrap(s, from) == from + 1

NextInGame(s, from) == FirstAfter(from, Live(s))

ActiveOrNext(s) ==
    IF s.active \in s.lost THEN NextInGame(s, s.active) ELSE s.active

\* Every opponent of the active player still in the game.
Defending(s) == Live(s) \ {s.active}

\* Mutant: the last survivor draws instead of winning.
LastSurvivorDraws(survivors) == IF Cardinality(survivors) <= 1 THEN Draw ELSE NoOutcome

\* What a set of survivors decides.
OutcomeOf(survivors) ==
    IF survivors = {} THEN Draw
    ELSE IF \E p \in Seat : survivors = {p}
         THEN CHOOSE p \in Seat : survivors = {p}
         ELSE NoOutcome

ResetPasses(s) == [s EXCEPT !.passes = 0, !.passed = {}]

\* Most steps begin by giving the active player, in the game or not, priority.
Enter(s, step) == [s EXCEPT !.step = step, !.priority = s.active]
EnterFresh(s, step) == ResetPasses(Enter(s, step))

\* An object goes on the stack.
Push(s, p) ==
    ResetPasses([s EXCEPT !.plays = s.plays + 1,
                          !.stack = s.stack \cup {<<s.plays + 1, p>>}])

Top(s) == CHOOSE e \in s.stack : \A f \in s.stack : f[1] <= e[1]

Ask(s, kind, p) == [s EXCEPT !.choice = [kind |-> kind, player |-> p]]

\* The questions a parked transaction may put to somebody still in the game.
Parked(s) == {Ask(s, "Resolution", p) : p \in Live(s)}

Parking(s) == s.choice.kind \in {"Resolution", "Attack", "Trigger"}

-----------------------------------------------------------------------------
(***************************************************************************)
(* Leaving the game.                                                       *)
(***************************************************************************)

\* Mutant: the stack keeps the objects of departed players.
RemoveFromCombatOnly(s) == [s EXCEPT !.combat.attacked = @ \ s.lost]

\* Attackers of the players in `gone`, and the blocks and assignments that
\* concern them, leave combat.
WithoutDefenders(c, gone) ==
    [c EXCEPT !.attacked = @ \ gone, !.waiting = @ \ gone, !.blocks = @ \ gone,
              !.needs = @ \ gone, !.assigned = @ \ gone, !.short = @ \ gone,
              !.thinned = @ \ gone]

\* Objects of departed players vanish from the stack, their attackers and the
\* attackers aimed at them from combat.  damage_assignment_needed stays.
RemoveDeparted(s) ==
    [s EXCEPT !.stack = {e \in s.stack : e[2] \notin s.lost},
              !.combat = WithoutDefenders(@, IF s.active \in s.lost THEN Seat ELSE s.lost)]

\* What may become of the unfinished transaction.  A question put to a departed
\* player passes to somebody else or is dropped; a transaction of a surviving
\* player may also end because the departed player owned the object it is about.
ChoicesAfterDeparture(s) ==
    LET c == s.choice
        left == c.player \in s.lost
    IN  {d \in {c, NoChoice} \cup {[kind |-> "Resolution", player |-> p] : p \in Live(s)} :
            \/ d = c /\ ~left
            \/ d = NoChoice /\ (left \/ c.kind \in {"None", "Resolution", "Cast"})
            \/ d.player \in Live(s) /\ c.kind = "Resolution" /\ left}

\* Mutant: the block declaration waits for a player who left.
BlocksNotReconciled(s) == s

\* The queue of block declarations moves on; when nobody is left in it the
\* declaration is complete.
ReconcileBlocks(s) ==
    IF s.step # "DeclareBlockers" \/ ~s.combat.on \/ s.combat.blocked THEN s
    ELSE IF s.combat.waiting # {}
         THEN ResetPasses([s EXCEPT !.priority = FirstAfter(s.active, s.combat.waiting)])
         ELSE ResetPasses([s EXCEPT !.combat = [@ EXCEPT !.blocked = TRUE],
                                    !.priority = ActiveOrNext(s)])

\* Mutants: priority stays where it is, or moves within the same round of passes.
PriorityNotReconciled(s) == s

PriorityMovesInRound(s) ==
    IF s.priority \in s.lost THEN [s EXCEPT !.priority = NextInGame(s, s.priority)] ELSE s

\* Priority held by a departed player goes to the next player in the game.
ReconcilePriority(s) ==
    IF s.priority \in s.lost
    THEN ResetPasses([s EXCEPT !.priority = NextInGame(s, s.priority)])
    ELSE s

ReconcileDeparted(s) ==
    IF Terminal(s) \/ s.lost = {} THEN {s}
    ELSE LET r == RemoveDeparted(s)
         IN  {ReconcilePriority(ReconcileBlocks([r EXCEPT !.choice = c])) :
                  c \in ChoicesAfterDeparture(s)}

(***************************************************************************)
(* Settlement: what the engine does after every accepted command.          *)
(***************************************************************************)

\* commit_pending_library_losses and sweep_life.
SweepLife(s) ==
    [s EXCEPT !.lost = s.lost \cup s.doomed,
              !.doomed = {},
              !.outcome = OutcomeOf(Live(s) \ s.doomed)]

Missing(c) == c.needs \ c.assigned # {}

Recomputed(c) == [c EXCEPT !.needed = c.blocked /\ Missing(c)]

\* The group attacking d needs no assignment, or cannot or can get one.
NoNeed(c, d) == [c EXCEPT !.needs = @ \ {d}, !.assigned = @ \ {d}, !.short = @ \ {d}]
CoverOrNot(c, d) == {[c EXCEPT !.short = @ \ {d}], [c EXCEPT !.short = @ \cup {d}]}

\* Creatures leave combat and damage_assignment_needed is recomputed: all who
\* attack d, or blockers of theirs, with or without leaving one attacker that
\* still needs an assignment.
Removals(c) ==
    {Recomputed([NoNeed(c, d) EXCEPT !.attacked = @ \ {d}, !.blocks = @ \ {d}]) : d \in c.attacked}
    \cup {Recomputed(NoNeed(c, d)) : d \in c.blocks}
    \cup UNION {{Recomputed(e) :
                    e \in CoverOrNot([c EXCEPT !.assigned = @ \ {d}, !.thinned = @ \cup {d}], d)} :
                d \in c.needs \ c.thinned}

\* apply_sbas also makes players lose, but decides no outcome; after combat
\* damage it also buries creatures.
ApplySbas(s) ==
    {[s EXCEPT !.lost = s.lost \cup s.crushed, !.crushed = {}, !.combat = c] :
        c \in {s.combat} \cup (IF s.damagePending THEN Removals(s.combat) ELSE {})}

\* Waiting triggers go on the stack, or stop at a question to their controller.
FlushTriggers(s) ==
    {s} \cup (IF s.choice.kind = "None" /\ s.plays < MaxPlays
              THEN {Push(s, p) : p \in Live(s)}
                   \cup {Ask(s, "Trigger", p) : p \in Live(s)}
              ELSE {})

\* A combat damage step owes one priority window once everything is settled.
PublishCombatPriority(s) ==
    IF s.damagePending /\ ~Parking(s)
    THEN ResetPasses([s EXCEPT !.priority = ActiveOrNext(s),
                               !.damagePending = FALSE])
    ELSE s

\* The game is over: unfinished transactions are abandoned, all but the attack
\* declaration.
FinishTerminal(s) ==
    [s EXCEPT !.choice = IF s.choice.kind = "Attack" THEN s.choice ELSE NoChoice,
              !.damagePending = FALSE,
              !.discard = NoSeat]

\* No state-based action and no departure is looked at while a resolution, a
\* payment or an attack declaration is unfinished.
Unsettled(s) == s.choice.kind \in {"Resolution", "Cast", "Attack"}

SettleLosses(s) ==
    LET w == SweepLife(s)
    IN  IF Terminal(w) THEN {FinishTerminal(w)}
        ELSE {PublishCombatPriority(f) : f \in
                 UNION {FlushTriggers(a) : a \in UNION {ApplySbas(r) : r \in ReconcileDeparted(w)}}}

\* Mutant: every unfinished transaction postpones the losses, triggers included.
SettleWaitsForTriggers(s) ==
    IF Terminal(s) THEN {FinishTerminal(s)}
    ELSE IF s.choice.kind # "None" THEN {PublishCombatPriority(s)}
         ELSE SettleLosses(s)

Settle(s) ==
    IF Terminal(s) THEN {FinishTerminal(s)}
    ELSE IF Unsettled(s) THEN {PublishCombatPriority(s)}
         ELSE SettleLosses(s)

-----------------------------------------------------------------------------
(***************************************************************************)
(* Resolution.                                                             *)
(***************************************************************************)

\* Combat after an effect that leaves the turn structure alone: creatures leave
\* it, or a keyword (trample) gained or lost or a changed power or toughness
\* changes who needs an assignment and who can get one, but not the flag.
CombatChanges(c) ==
    Removals(c)
    \cup {NoNeed(c, d) : d \in c.needs}
    \cup UNION {CoverOrNot([c EXCEPT !.needs = @ \cup {d}], d) : d \in c.blocks \ c.assigned}

\* schedule_extra_turns: the newest grant is taken first.
ScheduleExtraTurn(s, p) == [s EXCEPT !.queue = <<p>> \o s.queue]

\* What a finished resolution may have done.
Effects(s) ==
    {[s EXCEPT !.doomed = D] : D \in SUBSET Live(s)}
    \cup {ScheduleExtraTurn(s, p) : p \in IF Len(s.queue) < MaxQueue THEN Live(s) ELSE {}}
    \cup {[s EXCEPT !.combat = c] : c \in CombatChanges(s.combat)}

\* An effect that says a player wins the game.
GameEnded(s) == {[s EXCEPT !.outcome = p] : p \in Live(s)}

ResolveTopOfStack(s) ==
    LET r == [s EXCEPT !.stack = s.stack \ {Top(s)}]
    IN  Effects(r) \cup Parked(r) \cup GameEnded(r)

MarkDamage(c, t) == [c EXCEPT !.firstDone = @ \/ t = "FirstStrikeDamage"]

\* A combat damage step begins; it owes a priority window.
BeginDamageStep(s, t) ==
    [EnterFresh(s, t) EXCEPT !.combat = MarkDamage(@, t), !.damagePending = TRUE]

DamageSteps(s) ==
    IF s.combat.firstDone THEN {"CombatDamage"} ELSE {"FirstStrikeDamage", "CombatDamage"}

Victims(s) == s.combat.attacked \cap Live(s)

StrikeDown(s, D, C) == [s EXCEPT !.doomed = D, !.crushed = C \ D]

\* Combat damage kills players under attack: by life, by poison or by a
\* commander.  The damage may also park on the order of replacement effects.
DealDamage(s) ==
    Parked(s) \cup UNION {{StrikeDown(s, D, C) : C \in SUBSET Victims(s)} :
                              D \in SUBSET Victims(s)}

ResolveCombatDamageStep(s) ==
    UNION {DealDamage(BeginDamageStep(s, t)) : t \in DamageSteps(s)}

(***************************************************************************)
(* Cleanup and the choice of the next turn.                                *)
(***************************************************************************)

\* The first entry of the queue whose player is still in the game, or
\* Len(queue) + 1.
FirstExtra(s) ==
    CHOOSE i \in 1 .. (Len(s.queue) + 1) :
        /\ i <= Len(s.queue) => s.queue[i] \notin s.lost
        /\ \A j \in 1 .. Len(s.queue) : s.queue[j] \notin s.lost => i <= j

\* Mutant: the turn after an extra turn is counted from the extra turn.
ForgetResumePlayer(s) ==
    LET i == FirstExtra(s)
    IN  IF i <= Len(s.queue)
        THEN [s EXCEPT !.active = s.queue[i],
                       !.queue = SubSeq(s.queue, i + 1, Len(s.queue))]
        ELSE [s EXCEPT !.active = NextInGame(s, s.active), !.queue = <<>>]

SelectNextTurn(s) ==
    LET resume == IF s.resume = NoSeat /\ s.queue # <<>>
                  THEN (s.active + 1) % N ELSE s.resume
        i == FirstExtra(s)
    IN  IF i <= Len(s.queue)
        THEN [s EXCEPT !.active = s.queue[i],
                       !.queue = SubSeq(s.queue, i + 1, Len(s.queue)),
                       !.resume = resume]
        ELSE [s EXCEPT !.active = IF resume = NoSeat THEN NextInGame(s, s.active)
                                  ELSE IF resume \notin s.lost THEN resume
                                  ELSE NextInGame(s, resume),
                       !.queue = <<>>,
                       !.resume = NoSeat]

RollTurn(s) ==
    LET t == SelectNextTurn([s EXCEPT !.cleanupPriority = FALSE,
                                      !.cleanupSba = FALSE,
                                      !.plays = 0,
                                      !.combat = NoCombat])
    IN  EnterFresh(t, "Upkeep")

\* A state-based action performed during cleanup counts as a play, so that the
\* cleanup steps of one turn are bounded.
CleanupSbas(s) ==
    {s} \cup {[s EXCEPT !.cleanupSba = TRUE, !.plays = s.plays + 1] :
                  x \in {s.plays} \ {MaxPlays}}

\* Mutants: the discard stays owed after it was made; every cleanup step is
\* followed by another one.
DiscardStaysOwed(s) == {RollTurn(s)}

CleanupRepeats(s) ==
    {ResetPasses([s EXCEPT !.discard = NoSeat, !.cleanupPriority = TRUE, !.priority = s.active])}

\* Cleanup ends the turn, unless something happened in it: then the active
\* player gets priority and another cleanup step follows.
FinishCleanup(s) ==
    {IF f.cleanupSba \/ f.stack # {} \/ Parking(f)
     THEN ResetPasses([f EXCEPT !.cleanupPriority = TRUE, !.priority = f.active])
     ELSE RollTurn(f) :
        f \in UNION {FlushTriggers(g) : g \in CleanupSbas([s EXCEPT !.discard = NoSeat])}}

\* A player with too many cards owes a discard; a departed player has no hand.
StartCleanup(s) ==
    {ResetPasses([g EXCEPT !.discard = g.active, !.priority = g.active]) :
        g \in IF s.active \in s.lost THEN {} ELSE CleanupSbas(s)}
    \cup FinishCleanup(s)

(***************************************************************************)
(* The step machine.                                                       *)
(***************************************************************************)

\* finish_draw_step_action: losses are settled before priority is given.
FinishDraw(s) ==
    {IF r.active \in r.lost THEN r ELSE ResetPasses(r) : r \in ReconcileDeparted(SweepLife(s))}

\* The turn-based draw: it may ask (replacement effects) and the active player
\* may have nothing to draw.
DrawStep(s) ==
    LET d == Enter(s, "Draw")
    IN  FinishDraw(d)
        \cup (IF s.active \in s.lost THEN {}
              ELSE Parked(d) \cup FinishDraw([d EXCEPT !.doomed = {s.active}]))

\* Nobody can block: the declaration is complete and empty.
NoBlocks(c) ==
    [c EXCEPT !.waiting = {}, !.blocked = TRUE, !.blocks = {}, !.needs = {},
              !.assigned = {}, !.short = {}, !.thinned = {}, !.needed = FALSE, !.assign = FALSE]

\* Who can block is settled when the step begins.
BeginBlocks(s) ==
    {IF W = {} THEN EnterFresh([s EXCEPT !.combat = NoBlocks(@)], "DeclareBlockers")
     ELSE ResetPasses([s EXCEPT !.step = "DeclareBlockers",
                                !.combat = [@ EXCEPT !.waiting = W],
                                !.priority = FirstAfter(s.active, W)]) :
        W \in SUBSET (s.combat.attacked \cap Defending(s))}

\* Mutant: the assignment is demanded before it is opened.
AssignmentNeverOpens(s) == s.step = "DeclareBlockers" /\ Missing(s.combat)

\* "must assign combat damage before combat damage resolves"
AdvanceRefused(s) ==
    /\ s.step = "DeclareBlockers"
    /\ IF Missing(s.combat) THEN s.combat.assign ELSE s.combat.needed

\* How a step may be refused to end, and what that leaves.  Leaving the first-strike
\* damage step begins the second one before it looks for the assignments: when one
\* was lost with a blocker the refusal comes before any damage, but the new step,
\* and the window it owes, stay.
Refusals(s) ==
    (IF AdvanceRefused(s) THEN {s} ELSE {})
    \cup {BeginDamageStep(s, "CombatDamage") :
              d \in IF s.step = "FirstStrikeDamage"
                    THEN (s.combat.needs \ s.combat.assigned) \cap s.combat.attacked
                    ELSE {}}

AdvOnEmptyStack(s) ==
    CASE s.step = "Upkeep" -> DrawStep(s)
      [] s.step = "Draw" -> {EnterFresh([s EXCEPT !.combat = NoCombat], "Main1")}
      [] s.step = "Main1" -> {Enter(s, "BeginCombat")}
      [] s.step = "BeginCombat" ->
            {EnterFresh([s EXCEPT !.combat = NoCombat], "EndCombat")}
            \cup {Enter([s EXCEPT !.combat = NewCombat], "DeclareAttackers") :
                      x \in {s.active} \ s.lost}
      [] s.step = "DeclareAttackers" -> BeginBlocks(s)
      [] s.step = "DeclareBlockers" ->
            IF Missing(s.combat)
            THEN {EnterFresh([s EXCEPT !.combat = [@ EXCEPT !.assign = TRUE]], "DeclareBlockers")}
            ELSE ResolveCombatDamageStep(s)
      [] s.step = "FirstStrikeDamage" -> ResolveCombatDamageStep(s)
      [] s.step = "CombatDamage" -> {EnterFresh(s, "EndCombat")}
      [] s.step = "EndCombat" -> {Enter([s EXCEPT !.combat = NoCombat], "Main2")}
      [] s.step = "Main2" -> {EnterFresh(s, "EndStep")}
      [] s.step = "EndStep" ->
            UNION {StartCleanup(g) : g \in
                      CleanupSbas(ResetPasses([s EXCEPT !.step = "Cleanup",
                                                        !.cleanupSba = FALSE]))}
      [] s.step = "Cleanup" ->
            IF s.cleanupPriority
            THEN StartCleanup([s EXCEPT !.cleanupPriority = FALSE, !.cleanupSba = FALSE])
            ELSE {EnterFresh(s, "Cleanup")}

-----------------------------------------------------------------------------
(***************************************************************************)
(* Declarations.                                                           *)
(***************************************************************************)

\* Mutant: the skipped combat is not cleared away.
DeclineKeepsCombat(s) == EnterFresh(s, "Main2")

\* set_attackers with nothing in it: combat is skipped.
DeclineAttack(s) == EnterFresh([s EXCEPT !.combat = NoCombat], "EndCombat")

\* finalize_attack_declaration: the step stays and the attacker has priority.
FinalizeAttack(s, A) ==
    EnterFresh([s EXCEPT !.combat = [NewCombat EXCEPT !.declared = TRUE, !.attacked = A],
                         !.choice = NoChoice], "DeclareAttackers")

\* The blocks of defender d: none, some, or some that need an explicit damage
\* assignment, which may be an impossible one.
SetBlockers(s, d, blocks, needs, short) ==
    LET c == [s.combat EXCEPT !.blocks = @ \cup blocks,
                              !.needs = @ \cup needs,
                              !.short = @ \cup short,
                              !.assigned = {},
                              !.needed = @ \/ needs # {},
                              !.assign = FALSE,
                              !.waiting = @ \ {d}]
        done == c.waiting = {}
    IN  ResetPasses([s EXCEPT !.combat = [c EXCEPT !.blocked = done],
                              !.priority = IF done THEN s.active
                                           ELSE FirstAfter(s.active, c.waiting)])

\* set_blockers refuses anyone but the defender whose declaration is due.
MayDeclareBlocks(s, p) ==
    /\ s.step = "DeclareBlockers"
    /\ ~s.combat.blocked
    /\ p \in s.combat.waiting
    /\ s.priority = p

\* An empty declaration is due from p, and a pass stands for it.
MayDecline(s, p) ==
    \/ s.step = "DeclareAttackers" /\ ~s.combat.declared /\ p = s.active /\ s.priority = p
    \/ MayDeclareBlocks(s, p)

DeclarationDue(s) ==
    \/ s.step = "DeclareAttackers" /\ ~s.combat.declared
    \/ s.step = "DeclareBlockers" /\ ~s.combat.blocked

-----------------------------------------------------------------------------
(***************************************************************************)
(* Commands.                                                               *)
(***************************************************************************)

Accept(states) ==
    /\ reply' = "ok"
    /\ \E t \in states : st' \in Settle(t)

\* apply_command: nothing after the end, nothing from a player who left, and
\* dispatch_command: nothing but the answer while a transaction is unfinished.
MayCommand(p) == ~Terminal(st) /\ p \in Live(st)
Free(p) == MayCommand(p) /\ st.choice.kind = "None"
Answering(p, kind) == MayCommand(p) /\ st.choice = [kind |-> kind, player |-> p]

\* One more pass is counted and priority moves on.
CountPass(s) ==
    [s EXCEPT !.passes = s.passes + 1,
              !.passed = s.passed \cup {s.priority},
              !.priority = NextInGame(s, s.priority)]

\* Mutant: two passes close a round, as in a duel.
TwoPassesClose(s) == s.passes + 1 >= 2

LastPass(s) == s.passes + 1 >= Cardinality(Live(s))

\* "discard to hand size first"
DiscardFirst(s) == s.stack = {} /\ s.step = "Cleanup" /\ s.discard # NoSeat

\* pass_priority, where PassPriority does not stand for an empty declaration.
MayPass(p) ==
    /\ Free(p)
    /\ st.priority = p
    /\ ~(st.step = "DeclareAttackers" /\ ~st.combat.declared /\ p = st.active)
    /\ ~(st.step = "DeclareBlockers" /\ ~st.combat.blocked /\ p # st.active)
    /\ ~DiscardFirst(st)

PassOn(p) ==
    /\ MayPass(p)
    /\ ~LastPass(st)
    /\ Accept({CountPass(st)})

\* Everybody passed on a stack that is not empty: its top object resolves.
PassResolves(p) ==
    /\ MayPass(p)
    /\ LastPass(st)
    /\ st.stack # {}
    /\ reply' = "closed"
    /\ \E t \in ResolveTopOfStack([ResetPasses(st) EXCEPT !.priority = st.active]) :
          st' \in Settle(t)

\* Everybody passed on the empty stack: the step ends.
PassAdvances(p) ==
    /\ MayPass(p)
    /\ LastPass(st)
    /\ st.stack = {}
    /\ ~AdvanceRefused(st)
    /\ reply' = "closed"
    /\ \E t \in AdvOnEmptyStack(ResetPasses(CountPass(st))) : st' \in Settle(t)

\* The last pass is refused after it was counted.  Nothing takes back what it
\* changed, and a refused command is not settled.
PassRefused(p) ==
    /\ MayPass(p)
    /\ LastPass(st)
    /\ st.stack = {}
    /\ reply' = "rejected"
    /\ st' \in Refusals(ResetPasses(CountPass(st)))

\* A pass that stands for an empty declaration.
PassDeclines(p) ==
    /\ Free(p)
    /\ MayDecline(st, p)
    /\ Accept({IF st.step = "DeclareAttackers" THEN DeclineAttack(st)
               ELSE SetBlockers(st, p, {}, {}, {})})

\* begin_spell_cast, begin_ability_activation.
BeginCast(p) ==
    /\ Free(p)
    /\ st.priority = p
    /\ ~DeclarationDue(st)
    /\ st.step = "Cleanup" => st.cleanupPriority
    /\ st.plays < MaxPlays
    /\ Accept({Ask(st, "Cast", p)})

\* A mana ability activated while a spell or an attack tax is paid for may cost
\* the payer the last life.
PayLife(p) ==
    /\ Answering(p, "Cast") \/ Answering(p, "Attack")
    /\ Accept({[st EXCEPT !.doomed = @ \cup {p}]})

CommitCast(p) ==
    /\ Answering(p, "Cast")
    /\ Accept({Push([st EXCEPT !.choice = NoChoice, !.priority = p], p)})

CancelCast(p) ==
    /\ Answering(p, "Cast")
    /\ Accept({[st EXCEPT !.choice = NoChoice]})

\* play_land: sorcery speed; a land counts as a play.
PlayLand(p) ==
    /\ Free(p)
    /\ st.priority = p
    /\ st.active = p
    /\ st.step \in {"Main1", "Main2"}
    /\ st.stack = {}
    /\ st.plays < MaxPlays
    /\ Accept({ResetPasses([st EXCEPT !.plays = @ + 1])})

\* submit_resolution_choice: the parked resolution runs to its end.
SubmitChoice(p) ==
    /\ Answering(p, "Resolution")
    /\ LET r == [st EXCEPT !.choice = NoChoice]
       IN  Accept(Effects(IF st.step = "Draw" THEN ResetPasses(r) ELSE r))

\* choose_trigger_target, submit_trigger_order: the trigger goes on the stack.
PlaceTrigger(p) ==
    /\ Answering(p, "Trigger")
    /\ Accept({Push([st EXCEPT !.choice = NoChoice], p)})

\* set_attackers.  Nothing asks whether attackers were declared already.
DeclareAttackers(p) ==
    /\ Free(p)
    /\ st.step = "DeclareAttackers"
    /\ p = st.active
    /\ st.priority = p
    /\ \/ Accept({DeclineAttack(st)})
       \/ Accept({FinalizeAttack(st, A) : A \in SUBSET Defending(st) \ {{}}})
       \/ Accept({Ask(st, "Attack", p)})

\* commit_attack_declaration: attackers that are gone by then do not attack.
CommitAttack(p) ==
    /\ Answering(p, "Attack")
    /\ st.priority = p
    /\ Accept({FinalizeAttack(st, A) : A \in SUBSET (Seat \ {p})})

CancelAttack(p) ==
    /\ Answering(p, "Attack")
    /\ st.priority = p
    /\ Accept({[st EXCEPT !.choice = NoChoice]})

DeclareBlockers(p) ==
    /\ Free(p)
    /\ MayDeclareBlocks(st, p)
    /\ Accept(UNION {{SetBlockers(st, p, {p}, needs, short) : short \in SUBSET needs} :
                        needs \in SUBSET {p}})

\* assign_combat_damage asks for neither priority nor an empty stack.  A trampler
\* has to give lethal damage to every blocker, out of no more than its power.
AssignCombatDamage(p) ==
    /\ Free(p)
    /\ p = st.active
    /\ st.combat.blocked /\ st.combat.needed /\ st.combat.assign
    /\ \E d \in st.combat.needs \ st.combat.short :
          LET c == [st.combat EXCEPT !.assigned = @ \cup {d}]
              a == [st EXCEPT !.combat = c]
              b == [st EXCEPT !.combat = [c EXCEPT !.needed = FALSE]]
          IN  Accept(IF Missing(c) THEN {a} ELSE ResolveCombatDamageStep(b))

DiscardToHandSize(p) ==
    /\ Free(p)
    /\ st.step = "Cleanup"
    /\ st.discard = p
    /\ Accept(UNION {{g} \cup FinishCleanup(g) : g \in CleanupSbas(st)})

\* primitive_yield_structured: no priority is asked for and no pass counted.
Yield(p) ==
    /\ StructuredYield
    /\ Free(p)
    /\ st.stack = {}
    /\ \/ /\ st.step = "DeclareAttackers" /\ p = st.active /\ st.priority = p
          /\ Accept({DeclineAttack(st)})
       \/ /\ ~st.combat.assign
          /\ MayDeclareBlocks(st, p)
          /\ Accept({SetBlockers(st, p, {}, {}, {})})
       \/ /\ st.step \notin {"DeclareAttackers", "DeclareBlockers",
                              "FirstStrikeDamage", "Cleanup"}
          /\ p = st.active
          /\ Accept(AdvOnEmptyStack(st))

\* concede_batch: allowed at any time, to any player in the game.
Concede(p) ==
    /\ MayCommand(p)
    /\ reply' = "ok"
    /\ LET aborted == [st EXCEPT !.choice = IF @ = [kind |-> "Attack", player |-> p]
                                            THEN NoChoice ELSE @]
           left == [aborted EXCEPT !.lost = @ \cup {p},
                                   !.outcome = OutcomeOf(Live(st) \ {p})]
       IN  IF Terminal(left) THEN st' = FinishTerminal(left)
           ELSE \E r \in ReconcileDeparted(left) :
                   \E f \in FlushTriggers(r) : st' \in Settle(f)

\* opening_pick_next_or_finish hands over at the first upkeep.
Init ==
    /\ reply = "ok"
    /\ \E first \in Seat :
          st = [lost |-> {}, outcome |-> NoOutcome, active |-> first, priority |-> first,
                passes |-> 0, passed |-> {}, step |-> "Upkeep", stack |-> {}, plays |-> 0,
                choice |-> NoChoice, combat |-> NoCombat, damagePending |-> FALSE,
                discard |-> NoSeat, cleanupPriority |-> FALSE, cleanupSba |-> FALSE,
                queue |-> <<>>, resume |-> NoSeat, doomed |-> {}, crushed |-> {}]

Next ==
    \E p \in Seat :
        \/ PassOn(p) \/ PassResolves(p) \/ PassAdvances(p) \/ PassRefused(p)
        \/ PassDeclines(p)
        \/ BeginCast(p) \/ PayLife(p) \/ CommitCast(p) \/ CancelCast(p)
        \/ PlayLand(p) \/ SubmitChoice(p) \/ PlaceTrigger(p)
        \/ DeclareAttackers(p) \/ CommitAttack(p) \/ CancelAttack(p)
        \/ DeclareBlockers(p) \/ AssignCombatDamage(p)
        \/ DiscardToHandSize(p) \/ Yield(p) \/ Concede(p)

Spec == Init /\ [][Next]_vars

-----------------------------------------------------------------------------
(***************************************************************************)
(* Properties.                                                             *)
(***************************************************************************)

\* The fields of the engine state keep their types.
TypeOK == st \in State /\ reply \in {"ok", "closed", "rejected"}

\* As long as the game goes on, whoever it waits for is still in it: the player
\* with priority, or the player an unfinished transaction belongs to.  Steps give
\* priority to the active player even after that player left, so this rests on
\* every command being settled (reconcile_departed_players) before the next.
AwaitedPlayerIsPresent ==
    ~Terminal(st) =>
        /\ st.choice.kind = "None" => st.priority \in Live(st)
        /\ st.choice.kind # "None" => st.choice.player \in Live(st)

\* The outcome published by finish_terminal_batch agrees with who is left: the
\* winner never left, a draw leaves nobody, and a game that goes on still has
\* somebody to continue it.
OutcomeAgreesWithSurvivors ==
    /\ st.outcome \in Seat => st.outcome \in Live(st)
    /\ st.outcome = Draw => Live(st) = {}
    /\ st.outcome = NoOutcome => Live(st) # {}

\* passes_since_stack_change counts different players, and the one with priority
\* has not passed yet: no player is ever counted twice in one round.  (The
\* structured yield moves priority without counting, so it is switched off.)
PassesAreDistinct ==
    /\ st.passes = Cardinality(st.passed)
    /\ ~Terminal(st) /\ st.choice.kind = "None" => st.priority \notin st.passed

\* A round of passes closes (pass_priority, pass_priority_on_stack) only when all
\* players in the game passed, unless a pass of a player who left was counted.
RoundIsComplete ==
    [][reply' = "closed" =>
          \/ st.passed \cap st.lost # {}
          \/ Live(st) \subseteq st.passed \cup {st.priority}]_vars

\* One settled command after a player left nothing of that player can be acted
\* on: no object on the stack, no attacker aimed at them, no block declaration due
\* (remove_departing_player_objects, for departures of every origin).  A refused
\* command is not settled and may leave it all in place.
DepartedLeaveNothing ==
    [][(~Terminal(st) /\ ~Unsettled(st) /\ reply # "rejected")' =>
          /\ \A e \in st'.stack : e[2] \notin st.lost
          /\ st'.combat.attacked \cap st.lost = {}
          /\ st'.combat.waiting \cap st.lost = {}]_vars

\* settle_command_batch: a player at zero life stays in the game exactly while a
\* resolution or a payment is unfinished, and a concession made meanwhile removes
\* the conceding player alone.  A command refused half-way is not settled, so this
\* also says that no refusal comes after damage was dealt.
LossesWaitForTransactions ==
    [][/\ (~Terminal(st) /\ ~Unsettled(st))' => st'.doomed = {}
       /\ Unsettled(st) /\ Unsettled(st)' => Cardinality(st'.lost \ st.lost) <= 1]_vars

\* In cleanup somebody owes a discard or there is a priority round, never both,
\* and neither is left over in another step: the fallback arm of
\* adv_on_empty_stack is dead code.
CleanupIsAccounted ==
    ~Terminal(st) =>
        IF st.step = "Cleanup" THEN (st.discard # NoSeat) # st.cleanupPriority
        ELSE st.discard = NoSeat /\ ~st.cleanupPriority

\* Combat state exists in the combat steps that unwrap it and is gone in every
\* step outside combat.
CombatIsScoped ==
    /\ st.step \in {"DeclareAttackers", "DeclareBlockers", "FirstStrikeDamage",
                    "CombatDamage"} => st.combat.on
    /\ st.step \notin {"DeclareAttackers", "DeclareBlockers", "FirstStrikeDamage",
                       "CombatDamage", "EndCombat"} => st.combat = NoCombat

\* Blocks are declared one defender at a time, in turn order, and the defender
\* whose declaration is due has priority (next_blocking_player_needing_declaration).
BlocksInTurnOrder ==
    ~Terminal(st) /\ st.step = "DeclareBlockers" /\ ~st.combat.blocked =>
        /\ st.combat.waiting # {}
        /\ st.priority = FirstAfter(st.active, st.combat.waiting)

\* A player the game waits for can do something about it: the pass ends the
\* round or the step, the declaration, answer or discard is accepted, or there is
\* a missing assignment that can be made.
CanAct(p) ==
    \/ MayPass(p) /\ ~(LastPass(st) /\ st.stack = {} /\ AdvanceRefused(st))
    \/ Free(p) /\ MayDecline(st, p)
    \/ \E kind \in {"Resolution", "Cast", "Attack", "Trigger"} : Answering(p, kind)
    \/ Free(p) /\ p = st.active /\ st.combat.blocked /\ st.combat.needed
         /\ st.combat.assign /\ (st.combat.needs \ st.combat.assigned) \ st.combat.short # {}
    \/ Free(p) /\ st.discard = p

\* damage_assignment_needed no longer says what its comment says.
FlagIsStale ==
    /\ st.step = "DeclareBlockers"
    /\ st.combat.blocked
    /\ st.combat.needed # Missing(st.combat)

\* The discard owed in cleanup is owed by a player who left.
DiscardIsOrphaned == st.discard \in st.lost

\* The last pass waits for an assignment (priority.rs) that assign_combat_damage
\* refuses whatever it says: the trampler's power is less than the lethal damage
\* of its blockers.
AssignmentIsImpossible ==
    /\ st.step = "DeclareBlockers"
    /\ st.combat.blocked /\ st.combat.assign
    /\ (st.combat.needs \ st.combat.assigned) \cap st.combat.short # {}

\* There are only three ways to stall a game: a stale damage assignment flag, a
\* damage assignment that cannot be made, and a cleanup discard owed by a player
\* who left.  In every other state of a game that goes on some player can move it
\* forward.
NoOtherStall ==
    ~Terminal(st) /\ ~FlagIsStale /\ ~AssignmentIsImpossible /\ ~DiscardIsOrphaned
        => \E p \in Seat : CanAct(p)

-----------------------------------------------------------------------------
(***************************************************************************)
(* The turn order is the one TurnOrder promises.  The seat of the last     *)
(* normal turn is the active one, or during extra turns the seat before    *)
(* normal_turn_resume_player.                                              *)
(***************************************************************************)
Order == INSTANCE TurnOrder WITH
    turnOf <- st.active,
    cursor <- IF st.resume = NoSeat THEN st.active ELSE (st.resume + N - 1) % N,
    extra <- st.queue,
    gone <- st.lost

\* select_next_turn_after_cleanup implements the abstract turn order, however
\* extra turns, departures and losses interleave.
TurnOrderHolds == Order!TurnSpec

-----------------------------------------------------------------------------
(***************************************************************************)
(* Liveness.  The engine has no clock: it moves when players do.  Fairness *)
(* therefore says that a player who can again and again pass, answer,      *)
(* assign or discard does so at some point, and asks nothing else.  A pass *)
(* that is refused is a pass all the same, and an assignment is one the    *)
(* engine accepts: nobody is assumed to make an impossible one.            *)
(***************************************************************************)
Fairness ==
    \A p \in Seat :
        /\ SF_vars(PassOn(p) \/ PassResolves(p) \/ PassAdvances(p) \/ PassRefused(p)
                      \/ PassDeclines(p))
        /\ SF_vars(AssignCombatDamage(p))
        /\ WF_vars(\/ SubmitChoice(p) \/ PlaceTrigger(p)
                   \/ CommitCast(p) \/ CancelCast(p)
                   \/ CommitAttack(p) \/ CancelAttack(p)
                   \/ DiscardToHandSize(p))

FairSpec == Spec /\ Fairness

\* If nobody refuses to act, a game that does not end and does not stall on the
\* damage assignment, its flag stale or no assignment possible, takes turn after
\* turn: upkeep and main phase come back for ever.
TurnsGoOn ==
    \/ <>[]Terminal(st)
    \/ <>[]FlagIsStale
    \/ <>[]AssignmentIsImpossible
    \/ []<>(st.step = "Upkeep") /\ []<>(st.step = "Main1")

-----------------------------------------------------------------------------
(***************************************************************************)
(* What the repository says of itself and the code does not do.            *)
(***************************************************************************)

\* "After blockers are declared, players receive priority in declare blockers
\* before moving to ..." (priority.rs): every player gets a chance in every round.
EveryoneIsAsked ==
    [][reply' = "closed" => Live(st) \subseteq st.passed \cup {st.priority}]_vars

\* "A concession removes this player; other free-for-all players continue until
\* one remains." (priority.rs): a discard is never owed by a player who left.
DiscarderIsPresent == ~DiscardIsOrphaned

\* "a rejected command must not perturb replay" (docs/ARCHITECTURE.md).
RejectionLeavesNoTrace == [][reply' = "rejected" => st' = st]_vars

\* "True when blockers_declared and at least one attacker has 2+ blockers (or has
\* trample with 1+ blockers) without a full `damage_assignments` entry" (state.rs).
AssignmentFlagIsExact == ~FlagIsStale

\* "after attackers are declared, the game remains in declare-attackers and the
\* active player receives priority before moving to declare blockers" (combat.rs).
DeclaredAttackGoesToBlocks ==
    [][/\ st.step = "DeclareAttackers" /\ st.combat.declared /\ st'.step # st.step
       => st'.step = "DeclareBlockers"]_vars

\* "True only after both players have passed priority in declare blockers while
\* assignment is still required -- then the active player may submit
\* `AssignCombatDamage`" (state.rs): no damage is assigned once it was dealt.
DamageIsAssignedOnce ==
    [][st.step \in {"CombatDamage", "EndCombat"}
       => st'.combat.assigned \subseteq st.combat.assigned]_vars
=============================================================================
