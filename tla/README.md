# A TLA+ model of ruled-mode Cockatrice

This directory specifies, model-checks and proves properties of the part of this repository that
enforces the rules of the game: the *ruled mode* built from a Rust rules engine (`tricerules`) and
the Servatrice relay that feeds it. It is written against the source; the file `PROJECT.json` maps
every definition to the lines it models.

## 1. The system

```
 Qt client  <-- protobuf -->  Servatrice (C++)  <-- TCP, length-prefixed protobuf -->  tricerules-server (Rust)
 shows, asks                  relay, mirror, redaction                                 GameEngine: the only rules authority
```

A client sends a command; Servatrice, under `Server_Game::gameMutex`, forwards it to the sidecar and
waits for the answer; the engine applies it, *settles* the game (losses, departures, state-based
actions, triggers) and returns a batch of events; the relay mirrors the batch and redacts it per
seat. One command is therefore atomic, and the concurrency of a game is the interleaving of whole
commands of different players with each other and with the relay's own events (timers, disconnects,
loss of the engine).

| component | state | operations | talks to | what is hard | what makes it correct |
|---|---|---|---|---|---|
| turn and priority machine, `engine/priority.rs` | active player, priority, passes, step, extra turns, cleanup flags | pass, concede, discard, yield, advance, roll the turn | combat, resolution, settlement | departures in the middle of anything; deferred losses; cleanup loops | the game always waits for a present player; a round closes when everybody passed; turn order |
| combat, `engine/combat.rs` | attackers, blockers, assignments, six flags | declare attackers or blockers, pay tax, assign, deal | priority, state-based actions | cached flags; several defenders; two damage steps | flags say what their comments say; damage is dealt once |
| dispatch and settlement, `engine/mod.rs` | the blocking choice, command index | gate, apply, settle, automatic passes | all of the above | one transaction blocks everybody | losses wait for transactions, and only for them |
| casting, activation, triggers | pending cast or activation, staged triggers | begin, pay, commit, cancel; flush, order, target | dispatch, priority | payment can kill; departures drop offers | passes reset whenever the stack grows |
| resolution, state-based actions | parked resolution | resolve, answer | settlement | parks in the middle | control effects only |
| opening sequence, `engine/opening.rs` | who chooses, who decides, who bottoms, the opening-hand window | choose who starts, keep, mulligan, bottom, opening-hand actions, departure | hands over to the first upkeep | departures of whoever is being asked | one present player is asked at any time; hands cost what their mulligans cost; the right player starts |
| automation, `engine/automation.rs` and `ruled_game_driver.cpp` | policies, epoch, timer | update, continue, pause, reconcile | dispatch, relay | a timer races commands, disconnects and the next game | automation acts only for players who are there and authorised it, and goes on until somebody stops it |
| relay, session and table, `rules_relay.cpp`, `ruled_game_session.cpp`, `ruled_game_driver.cpp`, `server_game.cpp` | socket, relay pointer, lost flag, seats, conceded flags | start, command, preview, end, concede, leave, disconnect | sidecar, clients | timeouts and late answers, a dead engine, departures that half succeed | an answer belongs to its request; one notice per loss; table and engine have the same players |
| sidecar server, `tricerules-server/src/main.rs` | one session per connection | read, answer, idle timeout | relay | idle and crash | a connection is one session |
| resume and replay | plan, journal | replay accepted commands | sidecar | rejected commands must leave no trace | replay reaches the same state |
| mirror and redaction, deck validation, classic server, client, card data, importer | see `PROJECT.json` | | | | not modelled, section 9 |

## 2. Modules

| module | what it is |
|---|---|
| `Seats` | seats round a table and the first of a set of them after another |
| `Priority` | the turn and priority machine with combat, casting, resolution and settlement as far as they touch it |
| `TurnOrder` | abstract specification: whose turn comes next, with extra turns and departures, and nothing else |
| `Opening` | the opening sequence, from the choice of who starts to the first turn |
| `Automation` | the engine as the relay sees it: who has to act, and for whom it would act by itself |
| `Session` | a ruled table: game lifecycle, driver, relay, connections, sidecar, continuation timer; composed with `Automation` |
| `MCPriority`, `MCOpening`, `MCSession` | TLC instances |
| `SeatsProofs` | proofs about the walk round the table and distances in turn order |
| `PriorityProofs` | proofs about `Priority`: types, presence, outcome |
| `PriorityFrames`, `PriorityShapes` | lemmas: what its operations leave alone and the shape they keep, within a step and across steps and turns |
| `PriorityTheorems` | its other invariants and action properties, and that it implements `TurnOrder` |
| `OpeningProofs`, `SessionProofs` | proofs about `Opening` and `Session` |

Properties stand at the end of the module they are about, and the mutated forms that test them next
to the definitions they replace.

### How `Priority` corresponds to the code

`st` is `GameEngine.state`, one field per field of `GameState` that decides control: `active`
(`active_player_idx`), `priority` (`priority_idx`), `passes` (`passes_since_stack_change`), `step`
(`turn_step`), `lost` (the `has_lost` players), `outcome`, `combat` (`CombatState`), `choice`
(`blocking_choice()`), `discard`, `cleanupPriority`, `cleanupSba`, `queue` and `resume` (extra
turns), `damagePending`. `doomed` are players at zero life or owed a library loss and `crushed` those
with lethal poison or commander damage: they are still in the game until the matching sweep. `passed`
is a history of who made the counted passes, and `reply` of how the last command ended.

An action is one accepted command, from `apply_command` to the end of `settle_command_batch`:
`PassOn`, `PassResolves`, `PassAdvances`, `PassDeclines` and `PassRefused` are the outcomes of
`PassPriority`; `BeginCast`, `PayLife`, `CommitCast`, `CancelCast`, `PlayLand`; `DeclareAttackers`,
`CommitAttack`, `CancelAttack`, `DeclareBlockers`, `AssignCombatDamage`; `SubmitChoice`,
`PlaceTrigger`, `DiscardToHandSize`, `Yield` (`PrimitiveYieldStructured`) and `Concede`. Rejected
commands change nothing and are not steps, except `PassRefused`, which does change the state: the
last pass of a round is counted before `adv_on_empty_stack` refuses to go on. `Refusals` has its two
refusals. At the end of the declare-blockers step damage has to be assigned first, and nothing more
changes. At the end of the first-strike damage step `resolve_combat_damage_step` has already begun the
second step when `try_park_ordered_combat_damage` misses an assignment that went with a dead blocker;
the new step and its owed window stay, and no damage has been dealt, because that check precedes the
loop that commits life. A refused command is not settled. A concession reaches the engine only through
the relay (`submitPlayerDeparture`), at any time.

`Settle` follows `settle_command_batch` in order: `FinishTerminal`, or, unless a transaction is
unfinished, `SweepLife`, `ReconcileDeparted`, `ApplySbas`, `FlushTriggers`; then
`PublishCombatPriority`. The step machine `AdvOnEmptyStack` has one case per arm of
`adv_on_empty_stack`. Where the outcome depends on cards the operator returns a *set* of states:
`Effects` (a resolution may kill players, grant an extra turn, or change combat), `Parked` (it may
stop at a question), `FlushTriggers`, `DealDamage`, `Removals`.

Abstractions of data. Cards, zones, mana and life totals are gone; the stack is the set of
(number, controller) pairs. Attackers are grouped by the player they attack: `attacked`, `blocks`,
`needs`, `assigned` and `short` are sets of defenders, so "an attacker with two blockers or trample" is
a defender in `needs`, and one in `short` if it is a trampler whose power is less than the lethal
damage of its blockers: `assign_combat_damage` wants lethal damage on each of them and its power in
all, so it refuses whatever is assigned. Power and toughness are gone; blocks, removals and effects
choose whether they suffice (`CoverOrNot`). Attacks on planeswalkers and battles count as attacks on the player who
controls or protects them. `Untap` is passed through inside `RollTurn`, as in the code, where no
player can act in it. A repeated empty block declaration, which the engine accepts in a duel without
effect, is a stutter.

Two parts of a command are left out. `ApplySbas` is the part of the state-based actions that removes
players; the questions they may ask (legend rule, commander zone, `state_based.rs:213`) depend on the
board, and stopping at one would delay a loss by poison or commander damage until it is answered. And
`settle_automatic_priority` makes passes for players with auto-pass policies inside another command.
Each of them is a pass of this machine followed by the same sweeps, so it reaches what the player's own
pass command would. It also sweeps life while a resolution is parked (`mod.rs:2861`), where
`settle_command_batch` would wait; it finds nobody there, since combat damage is parked before any of
it is dealt. Its failure half-way is modelled in `Automation`.

### How `Opening` corresponds to the code

`op` holds `OpeningSequence` (`starting_player`, `original_starting_player`, `mulligan_actor`,
`bottom`, `mulligans_taken`, `resolved`, `hand_window`) and the fields of `GameState` the opening
writes. There is one action per opening command, one for the answer to a parked opening-hand action,
and `Concede`, which is `concede_batch` with `reconcile_opening_departure`, in the order of its
parts: `AbandonEntry`, the departed seat counts as resolved, `PassOnFirstTurn`, then a new chooser,
`HandOnWindow` or `ReplaceMulliganActor`. A hand is its size and the number of its cards that have
an opening-hand action; a redraw may bring any number of those. An opening-hand action is parked when
a replacement effect asks something; no shipped card does this, the engine's own fixtures
(`opening_gemstone_tests.rs`) do. `Priority` starts where `Opening` ends; it starts with nobody
departed, and a departure in the opening leads to the states of a departure in the first upkeep.

### How `Automation` and `Session` correspond to the code

`Automation` abstracts the engine to who has to act and in which of five situations (a quiet or busy
priority window, the window in which combat damage is assigned, where players pass and automation does
not, a required choice, a choice a rule answers). `Update`, `Acts`, `Continuation`,
`OwnCommand`, `StoppedByChoice` and `Reconcile` are the functions of `automation.rs`; expiry and
interruption of a yield and one-time stops depend on the stack and the phase and are a free choice
(`stopped`). `Moves` is every outcome a game command can have for automation, deaths included.
A continuation is checked by its command index; the policy revision it also carries changes only with
accepted commands and adds nothing.

`Accepted` and `Refused` are the engines a command may leave. A refused command changes nothing when it
is illegal from the start. When it is the last pass of a round it may have moved priority before it is
refused (`PriorityMoves`), and a game command is complete when `settle_automatic_priority` fails in a
pass it makes for a player with a policy and no automation: `can_automatically_pass_priority` keeps it
away from damage assignment, so this is the refusal at the end of first-strike damage. Either way the
driver gets an error, mirrors nothing and arms no timer. `stray` is history: it holds from such a
refusal until the next accepted command.

`srv` is the table: `Server_Game` (started, seated, online, conceded), `RuledGameSession` (relay,
`engineConnectionLost`, policies) and `RuledGameDriver` (timer). Raising `automationEpoch` is
stopping the timer. `conn` are the TCP connections; each start of a game uses a new one, because
`start()` makes a new relay. A call is synchronous under the game mutex, so it takes three steps: the
action that makes it (`PlayerCommand`, `Concede`, `Leave`, `Disconnect`, `TimerFires`, `StartGame`...),
the sidecar's `Process`, and `Receive` or `TimeOut` with the rest of the handler (`Handled`,
`Failed`). Between them only the sidecar and the network move: `Crash`, `IdleTimeout`, `SeeClose`,
`Cut` (a link that fails without telling anybody) and `SocketDown`. When the relay hangs up nobody
sees its engine any more, and only its existence is kept (`Orphan`). `notices`, `silenced` and
`absent` are history. `Plan` is the length of the capture a table resumes: its commands are replayed
call by call before the game is handed to the players, and a refusal or a different state unwinds
the start. The comparison of state hashes is a free choice.

## 3. Bounds

| bound | meaning | values | why enough |
|---|---|---|---|
| `N` | seats | 2, 3 | three is the least number at which a player can leave a game that goes on, and at which a round has a middle |
| `MaxPlays` | objects put on the stack, lands and cleanup actions per turn | 1 | one object is enough to open every kind of transaction in every step; the proofs hold for every value |
| `MaxQueue` | queued extra turns | 0, 1, 2 | two are the least that show the order of nested grants |
| `StructuredYield` | whether that command is used | both | it moves priority without counting a pass, so the pass-counting properties are checked without it |
| `thinned` | a blocker group loses a blocker and still needs an assignment at most once per combat | | a group of three is enough to lose one and still need an assignment |
| `HandSize`, `MaxCaverns` | cards of a hand, cards with an opening-hand action in a new one | 2, 2 | at three seats the third mulligan is the one to nothing; two such cards let one be exiled for the other |
| `Player`, `Automated` | players, those who use automation | 3, 1 | an elimination or a departure leaves a game; the others are interchangeable (symmetry) but may be paused by a disconnect |
| `MaxIndex` | commands accepted in each game before players send only departures | 3, then 1 | three let one player pause, another get priority and pass; the second game shows what the first leaves behind |
| `MaxConns`, `Plan` | games, replayed commands | 2, 1 | see above; one replayed command lets a player who is away own a yield |
| `NobodyAttacks` | constraint of `turns3` | | combat does not read the turn queue; without it the run is ten times larger |

## 4. Runs

Every run allows the system to stop (`CHECK_DEADLOCK FALSE`), because a finished game accepts no
command; that an unfinished game does not stop is the invariant `NoOtherStall`.

**table3**: three seats, no extra turns, 450 645 states. Players concede or die at any moment.
`AwaitedPlayerIsPresent`: whoever the game waits for is in it. `OutcomeAgreesWithSurvivors`: the
published outcome fits who is left. `PassesAreDistinct`: no player is counted twice in a round.
`RoundIsComplete`: a round closes only when every present player passed, unless the pass of a
departed player was counted (see `lost_window`). `DepartedLeaveNothing`: one settled command after a
departure nothing of that player is on the stack or in combat. `LossesWaitForTransactions`: players
at zero life stay exactly as long as a transaction is unfinished, whether the last command was
accepted or refused half-way. `CleanupIsAccounted`: in cleanup a
discard is owed or a priority round runs, never both or neither, so the fallback arm of
`adv_on_empty_stack` is dead. `BlocksInTurnOrder`: defenders declare in turn order. `NoOtherStall`:
apart from three known stalls some player can always move the game forward. They are the two of
`stale_flag` and `orphan_discard` and the impossible assignment (`AssignmentIsImpossible`), section 5.

**duel**: two seats, structured yield and one extra turn, 143 124 states. `CombatIsScoped`: combat
state is present where it is unwrapped and gone outside combat. `TurnsGoOn`: liveness, section 6.

**turns3**: three seats, two extra turns, 888 102 states. `TurnOrderHolds`: `Priority` implements
`TurnOrder` under the mapping that takes the active player for the turn, and for the last normal turn
the active player or, during extra turns, the seat before `normal_turn_resume_player`.

**opening**: three seats, hands of two, 137 541 states, with fairness. `OneDecider`: the opening waits
for exactly one player, who is present, unresolved and shown to have priority. `MulligansGoRound`: of
two players who have not kept, neither is more than one mulligan ahead. `HandsAsPromised`: hands have
the size their mulligans leave, whoever leaves in between. `FirstLiveStarts`: the first turn belongs
to the first present player from the chosen seat on. `NoOrphanEntry`: a parked opening-hand action
belongs to the player the window is open for. `OpeningEnds`: liveness, section 6.

**session**: two resumed games of three players, 3 564 786 states up to symmetry. `AnswersMatchRequests`:
nothing travels between calls and one message during a call, whatever timed out before.
`NoSilentFreeze`: a table that plays has a relay whose connection carries the session, or its players
were told once that it is lost. `TableAndEngineAgree`: the engine never plays on with somebody who
conceded or left, and a game ended at the table is over in the engine. `AwayIsPaused`: who loses the
connection during a game is paused for as long as that lasts (`docs/RULED-CONTROLS.md`: "Disconnect
also cancels temporary yielding and pauses retained preferences"). `OnlyOwnerResumes`: what is paused
is resumed by its owner's pass or setting only. `AbsentNeverActs`: no continuation is accepted for a
player who is away. `YieldKeepsGoing`: whenever the engine would go on for a player the timer is armed
with the current command index, and an armed timer is never out of date. It has two exceptions, both
worth knowing, and in both the yield stands still until the next accepted command. When a player who
was eliminated but still sits at the table disconnects, `pauseAutomationForDisconnect` stops the timer
of whoever is yielding before the engine refuses the pause (`silenced`). And when a refused command has
moved priority to a player who yields, the driver, which broadcasts nothing for a refusal, is not told
and arms no timer (`stray`). Outside the damage assignment window, where automation does not act
anyway, the latter needs a stale assignment flag or the refusal at the end of first-strike damage.

## 5. What the code does and the repository does not say

Seven runs are expected to find a violation; `PROJECT.json` quotes the contradicted line for each.

- **lost_window**: A passes, B holds priority, A concedes: A's pass still counts, and the step or the
  object on the stack goes on without C ever having had priority.
- **orphan_discard**: the active player leaves while owing the cleanup discard; nobody can discard
  and nobody can pass.
- **rejected_pass**: the last pass before the damage assignment is refused after priority moved.
  (The same happens, one step further on, at the end of first-strike damage: `Refusals`.)
- **stale_flag**: trample gained or lost after blocks leaves `damage_assignment_needed` wrong; every
  pass and every assignment is refused.
- **redeclared_attack**: attackers can be declared again in the same step; an empty second
  declaration skips combat.
- **second_damage**: three blockers, one dies: the damage can be assigned and dealt once more after
  the damage step.
- **refused_departure**: a player whom the engine eliminated concedes or leaves while others play on.
  The table does not know of the elimination and submits a departure, the engine refuses it, and
  `handleDepartureRejected` gives up the relay, which ends the game of the others too. In this run
  nobody has auto-pass policies; with them a departure can also be refused because an automatic pass
  inside it is, and the run `session` has that case.

Three more observations are kept in the model without a run. A 2/2 with trample blocked by a 3/3 cannot
be assigned any damage (`combat.rs:2622`), and the last pass is refused until it is: the game stands
until something changes the combat or somebody concedes. `NoOtherStall` and `TurnsGoOn` name this stall
as an exception (`AssignmentIsImpossible`). The end of the game abandons every
transaction but the attack declaration (`FinishTerminal`), and state-based actions may leave one
player in a game whose outcome is decided only by the next command (`ApplySbas`;
`OutcomeAgreesWithSurvivors` is worded accordingly).

## 6. Fairness and liveness

The engine has no clock and no fairness of its own: it moves when players do. `FairSpec` assumes that
a player who can again and again pass does so sometimes (strong fairness, because other players'
commands may disable the pass in between, and nobody may hold a table by acting for ever; a pass that
the engine refuses is a pass, so nobody is assumed to make one that is accepted), that
damage is assigned when a legal assignment exists, and that a player who is asked for an answer, a payment, an attack
tax or a discard eventually gives or cancels it (weak fairness, since nothing but a departure takes
the question away). Nothing is assumed of the commands a player is free not to use. Under that
assumption `TurnsGoOn` says that the game ends, or sticks on a stale assignment flag or on an impossible
assignment, or goes through upkeep and main phase for ever.

In `Opening` every player who is asked decides in the end (weak fairness of the decisions), and a
player who can again and again finish the opening-hand actions does so (strong fairness, since using
them is always possible instead). `OpeningEnds` says that the opening then ends, whoever leaves.

`Session` states no liveness: that a call returns is the read timeout of the relay, and that an
orphaned engine is released is the idle timeout of the sidecar, so either property would restate the
fairness it needs. What keeps a yield going is stated as the invariant `YieldKeepsGoing`.

## 7. Proofs

Every invariant and action property of the passing runs, and the refinement of `TurnOrder`, is a
theorem TLAPS checks for every value of the constants. The assumptions are `SeatsAssumption`,
`BoundsAssumption` and `YieldAssumption` for `Priority`, those of `Seats` and `Opening` for the
opening, and `SessionAssumption` for the session. `PROJECT.json` lists the theorems. Almost none of
the properties is inductive, so each component has an inductive invariant of its own, explained here.

### Seats (`SeatsProofs`)

The walk round the table meets every seat (`FirstAfterInSet`, from the well-foundedness of the
naturals) and stops at the first seat of the set it looks for. `Ahead` measures how far a seat is
from another in turn order; the lemmas about it say what the walk skips, and all the proofs about
rounds (mulligans, passes, blocks) are stated in it.

### Priority: types, presence, outcome (`PriorityProofs`)

`TypeCorrect`, `AwaitedIsPresent` and `OutcomeIsRight`. The step machine gives priority to an active
player who may have left, deaths are recorded before anybody is removed, and state-based actions
remove players without looking at the outcome; only settlement repairs this. The inductive invariant
`Inv` is `Settled(st)`: the state is `Sound` (types; transactions belong to seats; an attack tax is
paid by the active player; nobody attacks themselves; outcome and survivors agree) and, while the
game goes on, no lethal poison or commander damage is outstanding, combat is empty once the active
player has left, and priority or the pending transaction is with a present player. In the middle of a
command the weaker `Pending` holds: what each operation hands to `Settle`. The key fact in it is that
a player about to die of poison or commander damage is never the active player, because combat damage
strikes defenders only: this is why state-based actions cannot remove the last survivor or the holder
of priority after departures were reconciled. `Calm` is `Pending` with nothing unfinished. Each
operation takes a `Calm` state to a `Pending` one, `SettleSound` takes `Pending` to `Settled`, and
`NextInv` has one case per command.

### Priority: combat, cleanup, departures (`PriorityFrames`, `PriorityShapes`, `PriorityTheorems`)

`CombatScoped`, `CleanupAccounted`, `BlocksOrdered`, `NothingElseStalls`, and the action properties
`NothingIsLeftBehind` and `LossesWait`. The inductive invariant `Resting` adds two parts to `Inv`:

- `Shape(st)`: combat exists exactly in the steps that unwrap it (`Scoped`), a priority window is owed
  in a damage step only and an attack is paid for in its own step (`DamageDue`), in an unfinished
  block declaration the first defender who has not declared holds priority (`BlocksDue`), and cleanup
  discards are accounted for (`Accounted`). It holds in the middle of a command too.
- `Rested(st)`: what settlement, or a refusal, leaves. Nobody is doomed, a window is owed while
  nothing is unfinished only at the very start of the second damage step (where its refusal leaves it),
  nothing is needed once the active player has left, and a block declaration holds nothing of departed
  players. The last part has to be in the invariant, and not only a fact about what `Settle` returns,
  because a refused pass is not settled: it keeps what the previous command left.

`PriorityFrames` says what an operation within a step leaves alone and that settlement keeps the
shape; `PriorityShapes` does the same for the operations that go on to another step or turn.
`PriorityTheorems` shows that every command hands settlement a state that is `Commanded`, that
settlement turns it into one that is `Stepped` (`SettleStepped`), and takes the commands one by one in
`NextStepped`, from which all the theorems of the module follow. A refused pass is only `Carried`
(`PassRefusedCarried`): it keeps everything but the guarantee that nothing of the departed is left,
which is why `DepartedLeaveNothing` excepts refused commands and `LossesWaitForTransactions` need not.

### Priority: rounds of passes

`PassesDistinct` and `RoundsComplete`. The invariant `RoundOK` says that the counter equals the number
of those who passed, that the holder of priority has not passed, and that in turn order from the
holder everybody who has not passed comes before everybody who has: so the next to receive priority is
someone who has not passed, unless all have. Both theorems assume `~StructuredYield`, as the runs that
check these properties do. The assumption is needed: the structured yield moves priority without
counting a pass, and the order is lost.

### Priority implements TurnOrder

`TurnOrderImplemented` proves the refinement the run `turns3` checks. `Turned` classifies every
command: the turn fields stay (`SameTurn`), an extra turn is granted (`Grants`), or the next turn is
chosen (`Rolls`). The first two are a stutter and a grant of `TurnOrder`. For the third,
`FirstAfterWalk` and `WalkFromNextSeat` show that the code's walk from the seat after the last normal
turn finds the seat the abstract specification names, and `FirstExtraIsFirst` that the queue is
searched for its first present owner (`SelectNextTurnOrdered`). Departures only shrink the set of
players, which the abstract specification allows in any step.

### Opening (`OpeningProofs`)

Six theorems, one per invariant of the run `opening`. The inductive invariant is `Good(op)`: the
opening is in one of the phases choosing, mulliganing, hand actions and begun, and each says who is
waited for, what that player may still have to do and what nobody has done yet. Mulligans need the
most: in the round that follows `m` mulligans of everybody, the undecided players before the actor
have taken one more and the ones behind have not (`InRound`, with `Rank` counted from the player first
chosen to start), and `Dealt` relates the hand of each player to the mulligans taken. The
invariant also shows that the last branch of `Concede`, which moves priority on from a player who has
lost, is never taken: the earlier branches have already found a present player.

### Session (`SessionProofs`)

Six invariants and two action properties of the run `session`, for any players, captures and number of
connections. The inductive invariant `Good(srv, conn)` says that between two calls the table and the
engine are in step, and that during a call the line is silent, asked or answered; in each phase it
says what the request or the answer will bring back in step (the sets `P` of `Agree` and `Away` are
the players the engine still has to let go or pause). `RefusedFacts` says what a refused command may
leave: the same engine, or one astray with its players among the old ones, nobody resumed and the
command not counted; `AnswerRefused` that the table and such an engine are still in step. Connections never used hold nothing. The action
properties follow because only `Process`, the sidecar's handler, changes an engine. The proof needs
`None` and `Orphan` not to be engines, which `SessionAssumption` states: they stand for no
engine and for an engine whose relay is gone.

### Only model-checked

`TurnsGoOn` and `OpeningEnds`, liveness under fairness, which this prover does not reach; and the
counterexamples of section 5.

## 8. Plan

1. *done*: `Priority`, `TurnOrder`, their runs, three theorems.
2. *done*: `Opening`; `Automation` and `Session` (relay, sidecar, table and timer in one composition,
   because every hazard between them involves at least two).
3. *done*: proofs about `Opening`, `Session` and the remaining safety properties of `Priority`, and the
   refinement of `TurnOrder`.
4. Left: lemmas about `Automation` for their own sake (they are now used only inside `SessionProofs`),
   and what the rounds of passes still guarantee with the structured yield on.

## 9. Not modelled

Card definitions and their effects (data, and beyond any small instance), mana and payment
arithmetic, layers and characteristics, evasion and block requirements, the choices of state-based
actions, combat damage amounts beyond whether a trampler's power suffices (an
attacker whose last blocker left is the one hazard of combat left open, `combat.rs:2865`), the mirror
and redaction of zones, format catalogues and deck validation, the classic server with rooms, login
and database, the client, the card importer, settings and assets. Reasons are in `PROJECT.json`.

The repository's `.ts` files are Qt Linguist catalogues of translated strings, XML without behaviour;
nothing in them can be modelled. The program is its Rust and C++ code, and that is what the map of
`PROJECT.json` names.
