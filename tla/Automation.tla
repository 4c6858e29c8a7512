----------------------------- MODULE Automation -----------------------------
(***************************************************************************)
(* The rules engine as the relay sees it, with its automation: what a      *)
(* command of a player does to the yields and pauses of everybody, and for *)
(* whom the engine offers to act next (engine/automation.rs).              *)
(*                                                                         *)
(* The game itself is abstracted to what automation asks about it: who has *)
(* to act, and in which of five situations.                                *)
(*   Quiet   an ordinary priority window with nothing on the stack and     *)
(*           nothing the player could do                                   *)
(*   Busy    an ordinary priority window otherwise                         *)
(*   Assign  a priority window while combat damage is being assigned, in    *)
(*           which players may pass and automation does not                *)
(*   Choice  a required choice, a combat declaration or a discard          *)
(*   Ruled   an optional trigger that a rule of the player answers         *)
(* An accepted game command leads to any of them.  A refused one may have  *)
(* moved the game as well: nothing takes back what it did before.          *)
(* Left out: the yield to one stack item, which waits while another item   *)
(* is above it, and rules that pass on a trigger instead of answering it.  *)
(***************************************************************************)
EXTENDS Integers, FiniteSets

CONSTANTS
    Player,   \* the players of the game
    None      \* no player, no engine

Situations == {"Quiet", "Busy", "Assign", "Choice", "Ruled"}
Window == {"Quiet", "Busy"}                \* automation_priority_window
PassWindow == Window \cup {"Assign"}       \* pass_priority

\* UpdateAutomation: YieldTo; AutoPass, and FullControl(false); TriggerRule;
\* FullControl(true) and ClearAll; Pause; StopOnce and RemoveRule.
Updates == {"Yield", "Auto", "Rule", "Full", "Pause", "Stop"}
Resuming == {"Yield", "Auto", "Rule", "Full"}
GameCommands == {"Pass", "Play", "Concede"}
Commands == Updates \cup GameCommands \cup {"Continue"}

\* known are the players with an entry in state.automation.  stray is history, not
\* in the code: a command that was refused moved the game since the last accepted
\* one.
Engine == [live : SUBSET Player, over : BOOLEAN,
           turn : Player, ask : Situations, index : Nat,
           known : SUBSET Player, full : SUBSET Player,
           paused : SUBSET Player, yielding : SUBSET Player, stray : BOOLEAN]

\* A new session waits for the choice of who starts.
NewEngines(players) ==
    {[live |-> players, over |-> FALSE, turn |-> p, ask |-> "Choice", index |-> 0,
      known |-> {}, full |-> {}, paused |-> {}, yielding |-> {}, stray |-> FALSE] :
        p \in players}

\* automation_action: the engine would act for p now.  skips are the players
\* whose stops, as sent with the command, do not stop at the current phase.
Acts(e, p, skips) ==
    /\ ~e.over
    /\ p \in e.known \ (e.full \cup e.paused)
    /\ e.turn = p
    /\ \/ e.ask = "Ruled"
       \/ e.ask \in Window /\ p \in e.yielding
       \/ e.ask = "Quiet" /\ p \in skips

\* publish_automation: the player of the continuation sent with a batch.
Continuation(e, skips) ==
    IF \E p \in e.live : Acts(e, p, skips)
    THEN CHOOSE p \in e.live : Acts(e, p, skips)
    ELSE None

\* update_automation.
Update(e, p, cmd) ==
    [e EXCEPT !.known = @ \cup {p},
              !.full = CASE cmd \in {"Yield", "Auto", "Rule"} -> @ \ {p}
                         [] cmd = "Full" -> @ \cup {p}
                         [] OTHER -> @,
              !.paused = CASE cmd = "Pause" -> @ \cup {p}
                           [] cmd \in Resuming -> @ \ {p}
                           [] OTHER -> @,
              !.yielding = CASE cmd = "Yield" -> @ \cup {p}
                             [] cmd \in {"Rule", "Stop"} -> @
                             [] OTHER -> @ \ {p}]

\* Mutant: a pass of any player resumes everybody's saved preferences.
ResumedByAnyPass(e, actor, cmd) ==
    [e EXCEPT !.yielding = @ \ {actor},
              !.paused = IF cmd = "Pass" THEN {} ELSE @ \cup ({actor} \cap e.known)]

\* An own command ends the yield; a deliberate pass resumes what was paused,
\* and every other command leaves it paused.
OwnCommand(e, actor, cmd) ==
    IF actor \in e.yielding \cup e.paused
    THEN [e EXCEPT !.yielding = @ \ {actor},
                   !.paused = IF cmd = "Pass" THEN @ \ {actor} ELSE @ \cup {actor}]
    ELSE e

\* Who has to make a choice no rule answers.
StoppedByChoice(e) == IF e.ask = "Choice" THEN {e.turn} \cap e.known ELSE {}

\* reconcile_automation; stopped are the players whose yield expires or is
\* interrupted, or whose one-time stop is reached.
Reconcile(e, actor, cmd, stopped) ==
    LET own == IF cmd \in GameCommands THEN OwnCommand(e, actor, cmd) ELSE e
        hit == stopped \cup StoppedByChoice(e)
    IN  [own EXCEPT !.yielding = @ \ hit, !.paused = @ \cup hit]

\* The game goes on between the players of L, with one of them to act.
GoesOn(e, L) ==
    UNION {{[e EXCEPT !.live = L, !.turn = t, !.ask = a] :
               a \in {b \in Situations : b = "Ruled" => t \in e.known}} : t \in L}

\* Where the game may stand after a game command: some players may have died.
Moves(e, survivors) ==
    {[e EXCEPT !.live = L, !.over = TRUE] :
        L \in {M \in SUBSET survivors : Cardinality(M) <= 1}}
    \cup UNION {GoesOn(e, L) : L \in {M \in SUBSET survivors : Cardinality(M) > 1}}

\* What a command that may be accepted does before automation is reconciled.
\* continue_automation checks that nothing was accepted since the continuation
\* was issued and decides again whether to act.
Effects(e, p, cmd, index, skips) ==
    IF e.over \/ p \notin e.live THEN {}
    ELSE CASE cmd = "Concede" -> Moves(e, e.live \ {p})
           [] cmd = "Pass" -> IF e.turn = p /\ e.ask \in PassWindow THEN Moves(e, e.live) ELSE {}
           [] cmd = "Play" -> IF e.turn = p THEN Moves(e, e.live) ELSE {}
           [] cmd = "Continue" -> IF index = e.index /\ Acts(e, p, skips)
                                  THEN Moves(e, e.live) ELSE {}
           [] cmd = "Yield" -> IF e.ask \in Window THEN {Update(e, p, cmd)} ELSE {}
           [] OTHER -> {Update(e, p, cmd)}

\* Priority moves to somebody in the game and the step stays.
PriorityMoves(e) ==
    UNION {{[e EXCEPT !.turn = t, !.ask = a] :
               a \in IF e.ask = "Assign" THEN {"Assign"} ELSE Window} : t \in e.live}

\* apply_command: the engines a refused command may leave.  It changes nothing
\* when it is illegal from the start.  But the last pass is counted and priority
\* has moved when adv_on_empty_stack refuses it, and a game command is over when
\* settle_automatic_priority fails in a pass it makes for a player with stops and
\* no automation.  Either way automation is not reconciled.
Refused(e, p, cmd, index, skips) ==
    LET done == Effects(e, p, cmd, index, skips)
        passed == IF cmd \in {"Pass", "Continue"} /\ e.ask \in PassWindow /\ done # {}
                  THEN PriorityMoves(e) ELSE {}
        settled == {f \in done : /\ cmd \in GameCommands \cup {"Continue"}
                                 /\ ~f.over /\ f.ask \in PassWindow
                                 /\ (skips \cap f.live) \ f.known # {}}
    IN  (IF done = {} THEN {e} ELSE {})
        \cup {[f EXCEPT !.stray = TRUE] : f \in passed \cup settled}

\* apply_command: the engines an accepted command may lead to.
Accepted(e, p, cmd, index, skips) ==
    UNION {{[Reconcile(f, p, cmd, stopped) EXCEPT !.index = @ + 1, !.stray = FALSE] :
               stopped \in SUBSET f.known} : f \in Effects(e, p, cmd, index, skips)}
=============================================================================
