---------------------------- MODULE SessionProofs ---------------------------
(***************************************************************************)
(* Proofs about a ruled game on the server, for any players, any capture,  *)
(* any number of connections and commands.                                 *)
(***************************************************************************)
EXTENDS Session, FiniteSetTheorems, TLAPS

(***************************************************************************)
(* The inductive invariant.  The engine and the table are in step between  *)
(* two calls; a call is silent, asked or answered, and each phase says     *)
(* what its request or its answer will bring back in step.                 *)
(***************************************************************************)

\* Only a game that is over has fewer than two players.
Sound(e) == ~e.over => Cardinality(e.live) > 1

\* TableAndEngineAgree of a table t and an engine e; P are players the engine
\* may still have to let go.
Agree(t, e, P) ==
    IF t.started THEN e.live \subseteq (t.seated \ t.conceded) \cup P ELSE e.over

\* AwayIsPaused; P are players the engine may still have to pause.
Away(t, e, P) ==
    ~e.over => (e.live \cap t.seated) \ (t.online \cup t.absent \cup P) \subseteq e.paused

\* The two halves of YieldKeepsGoing.
Going(t, e) ==
    \A p \in e.live :
        Acts(e, p, {}) /\ ~t.silenced /\ ~e.stray
            => t.timer = [player |-> p, index |-> e.index]
UpToDate(t, e) == t.timer # NoTimer => t.timer.index = e.index

InStep(t, e) ==
    /\ Sound(e) /\ Agree(t, e, {}) /\ Away(t, e, {})
    /\ Going(t, e) /\ UpToDate(t, e)

\* A table whose game is being started: nobody has left or gone away since.
Fresh(t) == t.started /\ t.conceded = {} /\ t.seated \subseteq t.online \cup t.absent

\* The answer a says for whom the engine e goes on.
Hears(e, a) ==
    /\ a.index = e.index
    /\ \A p \in e.live : Acts(e, p, {}) => a.player = p

\* Nobody the engine would go on for is missed by a continuation for p.
MissesNobody(t, e, p, index) ==
    \A q \in e.live :
        Acts(e, q, {}) /\ ~t.silenced /\ ~e.stray => p = q /\ index = e.index

\* The request r of the call is with the sidecar.
Asked(t, e, r) ==
    \/ /\ t.call.kind = "Start"
       /\ r.kind = "Start" /\ r.set = t.seated /\ Cardinality(r.set) > 1
       /\ e = None /\ Fresh(t) /\ t.timer = NoTimer
    \/ /\ t.call.kind # "Start" /\ e # None
       /\ r.kind = IF t.call.kind = "Preview" THEN "Preview" ELSE "Command"
       /\ r.kind = "Command" => r.player \in Player /\ r.cmd \in Commands
       /\ Sound(e) /\ UpToDate(t, e)
       /\ \/ t.call.kind = "Replay" /\ Fresh(t) /\ Agree(t, e, {})
          \/ /\ t.call.kind = "Preview" /\ Agree(t, e, {}) /\ Away(t, e, {}) /\ Going(t, e)
          \/ /\ t.call.kind = "Command" /\ Agree(t, e, {}) /\ Away(t, e, {})
             /\ r.player \in t.online
             /\ r.cmd = "Continue" => MissesNobody(t, e, r.player, r.index)
             /\ r.cmd # "Continue" => Going(t, e)
          \/ /\ t.call.kind \in {"Concede", "Leave"} /\ t.started
             /\ Agree(t, e, {t.call.player}) /\ Away(t, e, {})
             /\ r.player = t.call.player /\ r.cmd = "Concede"
          \/ /\ t.call.kind = "Pause" /\ Agree(t, e, {}) /\ Away(t, e, {r.player})
             /\ r.cmd = "Pause" /\ t.timer = NoTimer

\* The answer a of the call is with the relay.
Answered(t, e, a) ==
    /\ t.call.kind \in {"Start", "Replay"} => Fresh(t)
    /\ t.call.kind # "Preview" /\ a.ok =>
          a.batch /\ (e # None => Sound(e) /\ Agree(t, e, {}) /\ Away(t, e, {}) /\ Hears(e, a))
    /\ t.call.kind \in {"Concede", "Leave"} /\ a.ok => (e # None => t.call.player \notin e.live)
    /\ t.call.kind = "Preview" => ~a.batch /\ (e # None => InStep(t, e))
    /\ t.call.kind = "Command" /\ ~a.ok => (e # None => InStep(t, e))
    /\ t.call.kind = "Pause" /\ ~a.ok =>
          t.timer = NoTimer /\ (e # None => Sound(e) /\ Agree(t, e, {}) /\ Away(t, e, {}))

\* The connection c that the table uses.
Phase(t, c) ==
    IF t.call = NoCall
    THEN /\ c.reqs = <<>> /\ c.resps = <<>>
         /\ c.alive => c.engine # None
         /\ c.engine # None => InStep(t, c.engine)
    ELSE \/ c.reqs = <<>> /\ c.resps = <<>>
         \/ /\ c.reqs # <<>> /\ c.reqs = <<Head(c.reqs)>> /\ c.resps = <<>>
            /\ c.alive
            /\ Asked(t, c.engine, Head(c.reqs))
         \/ /\ c.resps # <<>> /\ c.resps = <<Head(c.resps)>> /\ c.reqs = <<>>
            /\ c.alive => c.engine # None \/ (t.call.kind = "Start" /\ ~Head(c.resps).ok)
            /\ Answered(t, c.engine, Head(c.resps))

\* A connection the table does not use: at most a last SessionEnd is under way.
Unused(c) ==
    /\ c.client \in {"New", "Gone"} /\ c.engine \in {None, Orphan}
    /\ c.resps = <<>> /\ c.reqs \in {<<>>, <<EndRequest>>}

\* What the table knows of its relay.
Relayed(t) ==
    /\ t.lost => t.relay = 0
    /\ t.started /\ t.relay = 0 => t.lost
    /\ t.notices = IF t.lost THEN 1 ELSE 0
    /\ t.call # NoCall => t.relay # 0 /\ t.call.kind # "None"

\* Everything the table and its connections may be.
Good(t, C) ==
    /\ t \in Table /\ C \in [Conns -> Conn]
    /\ Relayed(t)
    /\ \A c \in Conns \ {t.relay} : Unused(C[c])
    /\ t.relay # 0 => /\ C[t.relay].client \in {"Up", "Down"} /\ C[t.relay].engine # Orphan
                      /\ Phase(t, C[t.relay])

Inv == Good(srv, conn)
-----------------------------------------------------------------------------
(***************************************************************************)
(* The engine: what an accepted command may do.                            *)
(***************************************************************************)

\* A command moves the game or one player's settings, and only by its own rules
\* does it resume anybody.
LEMMA EffectsFacts ==
    ASSUME NEW e \in Engine, NEW p \in Player, NEW cmd \in Commands, NEW index, NEW skips,
           NEW f \in Effects(e, p, cmd, index, skips)
    PROVE  /\ f \in Engine /\ ~e.over /\ p \in e.live
           /\ f.live \subseteq e.live /\ f.index = e.index
           /\ ~f.over => f.live = e.live \/ Cardinality(f.live) > 1
           /\ cmd = "Concede" => p \notin f.live
           /\ e.paused \ f.paused \subseteq {p}
           /\ e.paused \ f.paused # {} => cmd \in Resuming
           /\ cmd = "Pause" => p \in f.paused
  <1>1. e.over = FALSE /\ p \in e.live
    BY DEF Effects, Engine
  <1>2. ASSUME NEW L \in SUBSET e.live, f \in Moves(e, L)
        PROVE  /\ f \in Engine /\ f.live \subseteq L /\ f.index = e.index
               /\ f.paused = e.paused
               /\ ~f.over => Cardinality(f.live) > 1
    <2>1. L \subseteq Player
      BY DEF Engine
    <2>2. ASSUME NEW M \in SUBSET L, f = [e EXCEPT !.live = M, !.over = TRUE]
          PROVE  /\ f \in Engine /\ f.live = M /\ f.index = e.index
                 /\ f.paused = e.paused /\ f.over = TRUE
      <3>1. M \subseteq Player
        BY <2>1
      <3> QED  BY <2>2, <3>1 DEF Engine
    <2>3. ASSUME NEW M \in SUBSET L, f \in GoesOn(e, M)
          PROVE  /\ f \in Engine /\ f.live = M /\ f.index = e.index
                 /\ f.paused = e.paused
      <3>1. PICK t \in M :
                f \in {[e EXCEPT !.live = M, !.turn = t, !.ask = a] :
                          a \in {b \in Situations : b = "Ruled" => t \in e.known}}
        BY <2>3 DEF GoesOn
      <3>2. PICK a \in Situations : f = [e EXCEPT !.live = M, !.turn = t, !.ask = a]
        BY <3>1
      <3>3. M \subseteq Player /\ t \in Player
        BY <2>1
      <3> QED  BY <3>2, <3>3 DEF Engine
    <2> DEFINE A == {[e EXCEPT !.live = K, !.over = TRUE] :
                        K \in {M \in SUBSET L : Cardinality(M) <= 1}}
               B == {GoesOn(e, K) : K \in {M \in SUBSET L : Cardinality(M) > 1}}
    <2>4. f \in A \/ f \in UNION B
      BY <1>2 DEF Moves
    <2>5. CASE f \in A
      <3>1. PICK M \in SUBSET L : f = [e EXCEPT !.live = M, !.over = TRUE]
        BY <2>5
      <3> QED  BY <2>2, <3>1
    <2>6. CASE f \in UNION B
      <3>1. PICK M \in SUBSET L : Cardinality(M) > 1 /\ f \in GoesOn(e, M)
        BY <2>6
      <3> QED  BY <2>3, <3>1
    <2> QED  BY <2>4, <2>5, <2>6
  <1>3. ASSUME cmd \in Updates, f = Update(e, p, cmd)
        PROVE  /\ f \in Engine /\ f.live = e.live /\ f.index = e.index
               /\ f.paused = CASE cmd = "Pause" -> e.paused \cup {p}
                               [] cmd \in Resuming -> e.paused \ {p}
                               [] OTHER -> e.paused
    <2> DEFINE F == CASE cmd \in {"Yield", "Auto", "Rule"} -> e.full \ {p}
                      [] cmd = "Full" -> e.full \cup {p}
                      [] OTHER -> e.full
               P == CASE cmd = "Pause" -> e.paused \cup {p}
                      [] cmd \in Resuming -> e.paused \ {p}
                      [] OTHER -> e.paused
               Y == CASE cmd = "Yield" -> e.yielding \cup {p}
                      [] cmd \in {"Rule", "Stop"} -> e.yielding
                      [] OTHER -> e.yielding \ {p}
               K == e.known \cup {p}
    <2>1. F \in SUBSET Player
      BY DEF Engine
    <2>2. P \in SUBSET Player
      BY DEF Engine
    <2>3. Y \in SUBSET Player /\ K \in SUBSET Player
      BY DEF Engine
    <2>4. f = [e EXCEPT !.known = K, !.full = F, !.paused = P, !.yielding = Y]
      BY <1>3 DEF Update, Engine
    <2> HIDE DEF F, P, Y, K
    <2>5. f \in Engine /\ f.live = e.live /\ f.index = e.index /\ f.paused = P
      BY <2>1, <2>2, <2>3, <2>4 DEF Engine
    <2> QED  BY <2>5 DEF P
  <1>4. CASE cmd = "Concede"
    <2>1. f \in Moves(e, e.live \ {p})
      BY <1>1, <1>4 DEF Effects
    <2> QED  BY <1>1, <1>2, <1>4, <2>1
  <1>5. CASE cmd \in {"Pass", "Play", "Continue"}
    <2>1. f \in Moves(e, e.live)
      BY <1>1, <1>5 DEF Effects
    <2> QED  BY <1>1, <1>2, <1>5, <2>1
  <1>6. CASE cmd \in Updates
    <2>1. f = Update(e, p, cmd)
      BY <1>1, <1>6 DEF Effects, Updates
    <2> QED  BY <1>1, <1>3, <1>6, <2>1 DEF Updates, Resuming
  <1> QED  BY <1>4, <1>5, <1>6 DEF Commands, GameCommands

\* What holds of every engine an accepted command leads to: nobody comes back
\* into the game, who concedes is out of it, and only its owner's pass or change
\* of settings resumes what is paused.
LEMMA AcceptedFacts ==
    ASSUME NEW e \in Engine, NEW p \in Player, NEW cmd \in Commands, NEW index, NEW skips,
           NEW g \in Accepted(e, p, cmd, index, skips)
    PROVE  /\ g \in Engine /\ ~e.over /\ p \in e.live
           /\ g.live \subseteq e.live
           /\ Sound(e) => Sound(g)
           /\ cmd = "Concede" => p \notin g.live
           /\ e.paused \ g.paused \subseteq {p}
           /\ e.paused \ g.paused # {} => cmd \in {"Pass"} \cup Resuming
           /\ cmd = "Pause" => p \in g.paused
           /\ g # e
  <1>0. PICK f \in Effects(e, p, cmd, index, skips) : \E stopped \in SUBSET f.known :
            g = [Reconcile(f, p, cmd, stopped) EXCEPT !.index = @ + 1, !.stray = FALSE]
    BY DEF Accepted
  <1>1. PICK stopped \in SUBSET f.known :
            g = [Reconcile(f, p, cmd, stopped) EXCEPT !.index = @ + 1, !.stray = FALSE]
    BY <1>0
  <1>2. /\ f \in Engine /\ ~e.over /\ p \in e.live
        /\ f.live \subseteq e.live /\ f.index = e.index
        /\ ~f.over => f.live = e.live \/ Cardinality(f.live) > 1
        /\ cmd = "Concede" => p \notin f.live
        /\ e.paused \ f.paused \subseteq {p}
        /\ e.paused \ f.paused # {} => cmd \in Resuming
        /\ cmd = "Pause" => p \in f.paused
    BY EffectsFacts
  <1> DEFINE own == IF cmd \in GameCommands THEN OwnCommand(f, p, cmd) ELSE f
             hit == stopped \cup StoppedByChoice(f)
  <1>3. /\ own \in Engine /\ own.live = f.live /\ own.over = f.over /\ own.index = f.index
        /\ f.paused \ own.paused \subseteq {p}
        /\ f.paused \ own.paused # {} => cmd = "Pass"
    <2>1. CASE cmd \in GameCommands /\ p \in f.yielding \cup f.paused
      <3> DEFINE Y == f.yielding \ {p}
                 P == IF cmd = "Pass" THEN f.paused \ {p} ELSE f.paused \cup {p}
      <3>1. Y \in SUBSET Player /\ P \in SUBSET Player
        BY <1>2 DEF Engine
      <3>2. own = [f EXCEPT !.yielding = Y, !.paused = P]
        BY <1>2, <2>1 DEF OwnCommand, Engine
      <3> HIDE DEF own, Y, P
      <3>3. own \in Engine /\ own.live = f.live /\ own.over = f.over /\ own.index = f.index
            /\ own.paused = P
        BY <1>2, <3>1, <3>2 DEF Engine
      <3> QED  BY <3>3 DEF P
    <2>2. CASE ~(cmd \in GameCommands /\ p \in f.yielding \cup f.paused)
      BY <1>2, <2>2 DEF OwnCommand
    <2> QED  BY <2>1, <2>2
  <1> HIDE DEF own
  <1>4. hit \in SUBSET Player
    BY <1>2 DEF Engine, StoppedByChoice
  <1>5. Reconcile(f, p, cmd, stopped) = [own EXCEPT !.yielding = @ \ hit, !.paused = @ \cup hit]
    BY DEF Reconcile, own
  <1> HIDE DEF hit
  <1> DEFINE Y == own.yielding \ hit
             P == own.paused \cup hit
             i == own.index + 1
  <1>6. Y \in SUBSET Player /\ P \in SUBSET Player /\ i \in Nat
    BY <1>3, <1>4 DEF Engine
  <1>7. g = [own EXCEPT !.yielding = Y, !.paused = P, !.index = i, !.stray = FALSE]
    BY <1>1, <1>3, <1>5 DEF Engine
  <1> HIDE DEF Y, P, i
  <1>8. g \in Engine /\ g.live = own.live /\ g.over = own.over /\ g.paused = P /\ g.index = i
    BY <1>3, <1>6, <1>7 DEF Engine
  <1>9. own.paused \subseteq g.paused
    BY <1>8 DEF P
  <1>10. g # e
    <2>1. e.index \in Nat /\ g.index = e.index + 1
      BY <1>2, <1>3, <1>8 DEF i, Engine
    <2> QED  BY <2>1
  <1>11. Sound(e) => Sound(g)
    BY <1>2, <1>3, <1>8 DEF Sound
  <1> QED  BY <1>2, <1>3, <1>8, <1>9, <1>10, <1>11

\* A pause, and a continuation that is in order, are always legal.
LEMMA AlwaysLegal ==
    ASSUME NEW e \in Engine, NEW p \in e.live, NEW index, NEW skips, ~e.over
    PROVE  /\ Effects(e, p, "Pause", index, skips) # {}
           /\ index = e.index /\ Acts(e, p, skips)
                 => Effects(e, p, "Continue", index, skips) # {}
  <1>1. Update(e, p, "Pause") \in Effects(e, p, "Pause", index, skips)
    BY DEF Effects
  <1>2. ASSUME index = e.index, Acts(e, p, skips)
        PROVE  Effects(e, p, "Continue", index, skips) # {}
    <2>1. Effects(e, p, "Continue", index, skips) = Moves(e, e.live)
      BY <1>2 DEF Effects
    <2>2. {} \in SUBSET e.live /\ Cardinality({}) <= 1
      BY FS_EmptySet
    <2>3. [e EXCEPT !.live = {}, !.over = TRUE] \in Moves(e, e.live)
      <3>1. {} \in {M \in SUBSET e.live : Cardinality(M) <= 1}
        BY <2>2
      <3> QED  BY <3>1, Zenon DEF Moves
    <2> QED  BY <2>1, <2>3
  <1> QED  BY <1>1, <1>2

\* A refused command was illegal and changed nothing, or it was a game command or
\* a continuation that moved the game: then nobody comes back into the game, nobody
\* is resumed, the command is not counted, and it is written down as astray.
LEMMA RefusedFacts ==
    ASSUME NEW e \in Engine, NEW p \in Player, NEW cmd \in Commands, NEW index, NEW skips,
           NEW g \in Refused(e, p, cmd, index, skips)
    PROVE  /\ g \in Engine
           /\ \/ g = e /\ Effects(e, p, cmd, index, skips) = {}
              \/ /\ g.stray /\ ~e.over /\ cmd \notin Updates
                 /\ g.live \subseteq e.live /\ g.index = e.index
                 /\ e.paused \subseteq g.paused /\ (Sound(e) => Sound(g))
  <1> DEFINE done == Effects(e, p, cmd, index, skips)
             M == IF e.ask = "Assign" THEN {"Assign"} ELSE Window
  <1>1. cmd \in GameCommands \cup {"Continue"} => cmd \notin Updates /\ cmd \notin Resuming
    BY DEF GameCommands, Updates, Resuming
  <1>2. ASSUME NEW f \in Engine, ~e.over, cmd \in GameCommands \cup {"Continue"},
               f.live \subseteq e.live, f.index = e.index, e.paused \subseteq f.paused,
               Sound(e) => Sound(f), g = [f EXCEPT !.stray = TRUE]
        PROVE  /\ g \in Engine /\ g.stray /\ ~e.over /\ cmd \notin Updates
               /\ g.live \subseteq e.live /\ g.index = e.index
               /\ e.paused \subseteq g.paused /\ (Sound(e) => Sound(g))
    <2>1. /\ g \in Engine /\ g.stray /\ g.live = f.live /\ g.index = f.index
          /\ g.paused = f.paused /\ g.over = f.over
      BY <1>2 DEF Engine
    <2> QED  BY <1>1, <1>2, <2>1 DEF Sound
  <1>3. CASE done = {} /\ g = e
    BY <1>3
  <1>4. ASSUME cmd \in {"Pass", "Continue"}, done # {}, NEW f \in PriorityMoves(e),
               g = [f EXCEPT !.stray = TRUE]
        PROVE  /\ g \in Engine /\ g.stray /\ ~e.over /\ cmd \notin Updates
               /\ g.live \subseteq e.live /\ g.index = e.index
               /\ e.paused \subseteq g.paused /\ (Sound(e) => Sound(g))
    <2>1. ~e.over
      BY <1>4 DEF Effects
    <2>2. PICK t \in e.live : f \in {[e EXCEPT !.turn = t, !.ask = a] : a \in M}
      BY <1>4 DEF PriorityMoves
    <2>3. M \subseteq Situations /\ t \in Player
      BY <2>2 DEF Window, Situations, Engine
    <2> HIDE DEF M
    <2>4. PICK a \in M : f = [e EXCEPT !.turn = t, !.ask = a]
      BY <2>2
    <2>5. a \in Situations
      BY <2>3
    <2>6. /\ f \in Engine /\ f.live = e.live /\ f.index = e.index /\ f.paused = e.paused
          /\ f.over = e.over
      BY <2>3, <2>4, <2>5 DEF Engine
    <2>7. Sound(e) => Sound(f)
      BY <2>6 DEF Sound
    <2>8. cmd \in GameCommands \cup {"Continue"}
      BY <1>4 DEF GameCommands
    <2> QED  BY <1>2, <1>4, <2>1, <2>6, <2>7, <2>8
  <1>5. ASSUME cmd \in GameCommands \cup {"Continue"}, NEW f \in done,
               g = [f EXCEPT !.stray = TRUE]
        PROVE  /\ g \in Engine /\ g.stray /\ ~e.over /\ cmd \notin Updates
               /\ g.live \subseteq e.live /\ g.index = e.index
               /\ e.paused \subseteq g.paused /\ (Sound(e) => Sound(g))
    <2>1. /\ f \in Engine /\ ~e.over /\ f.live \subseteq e.live /\ f.index = e.index
          /\ ~f.over => f.live = e.live \/ Cardinality(f.live) > 1
          /\ e.paused \ f.paused # {} => cmd \in Resuming
      BY <1>5, EffectsFacts
    <2>2. Sound(e) => Sound(f)
      BY <2>1 DEF Sound
    <2>3. e.paused \subseteq f.paused
      BY <1>1, <1>5, <2>1
    <2> QED  BY <1>2, <1>5, <2>1, <2>2, <2>3
  <1>6. \/ done = {} /\ g = e
        \/ \E f \in PriorityMoves(e) : /\ cmd \in {"Pass", "Continue"} /\ done # {}
                                       /\ g = [f EXCEPT !.stray = TRUE]
        \/ \E f \in done : /\ cmd \in GameCommands \cup {"Continue"}
                           /\ g = [f EXCEPT !.stray = TRUE]
    BY DEF Refused
  <1> QED  BY <1>3, <1>4, <1>5, <1>6

\* The continuation names whoever the engine would go on for.
LEMMA ContinuationFacts ==
    ASSUME NEW e \in Engine, NEW skips
    PROVE  /\ Continuation(e, skips) \in e.live \cup {None}
           /\ \A p \in e.live : Acts(e, p, {}) => Continuation(e, skips) = p
  <1>1. CASE \E p \in e.live : Acts(e, p, skips)
    <2>1. Continuation(e, skips) \in e.live /\ Acts(e, Continuation(e, skips), skips)
      <3> DEFINE q == CHOOSE p \in e.live : Acts(e, p, skips)
      <3>1. Continuation(e, skips) = q
        BY <1>1 DEF Continuation
      <3>2. q \in e.live /\ Acts(e, q, skips)
        BY <1>1
      <3> QED  BY <3>1, <3>2
    <2>2. e.turn = Continuation(e, skips)
      BY <2>1 DEF Acts
    <2>3. \A p : Acts(e, p, {}) => e.turn = p
      BY DEF Acts
    <2> QED  BY <2>1, <2>2, <2>3
  <1>2. CASE ~ \E p \in e.live : Acts(e, p, skips)
    <2>1. Continuation(e, skips) = None
      BY <1>2 DEF Continuation
    <2>2. \A p \in e.live : ~Acts(e, p, {})
      BY <1>2 DEF Acts
    <2> QED  BY <2>1, <2>2
  <1> QED  BY <1>1, <1>2

\* A new engine has everybody in the game and acts for nobody.
LEMMA NewEngineFacts ==
    ASSUME NEW S \in SUBSET Player, NEW e \in NewEngines(S)
    PROVE  /\ e \in Engine /\ e.live = S /\ e.over = FALSE /\ e.index = 0
           /\ \A p, skips : ~Acts(e, p, skips)
  <1>1. PICK p \in S :
            e = [live |-> S, over |-> FALSE, turn |-> p, ask |-> "Choice", index |-> 0,
                 known |-> {}, full |-> {}, paused |-> {}, yielding |-> {}, stray |-> FALSE]
    BY DEF NewEngines
  <1>2. p \in Player
    OBVIOUS
  <1>3. e \in Engine
    BY <1>1, <1>2 DEF Engine, Situations
  <1>4. e.live = S /\ e.over = FALSE /\ e.index = 0 /\ e.known = {}
    BY <1>1
  <1> QED  BY <1>3, <1>4 DEF Acts

-----------------------------------------------------------------------------
(***************************************************************************)
(* Worlds: a table with its connections, on the way to the next state.     *)
(***************************************************************************)

Worlds == [srv : Table, conn : [Conns -> Conn]]

\* Only the connection of the relay is in use.
Lined(w) == \A c \in Conns \ {w.srv.relay} : Unused(w.conn[c])

\* A table without a relay, outside a call.
Alone(w) ==
    /\ w \in Worlds
    /\ w.srv.relay = 0 /\ w.srv.call = NoCall
    /\ Relayed(w.srv)
    /\ \A c \in Conns : Unused(w.conn[c])

\* What the records of the model are made of.
LEMMA ConstantFacts ==
    /\ NoCall \in Call /\ NoCall.kind = "None" /\ NoCall.player = None /\ NoCall.left = 0
    /\ NoTimer \in Timer /\ NoTimer.player = None /\ NoTimer.index = 0
    /\ EndRequest \in Request /\ EndRequest.kind = "End"
    /\ Refusal \in Response /\ Refusal.ok = FALSE /\ Refusal.batch = FALSE
    /\ 0 \notin Conns /\ 0 \in 0 .. MaxConns
    /\ Conns \subseteq 0 .. MaxConns /\ \A n \in 0 .. MaxConns : n = 0 \/ n \in Conns
  <1>1. NoCall \in Call /\ NoCall.kind = "None" /\ NoCall.player = None /\ NoCall.left = 0
    BY SessionAssumption DEF NoCall, Call
  <1>2. NoTimer \in Timer /\ NoTimer.player = None /\ NoTimer.index = 0
    BY DEF NoTimer, Timer
  <1>3. EndRequest \in Request /\ EndRequest.kind = "End"
    BY DEF EndRequest, Request
  <1>4. Refusal \in Response /\ Refusal.ok = FALSE /\ Refusal.batch = FALSE
    BY DEF Refusal, Response
  <1>5. /\ 0 \notin Conns /\ 0 \in 0 .. MaxConns
        /\ Conns \subseteq 0 .. MaxConns /\ \A n \in 0 .. MaxConns : n = 0 \/ n \in Conns
    BY SessionAssumption DEF Conns
  <1> QED  BY <1>1, <1>2, <1>3, <1>4, <1>5

\* A table without a relay is good.
LEMMA AloneIsGood ==
    ASSUME NEW w, Alone(w) PROVE Good(w.srv, w.conn)
  BY DEF Alone, Good, Worlds

\* A connection that is hung up is out of use.
LEMMA HangupFacts ==
    ASSUME NEW c \in Conn PROVE Hangup(c) \in Conn /\ Unused(Hangup(c))
  <1> DEFINE E == IF c.engine = None THEN None ELSE Orphan
             R == IF c.client = "Up" /\ c.alive /\ ~c.cut THEN <<EndRequest>> ELSE <<>>
             h == [c EXCEPT !.client = "Gone", !.resps = <<>>, !.engine = E, !.reqs = R]
  <1>1. Hangup(c) = h
    BY DEF Hangup, Conn
  <1>2. E \in {None, Orphan} /\ R \in {<<>>, <<EndRequest>>} /\ R \in Seq(Request)
    BY ConstantFacts
  <1>3. <<>> \in Seq(Response)
    OBVIOUS
  <1> HIDE DEF E, R
  <1>4. h \in Conn
    BY <1>2, <1>3 DEF Conn
  <1>5. h.client = "Gone" /\ h.resps = <<>> /\ h.engine = E /\ h.reqs = R
    BY DEF Conn
  <1> HIDE DEF h
  <1> QED  BY <1>1, <1>2, <1>4, <1>5 DEF Unused

\* Without its relay a table uses no connection.
LEMMA DropRelayFacts ==
    ASSUME NEW w \in Worlds, Lined(w)
    PROVE  /\ DropRelay(w) \in Worlds
           /\ DropRelay(w).srv = [w.srv EXCEPT !.relay = 0]
           /\ \A c \in Conns : Unused(DropRelay(w).conn[c])
  <1>1. w.srv \in Table /\ w.conn \in [Conns -> Conn] /\ w.srv.relay \in 0 .. MaxConns
    BY DEF Worlds, Table
  <1>2. CASE w.srv.relay = 0
    <2>1. DropRelay(w) = w
      BY <1>2 DEF DropRelay
    <2>2. w.srv = [w.srv EXCEPT !.relay = 0]
      BY <1>1, <1>2 DEF Table
    <2>3. \A c \in Conns : c # 0
      BY ConstantFacts
    <2> QED  BY <1>2, <2>1, <2>2, <2>3 DEF Lined
  <1>3. CASE w.srv.relay # 0
    <2> DEFINE r == w.srv.relay
               t == [w.srv EXCEPT !.relay = 0]
               C == [w.conn EXCEPT ![r] = Hangup(@)]
    <2>1. r \in Conns
      BY <1>1, <1>3, ConstantFacts
    <2>2. DropRelay(w) = [srv |-> t, conn |-> C]
      BY <1>3 DEF DropRelay
    <2>3. t \in Table
      BY <1>1, ConstantFacts DEF Table
    <2>4. Hangup(w.conn[r]) \in Conn /\ Unused(Hangup(w.conn[r]))
      BY <1>1, <2>1, HangupFacts
    <2>5. C \in [Conns -> Conn] /\ C[r] = Hangup(w.conn[r])
          /\ \A c \in Conns \ {r} : C[c] = w.conn[c]
      BY <1>1, <2>1, <2>4
    <2>6. \A c \in Conns : Unused(C[c])
      BY <2>4, <2>5 DEF Lined
    <2> HIDE DEF r, t, C
    <2>7. DropRelay(w) \in Worlds /\ DropRelay(w).srv = t /\ DropRelay(w).conn = C
      BY <2>2, <2>3, <2>5 DEF Worlds
    <2> QED  BY <2>6, <2>7 DEF t
  <1> QED  BY <1>2, <1>3

\* The table of a world may change without its connections.
LEMMA WithTable ==
    ASSUME NEW w \in Worlds, NEW t \in Table
    PROVE  /\ [w EXCEPT !.srv = t] \in Worlds
           /\ [w EXCEPT !.srv = t].srv = t
           /\ [w EXCEPT !.srv = t].conn = w.conn
  BY DEF Worlds

\* handleConnectionLost leaves a table without a relay whose players were told.
LEMMA EngineLostAlone ==
    ASSUME NEW w \in Worlds, Lined(w), w.srv.call = NoCall, Relayed(w.srv)
    PROVE  Alone(EngineLost(w))
  <1>1. w.srv \in Table /\ w.srv.notices \in Nat
    BY DEF Worlds, Table
  <1>2. CASE w.srv.lost
    <2>1. EngineLost(w) = w /\ w.srv.relay = 0
      BY <1>2 DEF EngineLost, Relayed
    <2> QED  BY <2>1, ConstantFacts DEF Alone, Lined
  <1>3. CASE ~w.srv.lost
    <2> DEFINE d == DropRelay(w)
               n == d.srv.notices + 1
               t == [d.srv EXCEPT !.lost = TRUE, !.notices = n]
    <2>1. d \in Worlds /\ d.srv = [w.srv EXCEPT !.relay = 0] /\ \A c \in Conns : Unused(d.conn[c])
      BY DropRelayFacts
    <2> HIDE DEF d
    <2>2. d.srv \in Table
      BY <2>1 DEF Worlds
    <2>3. /\ d.srv.relay = 0 /\ d.srv.call = NoCall /\ d.srv.notices = 0
      BY <1>1, <1>3, <2>1 DEF Table, Relayed
    <2>4. EngineLost(w) = [d EXCEPT !.srv = t]
      BY <1>3, <2>1, <2>2 DEF EngineLost, d, Worlds, Table
    <2>5. n = 1
      BY <2>3
    <2> HIDE DEF n
    <2>6. t \in Table /\ t.relay = 0 /\ t.call = NoCall /\ t.notices = n /\ t.lost = TRUE
      BY <2>2, <2>3, <2>5 DEF Table
    <2> HIDE DEF t
    <2>7. [d EXCEPT !.srv = t] \in Worlds /\ [d EXCEPT !.srv = t].srv = t
          /\ [d EXCEPT !.srv = t].conn = d.conn
      BY <2>1, <2>6, WithTable
    <2>8. Relayed(t)
      BY <2>5, <2>6 DEF Relayed
    <2> QED  BY <2>1, <2>4, <2>6, <2>7, <2>8 DEF Alone
  <1> QED  BY <1>2, <1>3

\* A start that is taken back leaves a table without a relay.
LEMMA UnstartAlone ==
    ASSUME NEW w \in Worlds, Lined(w), w.srv.call = NoCall,
           w.srv.notices = IF w.srv.lost THEN 1 ELSE 0
    PROVE  Alone(Unstart(w))
  <1> DEFINE d == DropRelay(w)
             t == [d.srv EXCEPT !.started = FALSE]
  <1>1. w.srv \in Table
    BY DEF Worlds
  <1>2. d \in Worlds /\ d.srv = [w.srv EXCEPT !.relay = 0] /\ \A c \in Conns : Unused(d.conn[c])
    BY DropRelayFacts
  <1> HIDE DEF d
  <1>3. d.srv \in Table
    BY <1>2 DEF Worlds
  <1>4. d.srv.relay = 0 /\ d.srv.call = NoCall /\ d.srv.notices = w.srv.notices
        /\ d.srv.lost = w.srv.lost
    BY <1>1, <1>2 DEF Table
  <1>5. Unstart(w) = [d EXCEPT !.srv = t]
    BY <1>2, <1>3 DEF Unstart, d, Worlds, Table
  <1>6. t \in Table /\ t.relay = 0 /\ t.call = NoCall /\ t.notices = w.srv.notices
        /\ t.lost = w.srv.lost /\ t.started = FALSE
    BY <1>3, <1>4 DEF Table
  <1> HIDE DEF t
  <1>7. [d EXCEPT !.srv = t] \in Worlds /\ [d EXCEPT !.srv = t].srv = t
        /\ [d EXCEPT !.srv = t].conn = d.conn
    BY <1>2, <1>6, WithTable
  <1>8. Relayed(t)
    BY <1>6 DEF Relayed
  <1> QED  BY <1>2, <1>5, <1>6, <1>7, <1>8 DEF Alone

\* stopGameIfFinished.
LEMMA StopFacts ==
    ASSUME NEW w \in Worlds
    PROVE  /\ StopIfFinished(w) \in Worlds /\ StopIfFinished(w).conn = w.conn
           /\ LET t == StopIfFinished(w).srv
              IN  /\ t.seated = w.srv.seated /\ t.online = w.srv.online
                  /\ t.absent = w.srv.absent /\ t.relay = w.srv.relay /\ t.lost = w.srv.lost
                  /\ t.timer = w.srv.timer /\ t.call = w.srv.call
                  /\ t.notices = w.srv.notices /\ t.silenced = w.srv.silenced
                  /\ \/ t.started = w.srv.started /\ t.conceded = w.srv.conceded
                     \/ /\ t.started = FALSE
                        /\ ~(Cardinality(w.srv.seated \ w.srv.conceded) > 1)
  <1> DEFINE t == [w.srv EXCEPT !.started = FALSE, !.conceded = {}]
  <1>1. w.srv \in Table
    BY DEF Worlds
  <1>2. CASE Cardinality(w.srv.seated \ w.srv.conceded) > 1
    BY <1>2 DEF StopIfFinished
  <1>3. CASE ~(Cardinality(w.srv.seated \ w.srv.conceded) > 1)
    <2>1. StopIfFinished(w) = [w EXCEPT !.srv = t]
      BY <1>3 DEF StopIfFinished, Worlds, Table
    <2>2. t \in Table
      BY <1>1 DEF Table
    <2>3. /\ t.seated = w.srv.seated /\ t.online = w.srv.online
          /\ t.absent = w.srv.absent /\ t.relay = w.srv.relay /\ t.lost = w.srv.lost
          /\ t.timer = w.srv.timer /\ t.call = w.srv.call
          /\ t.notices = w.srv.notices /\ t.silenced = w.srv.silenced
          /\ t.started = FALSE
      BY <1>1 DEF Table
    <2> HIDE DEF t
    <2>4. [w EXCEPT !.srv = t] \in Worlds /\ [w EXCEPT !.srv = t].srv = t
          /\ [w EXCEPT !.srv = t].conn = w.conn
      BY <2>2, WithTable
    <2> QED  BY <1>3, <2>1, <2>3, <2>4
  <1> QED  BY <1>2, <1>3

\* removeParticipant.
LEMMA RemoveFacts ==
    ASSUME NEW w \in Worlds, NEW p
    PROVE  /\ Remove(w, p) \in Worlds /\ Remove(w, p).conn = w.conn
           /\ LET t == Remove(w, p).srv
              IN  /\ t.seated = w.srv.seated \ {p} /\ t.online = w.srv.online \ {p}
                  /\ t.absent = w.srv.absent \ {p} /\ t.relay = w.srv.relay
                  /\ t.lost = w.srv.lost /\ t.timer = w.srv.timer /\ t.call = w.srv.call
                  /\ t.notices = w.srv.notices /\ t.silenced = w.srv.silenced
                  /\ \/ t.started = w.srv.started /\ t.conceded = w.srv.conceded \ {p}
                     \/ /\ t.started = FALSE
                        /\ ~(Cardinality((w.srv.seated \ {p}) \ (w.srv.conceded \ {p})) > 1)
  <1> DEFINE S == w.srv.seated \ {p}
             O == w.srv.online \ {p}
             K == w.srv.conceded \ {p}
             A == w.srv.absent \ {p}
             t == [w.srv EXCEPT !.seated = S, !.online = O, !.conceded = K, !.absent = A]
             v == [w EXCEPT !.srv = t]
  <1>1. w.srv \in Table /\ {S, O, K, A} \subseteq SUBSET Player
    BY DEF Worlds, Table
  <1>2. Remove(w, p) = StopIfFinished(v)
    <2>1. v = [w EXCEPT !.srv.seated = @ \ {p}, !.srv.online = @ \ {p},
                        !.srv.conceded = @ \ {p}, !.srv.absent = @ \ {p}]
      BY <1>1 DEF Worlds, Table
    <2> QED  BY <2>1 DEF Remove
  <1> HIDE DEF S, O, K, A
  <1>3. t \in Table
    BY <1>1 DEF Table
  <1>4. /\ t.seated = S /\ t.online = O /\ t.conceded = K /\ t.absent = A
        /\ t.started = w.srv.started /\ t.relay = w.srv.relay /\ t.lost = w.srv.lost
        /\ t.timer = w.srv.timer /\ t.call = w.srv.call
        /\ t.notices = w.srv.notices /\ t.silenced = w.srv.silenced
    BY <1>1 DEF Table
  <1> HIDE DEF t
  <1>5. v \in Worlds /\ v.srv = t /\ v.conn = w.conn
    BY <1>3, WithTable
  <1> HIDE DEF v
  <1> DEFINE z == StopIfFinished(v)
  <1>6. /\ z \in Worlds /\ z.conn = v.conn
        /\ z.srv.seated = t.seated /\ z.srv.online = t.online
        /\ z.srv.absent = t.absent /\ z.srv.relay = t.relay /\ z.srv.lost = t.lost
        /\ z.srv.timer = t.timer /\ z.srv.call = t.call
        /\ z.srv.notices = t.notices /\ z.srv.silenced = t.silenced
        /\ \/ z.srv.started = t.started /\ z.srv.conceded = t.conceded
           \/ z.srv.started = FALSE /\ ~(Cardinality(t.seated \ t.conceded) > 1)
    BY <1>5, StopFacts
  <1> HIDE DEF z
  <1>7. Remove(w, p) = z
    BY <1>2 DEF z
  <1> QED  BY <1>4, <1>5, <1>6, <1>7 DEF S, O, K, A

\* A table without a relay stays one whatever else is written down on it.
LEMMA StaysAlone ==
    ASSUME NEW w, Alone(w), NEW v \in Worlds, v.conn = w.conn,
           v.srv.relay = w.srv.relay, v.srv.call = w.srv.call, v.srv.lost = w.srv.lost,
           v.srv.notices = w.srv.notices, v.srv.started => w.srv.started
    PROVE  Alone(v)
  BY DEF Alone, Relayed

\* Taking a player off a table without a relay.
LEMMA RemoveAlone ==
    ASSUME NEW w, Alone(w), NEW p PROVE Alone(Remove(w, p))
  <1>1. w \in Worlds
    BY DEF Alone
  <1> DEFINE v == Remove(w, p)
  <1>2. /\ v \in Worlds /\ v.conn = w.conn /\ v.srv.relay = w.srv.relay
        /\ v.srv.call = w.srv.call /\ v.srv.lost = w.srv.lost
        /\ v.srv.notices = w.srv.notices
        /\ v.srv.started = w.srv.started \/ v.srv.started = FALSE
    BY <1>1, RemoveFacts
  <1> HIDE DEF v
  <1>3. v.srv.started => w.srv.started
    BY <1>2
  <1>4. Alone(v)
    BY <1>2, <1>3, StaysAlone
  <1> QED  BY <1>4 DEF v

-----------------------------------------------------------------------------
(***************************************************************************)
(* Calls.                                                                  *)
(***************************************************************************)

\* A world between two calls, with a relay whose line is clear.
Clear(w) ==
    /\ w \in Worlds /\ Lined(w) /\ Relayed(w.srv)
    /\ w.srv.call = NoCall /\ w.srv.relay # 0
    /\ LET c == w.conn[w.srv.relay]
       IN  /\ c.client \in {"Up", "Down"} /\ c.engine # Orphan
           /\ c.reqs = <<>> /\ c.resps = <<>>

\* Making a call changes nothing else of the table.
LEMMA CallFields ==
    ASSUME NEW t \in Table, NEW k \in Call
    PROVE  LET u == [t EXCEPT !.call = k]
           IN  /\ u \in Table /\ u.call = k
               /\ u.started = t.started /\ u.seated = t.seated /\ u.online = t.online
               /\ u.conceded = t.conceded /\ u.relay = t.relay /\ u.lost = t.lost
               /\ u.timer = t.timer /\ u.notices = t.notices /\ u.silenced = t.silenced
               /\ u.absent = t.absent /\ u.skips = t.skips /\ u.closed = t.closed
  BY DEF Table

\* A call over a clear line is asked, or silent, or fails at once.
LEMMA CallingGood ==
    ASSUME NEW w, Clear(w), NEW k \in Call, k.kind # "None", NEW r \in Request,
           w.conn[w.srv.relay].alive
               => Asked([w.srv EXCEPT !.call = k], w.conn[w.srv.relay].engine, r),
           NEW failed,
           w.conn[w.srv.relay].client = "Up" \/ Good(failed.srv, failed.conn)
    PROVE  Good(Calling(w, k, r, failed).srv, Calling(w, k, r, failed).conn)
  <1> DEFINE n == w.srv.relay
             c == w.conn[n]
             t == [w.srv EXCEPT !.call = k]
             d == Write(c, r)
             C == [w.conn EXCEPT ![n] = d]
  <1>1. w \in Worlds /\ w.srv \in Table /\ w.conn \in [Conns -> Conn] /\ n \in Conns
        /\ c \in Conn /\ c.client \in {"Up", "Down"} /\ c.engine # Orphan
        /\ c.reqs = <<>> /\ c.resps = <<>> /\ Relayed(w.srv) /\ Lined(w)
    <2>1. w \in Worlds /\ Relayed(w.srv) /\ Lined(w) /\ w.srv.relay # 0
          /\ c.client \in {"Up", "Down"} /\ c.engine # Orphan /\ c.reqs = <<>> /\ c.resps = <<>>
      BY DEF Clear
    <2>2. w.srv \in Table /\ w.conn \in [Conns -> Conn] /\ n \in 0 .. MaxConns
      BY <2>1 DEF Worlds, Table
    <2>3. n \in Conns
      BY <2>1, <2>2, ConstantFacts
    <2> QED  BY <2>1, <2>2, <2>3
  <1>2. CASE c.client # "Up"
    <2>1. Calling(w, k, r, failed) = failed
      BY <1>2 DEF Calling, ConnectIfNeeded
    <2> QED  BY <1>2, <2>1
  <1>3. CASE c.client = "Up"
    <2>1. Calling(w, k, r, failed) = [srv |-> t, conn |-> C]
      BY <1>3 DEF Calling, ConnectIfNeeded
    <2>2. /\ t \in Table /\ t.call = k /\ t.relay = n /\ t.lost = w.srv.lost
          /\ t.started = w.srv.started /\ t.notices = w.srv.notices
      BY <1>1, CallFields
    <2>3. Asked(t, c.engine, r) \/ ~c.alive
      OBVIOUS
    <2> HIDE DEF t
    <2>4. /\ d \in Conn /\ d.client = c.client /\ d.engine = c.engine /\ d.alive = c.alive
          /\ d.resps = <<>> /\ (d.reqs = <<>> \/ (d.reqs = <<r>> /\ c.alive))
      <3>1. CASE c.alive /\ ~c.cut
        <4>1. d = [c EXCEPT !.reqs = <<r>>]
          BY <1>1, <3>1 DEF Write, Conn
        <4>2. <<r>> \in Seq(Request)
          OBVIOUS
        <4> QED  BY <1>1, <3>1, <4>1, <4>2 DEF Conn
      <3>2. CASE ~(c.alive /\ ~c.cut)
        BY <1>1, <3>2 DEF Write
      <3> QED  BY <3>1, <3>2
    <2> HIDE DEF d
    <2>5. C \in [Conns -> Conn] /\ C[n] = d /\ \A x \in Conns \ {n} : C[x] = w.conn[x]
      BY <1>1, <2>4
    <2> HIDE DEF C
    <2>6. k # NoCall
      BY ConstantFacts
    <2>7. Relayed(t)
      BY <1>1, <2>2, <2>6, ConstantFacts DEF Relayed
    <2>8. \A x \in Conns \ {t.relay} : Unused(C[x])
      BY <1>1, <2>2, <2>5 DEF Lined
    <2>9. Phase(t, d)
      BY <1>1, <2>2, <2>3, <2>4, <2>6 DEF Phase
    <2>10. Good(t, C)
      BY <1>1, <2>2, <2>4, <2>5, <2>7, <2>8, <2>9 DEF Good
    <2> QED  BY <2>1, <2>10
  <1> QED  BY <1>2, <1>3

\* A call that got no answer costs the table its relay.
LEMMA FailedAlone ==
    ASSUME NEW w \in Worlds, Lined(w), w.srv.call = NoCall, Relayed(w.srv), NEW k
    PROVE  Alone(Failed(w, k))
  <1> DEFINE z == EngineLost(w)
  <1>1. Alone(z) /\ Alone(Unstart(w))
    BY EngineLostAlone, UnstartAlone DEF Relayed
  <1>2. Alone(Remove(z, k.player))
    BY <1>1, RemoveAlone
  <1>3. Alone([z EXCEPT !.srv.conceded = @ \ {k.player}])
    <2> HIDE DEF z
    <2> DEFINE K == z.srv.conceded \ {k.player}
               t == [z.srv EXCEPT !.conceded = K]
    <2>1. z \in Worlds /\ z.srv \in Table
      BY <1>1 DEF Alone, Worlds
    <2>2. K \in SUBSET Player
      BY <2>1 DEF Table
    <2>3. [z EXCEPT !.srv.conceded = @ \ {k.player}] = [z EXCEPT !.srv = t]
      BY <2>1 DEF Worlds, Table
    <2> HIDE DEF K
    <2>4. t \in Table /\ t.relay = z.srv.relay /\ t.call = z.srv.call /\ t.lost = z.srv.lost
          /\ t.notices = z.srv.notices /\ t.started = z.srv.started
      BY <2>1, <2>2 DEF Table
    <2> HIDE DEF t
    <2>5. [z EXCEPT !.srv = t] \in Worlds /\ [z EXCEPT !.srv = t].srv = t
          /\ [z EXCEPT !.srv = t].conn = z.conn
      BY <2>1, <2>4, WithTable
    <2>6. t.started => z.srv.started
      BY <2>4
    <2>7. Alone([z EXCEPT !.srv = t])
      BY <1>1, <2>4, <2>5, <2>6, StaysAlone
    <2> QED  BY <2>3, <2>7
  <1> HIDE DEF z
  <1>4. Failed(w, k) \in {Unstart(w), z, Remove(z, k.player),
                          [z EXCEPT !.srv.conceded = @ \ {k.player}]}
    BY DEF Failed, z
  <1> QED  BY <1>1, <1>2, <1>3, <1>4

\* The call a table makes for a player.
CallOf(kind, p) ==
    [kind |-> kind, left |-> 0, player |-> IF kind \in {"Concede", "Leave"} THEN p ELSE None]

\* What is submitted over a clear line is asked, or silent, or costs the table
\* its relay.
LEMMA SubmitGood ==
    ASSUME NEW w, Clear(w), NEW kind \in Kinds, NEW p \in Player, NEW r \in Request,
           w.conn[w.srv.relay].alive
               => Asked([w.srv EXCEPT !.call = CallOf(kind, p)], w.conn[w.srv.relay].engine, r)
    PROVE  Good(Submit(w, kind, p, r).srv, Submit(w, kind, p, r).conn)
  <1> DEFINE k == CallOf(kind, p)
  <1>1. k \in Call /\ k.kind # "None"
    BY SessionAssumption DEF CallOf, Call, Kinds
  <1>2. Submit(w, kind, p, r) = Calling(w, k, r, Failed(w, k))
    BY DEF Submit, CallOf
  <1>3. Alone(Failed(w, k))
    BY FailedAlone DEF Clear
  <1>4. Good(Failed(w, k).srv, Failed(w, k).conn)
    BY <1>3, AloneIsGood
  <1> HIDE DEF k
  <1>5. w.conn[w.srv.relay].alive
               => Asked([w.srv EXCEPT !.call = k], w.conn[w.srv.relay].engine, r)
    BY DEF k
  <1>6. Good(Calling(w, k, r, Failed(w, k)).srv, Calling(w, k, r, Failed(w, k)).conn)
    BY <1>1, <1>4, <1>5, CallingGood
  <1> QED  BY <1>2, <1>6

-----------------------------------------------------------------------------
(***************************************************************************)
(* The sidecar and the network.                                            *)
(***************************************************************************)

\* The invariant holds of a table nobody has started a game at.
LEMMA InitInv == Init => Inv
  <1> SUFFICES ASSUME Init PROVE Inv
    OBVIOUS
  <1>1. srv \in Table /\ srv.relay = 0 /\ srv.lost = FALSE /\ srv.started = FALSE
        /\ srv.notices = 0 /\ srv.call = NoCall
    BY ConstantFacts DEF Init, NewTable, Table
  <1>2. NewConn \in Conn /\ Unused(NewConn)
    BY DEF NewConn, Conn, Unused
  <1>3. conn \in [Conns -> Conn] /\ \A c \in Conns : Unused(conn[c])
    BY <1>2 DEF Init
  <1>4. Relayed(srv)
    BY <1>1 DEF Relayed
  <1> QED  BY <1>1, <1>3, <1>4 DEF Inv, Good

\* What the invariant says of the connection the table uses, and of the others.
LEMMA ConnFacts ==
    ASSUME Inv, NEW c \in Conns
    PROVE  /\ conn[c] \in Conn
           /\ c # srv.relay => Unused(conn[c])
           /\ c = srv.relay => /\ conn[c].client \in {"Up", "Down"} /\ conn[c].engine # Orphan
                               /\ Phase(srv, conn[c])
  BY ConstantFacts DEF Inv, Good

\* A step of one connection keeps the invariant if it keeps that connection's part.
LEMMA ConnStep ==
    ASSUME Inv, NEW c \in Conns, NEW d \in Conn, conn' = [conn EXCEPT ![c] = d], srv' = srv,
           c # srv.relay => Unused(d),
           c = srv.relay => d.client \in {"Up", "Down"} /\ d.engine # Orphan /\ Phase(srv, d)
    PROVE  Inv'
  <1> DEFINE C == conn'
             t == srv
  <1>1. C \in [Conns -> Conn] /\ C[c] = d /\ \A x \in Conns \ {c} : C[x] = conn[x]
    BY DEF Inv, Good
  <1>2. t.relay \in 0 .. MaxConns
    BY DEF Inv, Good, Table
  <1> HIDE DEF C
  <1>3. \A x \in Conns \ {t.relay} : Unused(C[x])
    BY <1>1 DEF Inv, Good
  <1>4. t.relay # 0 => /\ C[t.relay].client \in {"Up", "Down"} /\ C[t.relay].engine # Orphan
                       /\ Phase(t, C[t.relay])
    <2>1. CASE t.relay = c
      BY <1>1, <2>1
    <2>2. CASE t.relay # c /\ t.relay # 0
      <3>1. t.relay \in Conns
        BY <1>2, <2>2, ConstantFacts
      <3> QED  BY <1>1, <2>2, <3>1 DEF Inv, Good
    <2> QED  BY <2>1, <2>2
  <1>5. Good(t, C)
    BY <1>1, <1>3, <1>4 DEF Inv, Good
  <1> QED  BY <1>5 DEF Inv, C

\* A request, an answer or nothing at all is under way on the line in use.
LEMMA PhaseCases ==
    ASSUME NEW t, NEW c, Phase(t, c)
    PROVE  /\ t.call = NoCall => c.reqs = <<>> /\ c.resps = <<>>
           /\ c.reqs # <<>> => /\ c.reqs = <<Head(c.reqs)>> /\ c.resps = <<>> /\ c.alive
                               /\ Asked(t, c.engine, Head(c.reqs)) /\ t.call # NoCall
           /\ c.resps # <<>> => /\ c.resps = <<Head(c.resps)>> /\ c.reqs = <<>>
                                /\ Answered(t, c.engine, Head(c.resps)) /\ t.call # NoCall
                                /\ c.alive => \/ c.engine # None
                                              \/ t.call.kind = "Start" /\ ~Head(c.resps).ok
  BY DEF Phase

\* The end of a connection in the sidecar keeps the invariant.
LEMMA ReleaseInv ==
    ASSUME Inv, NEW c \in Conns, conn' = Release(c), srv' = srv PROVE Inv'
  <1> DEFINE o == conn[c]
             d == [o EXCEPT !.alive = FALSE, !.engine = None, !.reqs = <<>>]
  <1>1. o \in Conn
    BY ConnFacts
  <1>2. conn' = [conn EXCEPT ![c] = d]
    <2>1. conn \in [Conns -> Conn]
      BY DEF Inv, Good
    <2> QED  BY <1>1, <2>1 DEF Release, Conn
  <1>3. d \in Conn /\ d.client = o.client /\ d.alive = FALSE /\ d.engine = None /\ d.reqs = <<>>
        /\ d.resps = o.resps
    <2>1. <<>> \in Seq(Request) /\ FALSE \in BOOLEAN
      OBVIOUS
    <2>2. d \in Conn
      BY <1>1, <2>1 DEF Conn
    <2> QED  BY <1>1, <2>2 DEF Conn
  <1> HIDE DEF d
  <1>4. c # srv.relay => Unused(d)
    BY <1>3, ConnFacts DEF Unused
  <1>5. ASSUME c = srv.relay PROVE d.client \in {"Up", "Down"} /\ d.engine # Orphan /\ Phase(srv, d)
    <2>1. Phase(srv, o) /\ o.client \in {"Up", "Down"}
      BY <1>5, ConnFacts
    <2> HIDE DEF o
    <2>2. None # Orphan
      BY SessionAssumption
    <2>3. CASE o.resps = <<>>
      BY <1>3, <2>1, <2>2, <2>3 DEF Phase
    <2>4. CASE o.resps # <<>>
      <3>1. o.resps = <<Head(o.resps)>> /\ Answered(srv, o.engine, Head(o.resps)) /\ srv.call # NoCall
        BY <2>1, <2>4, PhaseCases
      <3>2. Answered(srv, d.engine, Head(d.resps))
        BY <1>3, <3>1 DEF Answered
      <3> QED  BY <1>3, <2>1, <2>2, <2>4, <3>1, <3>2 DEF Phase
    <2> QED  BY <2>3, <2>4
  <1> QED  BY <1>2, <1>3, <1>4, <1>5, ConnStep

\* A cut, and the news of a socket that closed, keep the invariant.
LEMMA LineInv ==
    ASSUME Inv, NEW c \in Conns, Cut(c) \/ SocketDown(c) PROVE Inv'
  <1> DEFINE o == conn[c]
  <1>1. o \in Conn /\ conn \in [Conns -> Conn]
    BY ConnFacts DEF Inv, Good
  <1>2. CASE Cut(c)
    <2> DEFINE d == [o EXCEPT !.cut = TRUE, !.reqs = <<>>, !.resps = <<>>]
    <2>1. conn' = [conn EXCEPT ![c] = d] /\ srv' = srv /\ (o.reqs # <<>> \/ o.resps # <<>>)
      <3>1. conn' = [conn EXCEPT ![c].cut = TRUE, ![c].reqs = <<>>, ![c].resps = <<>>]
            /\ srv' = srv /\ (o.reqs # <<>> \/ o.resps # <<>>)
        BY <1>2 DEF Cut
      <3> QED  BY <1>1, <3>1 DEF Conn
    <2>2. d \in Conn /\ d.client = o.client /\ d.engine = o.engine /\ d.reqs = <<>> /\ d.resps = <<>>
      <3>1. <<>> \in Seq(Request) /\ <<>> \in Seq(Response) /\ TRUE \in BOOLEAN
        OBVIOUS
      <3>2. d \in Conn
        BY <1>1, <3>1 DEF Conn
      <3> QED  BY <1>1, <3>2 DEF Conn
    <2> HIDE DEF d, o
    <2>3. c # srv.relay => Unused(d)
      BY <2>2, ConnFacts DEF Unused, o
    <2>4. ASSUME c = srv.relay
          PROVE  d.client \in {"Up", "Down"} /\ d.engine # Orphan /\ Phase(srv, d)
      <3>1. Phase(srv, o) /\ o.client \in {"Up", "Down"} /\ o.engine # Orphan
        BY <2>4, ConnFacts DEF o
      <3>2. srv.call # NoCall
        BY <2>1, <3>1, PhaseCases
      <3> QED  BY <2>2, <3>1, <3>2 DEF Phase
    <2> QED  BY <2>1, <2>2, <2>3, <2>4, ConnStep
  <1>3. CASE SocketDown(c)
    <2> DEFINE d == [o EXCEPT !.client = "Down"]
    <2>1. conn' = [conn EXCEPT ![c] = d] /\ srv' = srv /\ o.client = "Up"
      BY <1>1, <1>3 DEF SocketDown
    <2>2. d \in Conn /\ d.client = "Down" /\ d.engine = o.engine /\ d.reqs = o.reqs
          /\ d.resps = o.resps /\ d.alive = o.alive
      BY <1>1 DEF Conn
    <2> HIDE DEF d, o
    <2>3. c = srv.relay
      BY <2>1, ConnFacts DEF Unused, o
    <2>4. Phase(srv, o) /\ o.engine # Orphan
      BY <2>3, ConnFacts DEF o
    <2>5. Phase(srv, d)
      BY <2>2, <2>4 DEF Phase
    <2> QED  BY <2>1, <2>2, <2>3, <2>4, <2>5, ConnStep
  <1> QED  BY <1>2, <1>3

\* A new engine is in step with the table that started it.
LEMMA AnswerStart ==
    ASSUME NEW t \in Table, NEW r \in Request, Asked(t, None, r), r.kind = "Start",
           NEW f \in NewEngines(r.set)
    PROVE  /\ Answered(t, f, Batch(f, None)) /\ Batch(f, None) \in Response
           /\ f \in Engine
  <1>1. /\ t.call.kind = "Start" /\ r.set = t.seated /\ Cardinality(r.set) > 1 /\ Fresh(t)
    BY DEF Asked
  <1>2. r.set \in SUBSET Player
    BY DEF Request
  <1>3. f \in Engine /\ f.live = t.seated /\ f.over = FALSE /\ f.index = 0 /\ \A p : ~Acts(f, p, {})
    BY <1>1, <1>2, NewEngineFacts
  <1> DEFINE a == Batch(f, None)
  <1>4. a \in Response /\ a.ok = TRUE /\ a.batch = TRUE /\ a.index = f.index
    BY <1>3 DEF Batch, Response
  <1> HIDE DEF a
  <1>5. Sound(f) /\ Agree(t, f, {}) /\ Away(t, f, {}) /\ Hears(f, a)
    BY <1>1, <1>3, <1>4 DEF Sound, Agree, Away, Hears, Fresh
  <1>6. Answered(t, f, a)
    BY <1>1, <1>4, <1>5 DEF Answered
  <1> QED  BY <1>3, <1>4, <1>6 DEF a

\* The continuation of an engine, as an answer.
LEMMA BatchHears ==
    ASSUME NEW g \in Engine, NEW skips
    PROVE  LET a == Batch(g, Continuation(g, skips))
           IN  a \in Response /\ a.ok = TRUE /\ a.batch = TRUE /\ Hears(g, a)
  <1> DEFINE n == Continuation(g, skips)
             a == Batch(g, n)
  <1>1. n \in Player \cup {None} /\ \A p \in g.live : Acts(g, p, {}) => n = p
    BY ContinuationFacts DEF Engine
  <1> HIDE DEF n
  <1>2. a \in Response /\ a.ok = TRUE /\ a.batch = TRUE /\ a.index = g.index /\ a.player = n
    BY <1>1 DEF Batch, Response, Engine
  <1> HIDE DEF a
  <1>3. Hears(g, a)
    BY <1>1, <1>2 DEF Hears
  <1> QED  BY <1>2, <1>3 DEF a, n

\* An accepted command brings the engine in step with what the table did.
LEMMA AnswerAccepted ==
    ASSUME NEW t \in Table, NEW r \in Request, NEW e \in Engine, Asked(t, e, r), e # None,
           r.kind = "Command", NEW g \in Accepted(e, r.player, r.cmd, r.index, r.set)
    PROVE  /\ Answered(t, g, Batch(g, Continuation(g, r.set)))
           /\ Batch(g, Continuation(g, r.set)) \in Response /\ g \in Engine
  <1> DEFINE a == Batch(g, Continuation(g, r.set))
             p == r.player
             cmd == r.cmd
  <1>1. /\ t.call.kind \notin {"Start", "Preview"} /\ p \in Player /\ cmd \in Commands
        /\ Sound(e)
    BY DEF Asked
  <1>2. /\ g \in Engine /\ ~e.over /\ p \in e.live
        /\ g.live \subseteq e.live
        /\ Sound(e) => Sound(g)
        /\ cmd = "Concede" => p \notin g.live
        /\ e.paused \ g.paused \subseteq {p}
        /\ e.paused \ g.paused # {} => cmd \in {"Pass"} \cup Resuming
        /\ cmd = "Pause" => p \in g.paused
    BY <1>1, AcceptedFacts
  <1>3. a \in Response /\ a.ok = TRUE /\ a.batch = TRUE /\ Hears(g, a)
    BY <1>2, BatchHears
  <1> HIDE DEF a
  <1>4. ASSUME Agree(t, g, {}), Away(t, g, {}),
               t.call.kind = "Replay" => Fresh(t),
               t.call.kind \in {"Concede", "Leave"} => t.call.player \notin g.live
        PROVE  Answered(t, g, a)
    BY <1>1, <1>2, <1>3, <1>4 DEF Answered
  <1>5. CASE t.call.kind = "Replay"
    <2>1. Fresh(t) /\ Agree(t, e, {})
      BY <1>5 DEF Asked
    <2>2. Agree(t, g, {}) /\ Away(t, g, {})
      BY <1>2, <2>1 DEF Fresh, Agree, Away
    <2>3. Answered(t, g, a)
      BY <1>4, <1>5, <2>1, <2>2
    <2> QED  BY <1>2, <1>3, <2>3 DEF a
  <1>6. CASE t.call.kind = "Command"
    <2>1. Agree(t, e, {}) /\ Away(t, e, {}) /\ p \in t.online
      BY <1>6 DEF Asked
    <2>2. Agree(t, g, {}) /\ Away(t, g, {})
      BY <1>2, <2>1 DEF Agree, Away
    <2>3. Answered(t, g, a)
      BY <1>4, <1>6, <2>2
    <2> QED  BY <1>2, <1>3, <2>3 DEF a
  <1>7. CASE t.call.kind \in {"Concede", "Leave"}
    <2>1. /\ t.started /\ Agree(t, e, {t.call.player}) /\ Away(t, e, {})
          /\ p = t.call.player /\ cmd = "Concede"
      BY <1>7 DEF Asked
    <2>2. cmd \notin {"Pass"} \cup Resuming
      BY <2>1 DEF Resuming
    <2>3. e.paused \subseteq g.paused
      BY <1>2, <2>2
    <2>4. Agree(t, g, {}) /\ Away(t, g, {})
      BY <1>2, <2>1, <2>3 DEF Agree, Away
    <2>5. Answered(t, g, a)
      BY <1>2, <1>4, <1>7, <2>1, <2>4
    <2> QED  BY <1>2, <1>3, <2>5 DEF a
  <1>8. CASE t.call.kind = "Pause"
    <2>1. Agree(t, e, {}) /\ Away(t, e, {p}) /\ cmd = "Pause"
      BY <1>8 DEF Asked
    <2>2. cmd \notin {"Pass"} \cup Resuming
      BY <2>1 DEF Resuming
    <2>3. e.paused \subseteq g.paused
      BY <1>2, <2>2
    <2>4. Agree(t, g, {}) /\ Away(t, g, {})
      BY <1>2, <2>1, <2>3 DEF Agree, Away
    <2>5. Answered(t, g, a)
      BY <1>4, <1>8, <2>4
    <2> QED  BY <1>2, <1>3, <2>5 DEF a
  <1> QED  BY <1>5, <1>6, <1>7, <1>8 DEF Asked

\* A refused command leaves the engine in step, astray or not, or the relay is given
\* up, or the timer it stopped is written down as lost.
LEMMA AnswerRefused ==
    ASSUME NEW t \in Table, NEW r \in Request, NEW e \in Engine, Asked(t, e, r), e # None,
           r.kind = "Command", NEW g \in Refused(e, r.player, r.cmd, r.index, r.set)
    PROVE  Answered(t, g, Refusal) /\ g \in Engine
  <1> DEFINE none == Effects(e, r.player, r.cmd, r.index, r.set) = {}
  <1>1. /\ t.call.kind \notin {"Start", "Preview"} /\ Sound(e) /\ UpToDate(t, e)
        /\ r.player \in Player /\ r.cmd \in Commands
    BY DEF Asked
  <1>2. Refusal.ok = FALSE
    BY ConstantFacts
  <1>3. /\ g \in Engine
        /\ \/ g = e /\ none
           \/ /\ g.stray /\ ~e.over /\ r.cmd \notin Updates
              /\ g.live \subseteq e.live /\ g.index = e.index
              /\ e.paused \subseteq g.paused /\ (Sound(e) => Sound(g))
    BY <1>1, RefusedFacts
  <1> HIDE DEF none
  <1>4. CASE t.call.kind = "Replay"
    <2>1. Fresh(t)
      BY <1>4 DEF Asked
    <2> QED  BY <1>2, <1>3, <1>4, <2>1 DEF Answered
  <1>5. CASE t.call.kind = "Command"
    <2>1. /\ Agree(t, e, {}) /\ Away(t, e, {})
          /\ r.cmd = "Continue" => MissesNobody(t, e, r.player, r.index)
          /\ r.cmd # "Continue" => Going(t, e)
      BY <1>5 DEF Asked
    <2>2. ASSUME r.cmd = "Continue", none PROVE Going(t, e)
      <3>1. SUFFICES ASSUME NEW q \in e.live, Acts(e, q, {}), ~t.silenced, ~e.stray PROVE FALSE
        BY DEF Going
      <3>2. r.player = q /\ r.index = e.index
        BY <2>1, <2>2, <3>1 DEF MissesNobody
      <3>3. Acts(e, q, r.set) /\ ~e.over
        BY <3>1 DEF Acts
      <3>4. Effects(e, q, "Continue", r.index, r.set) # {}
        BY <3>2, <3>3, AlwaysLegal
      <3> QED  BY <2>2, <3>2, <3>4 DEF none
    <2>3. CASE g = e /\ none
      <3>1. InStep(t, e)
        BY <1>1, <2>1, <2>2, <2>3 DEF InStep
      <3> QED  BY <1>2, <1>3, <1>5, <2>3, <3>1 DEF Answered
    <2>4. CASE g.stray /\ ~(g = e /\ none)
      <3>1. Sound(g) /\ Agree(t, g, {}) /\ Away(t, g, {}) /\ UpToDate(t, g)
        BY <1>1, <1>3, <2>1, <2>4 DEF Agree, Away, UpToDate
      <3>2. Going(t, g)
        BY <2>4 DEF Going
      <3>3. InStep(t, g)
        BY <3>1, <3>2 DEF InStep
      <3> QED  BY <1>2, <1>3, <1>5, <3>3 DEF Answered
    <2> QED  BY <1>3, <2>3, <2>4
  <1>6. CASE t.call.kind \in {"Concede", "Leave"}
    BY <1>2, <1>3, <1>6 DEF Answered
  <1>7. CASE t.call.kind = "Pause"
    <2>1. Agree(t, e, {}) /\ Away(t, e, {r.player}) /\ r.cmd = "Pause" /\ t.timer = NoTimer
      BY <1>7 DEF Asked
    <2>2. g = e /\ none
      BY <1>3, <2>1 DEF Updates
    <2>3. e.over \/ r.player \notin e.live
      BY <2>1, <2>2, AlwaysLegal DEF none
    <2>4. Away(t, e, {})
      BY <2>1, <2>3 DEF Away
    <2> QED  BY <1>1, <1>2, <1>3, <1>7, <2>1, <2>2, <2>4 DEF Answered
  <1> QED  BY <1>1, <1>4, <1>5, <1>6, <1>7 DEF Asked

\* A preview changes nothing.
LEMMA AnswerPreview ==
    ASSUME NEW t \in Table, NEW r \in Request, NEW e, Asked(t, e, r), r.kind = "Preview", e # None
    PROVE  /\ Answered(t, e, [Refusal EXCEPT !.ok = TRUE])
           /\ [Refusal EXCEPT !.ok = TRUE] \in Response
  <1> DEFINE a == [Refusal EXCEPT !.ok = TRUE]
  <1>1. a \in Response /\ a.batch = FALSE
    BY DEF Refusal, Response
  <1> HIDE DEF a
  <1>2. t.call.kind = "Preview" /\ Sound(e) /\ UpToDate(t, e) /\ Agree(t, e, {}) /\ Away(t, e, {})
        /\ Going(t, e)
    BY DEF Asked
  <1>3. InStep(t, e)
    BY <1>2 DEF InStep
  <1> QED  BY <1>1, <1>2, <1>3 DEF Answered, a

\* Sending an answer that fits the call keeps the invariant.
LEMMA AnswerInv ==
    ASSUME Inv, NEW c \in Conns, c = srv.relay, conn[c].reqs # <<>>,
           NEW f \in Engine \cup {None}, f # Orphan, NEW a \in Response,
           conn' = Answer(c, f, a), srv' = srv, Answered(srv, f, a),
           f # None \/ (srv.call.kind = "Start" /\ ~a.ok)
    PROVE  Inv'
  <1> DEFINE o == conn[c]
             A == IF o.client = "Up" THEN Append(o.resps, a) ELSE o.resps
             d == [o EXCEPT !.reqs = Tail(o.reqs), !.engine = f, !.resps = A]
  <1>1. o \in Conn /\ conn \in [Conns -> Conn] /\ o.client \in {"Up", "Down"} /\ Phase(srv, o)
    BY ConnFacts DEF Inv, Good
  <1>2. o.reqs = <<Head(o.reqs)>> /\ o.resps = <<>> /\ srv.call # NoCall
    BY <1>1, PhaseCases
  <1>3. Tail(o.reqs) = <<>> /\ (A = <<>> \/ A = <<a>>)
    <2>1. A = <<>> \/ A = <<a>>
      BY <1>2
    <2>2. \A x : Tail(<<x>>) = <<>>
      OBVIOUS
    <2> QED  BY <1>2, <2>1, <2>2
  <1>4. conn' = [conn EXCEPT ![c] = d]
    BY <1>1 DEF Answer, Conn
  <1> HIDE DEF A
  <1>5. d \in Conn /\ d.client = o.client /\ d.engine = f /\ d.reqs = <<>> /\ d.resps = A
        /\ d.alive = o.alive
    <2>1. Tail(o.reqs) \in Seq(Request) /\ A \in Seq(Response)
      <3>1. <<>> \in Seq(Request) /\ <<>> \in Seq(Response) /\ <<a>> \in Seq(Response)
        OBVIOUS
      <3> QED  BY <1>3, <3>1
    <2>2. d \in Conn
      BY <1>1, <2>1 DEF Conn
    <2> QED  BY <1>1, <1>3, <2>2 DEF Conn
  <1> HIDE DEF d, o
  <1>6. Phase(srv, d)
    <2>1. CASE A = <<>>
      BY <1>2, <1>5, <2>1 DEF Phase
    <2>2. CASE A = <<a>>
      <3>1. Head(d.resps) = a /\ d.resps = <<Head(d.resps)>> /\ d.resps # <<>>
        BY <1>5, <2>2
      <3> QED  BY <1>2, <1>5, <3>1 DEF Phase
    <2> QED  BY <1>3, <2>1, <2>2
  <1> QED  BY <1>1, <1>4, <1>5, <1>6, ConnStep

\* The marks for no engine and for an engine nobody sees are not engines.
LEMMA EngineIsNoMark == None # Orphan /\ None \notin Engine /\ Orphan \notin Engine
  BY SessionAssumption

\* EngineSession::process keeps the invariant.
LEMMA ProcessInv ==
    ASSUME Inv, NEW c \in Conns, Process(c) PROVE Inv'
  <1> DEFINE o == conn[c]
             r == Head(o.reqs)
             e == o.engine
  <1>1. o \in Conn /\ srv' = srv /\ o.reqs # <<>> /\ srv \in Table
    BY ConnFacts DEF Process, Inv, Good
  <1>2. CASE c # srv.relay
    <2>1. Unused(o) /\ o.reqs = <<EndRequest>>
      BY <1>1, <1>2, ConnFacts DEF Unused
    <2>2. r.kind = "End"
      BY <2>1, ConstantFacts
    <2>3. conn' = Release(c)
      BY <2>2 DEF Process
    <2> QED  BY <1>1, <2>3, ReleaseInv
  <1>3. CASE c = srv.relay
    <2>1. Phase(srv, o) /\ e # Orphan
      BY <1>3, ConnFacts
    <2>2. o.reqs = <<r>> /\ Asked(srv, e, r)
      BY <1>1, <2>1, PhaseCases
    <2>3. r \in Request /\ e \in Engine \cup {None}
      BY <1>1, <2>1, <2>2 DEF Conn
    <2>4. /\ r.kind \in {"Start", "Command", "Preview"}
          /\ r.kind = "Start" => e = None /\ srv.call.kind = "Start"
          /\ r.kind # "Start" => e # None
      BY <2>2 DEF Asked
    <2> HIDE DEF r, e
    <2>5. ASSUME r.kind = "Start" PROVE Inv'
      <3>1. CASE \E f \in NewEngines(r.set) : conn' = Answer(c, f, Batch(f, None))
        <4>1. PICK f \in NewEngines(r.set) : conn' = Answer(c, f, Batch(f, None))
          BY <3>1
        <4>2. f \in Engine /\ Batch(f, None) \in Response /\ Answered(srv, f, Batch(f, None))
          BY <1>1, <2>2, <2>3, <2>4, <2>5, AnswerStart
        <4>3. f # None /\ f # Orphan
          BY <4>2, EngineIsNoMark
        <4> QED  BY <1>1, <1>3, <4>1, <4>2, <4>3, AnswerInv
      <3>2. CASE conn' = Answer(c, None, Refusal)
        <4>1. Fresh(srv) /\ srv.call.kind = "Start"
          BY <2>2, <2>4, <2>5 DEF Asked
        <4>2. Answered(srv, None, Refusal)
          BY <4>1, ConstantFacts DEF Answered
        <4> QED  BY <1>1, <1>3, <3>2, <4>1, <4>2, AnswerInv, ConstantFacts, EngineIsNoMark
      <3> QED  BY <2>5, <3>1, <3>2 DEF Process, r
    <2>6. ASSUME r.kind = "Command" PROVE Inv'
      <3> DEFINE after == Accepted(e, r.player, r.cmd, r.index, r.set)
                 kept == Refused(e, r.player, r.cmd, r.index, r.set)
      <3>1. e \in Engine /\ e # None
        BY <2>3, <2>4, <2>6
      <3>2. \/ \E f \in after : conn' = Answer(c, f, Batch(f, Continuation(f, r.set)))
            \/ \E f \in kept : conn' = Answer(c, f, Refusal)
        BY <2>6, <3>1 DEF Process, r, e
      <3>3. ASSUME NEW f \in kept, conn' = Answer(c, f, Refusal) PROVE Inv'
        <4>1. Answered(srv, f, Refusal) /\ f \in Engine
          BY <1>1, <2>2, <2>3, <2>6, <3>1, <3>3, AnswerRefused
        <4>2. f # None /\ f # Orphan
          BY <4>1, EngineIsNoMark
        <4> HIDE DEF kept
        <4> QED  BY <1>1, <1>3, <3>3, <4>1, <4>2, AnswerInv, ConstantFacts
      <3>4. ASSUME NEW f \in after, conn' = Answer(c, f, Batch(f, Continuation(f, r.set))) PROVE Inv'
        <4> DEFINE a == Batch(f, Continuation(f, r.set))
        <4>2. f \in Engine /\ a \in Response /\ Answered(srv, f, a)
          BY <1>1, <2>2, <2>3, <2>6, <3>1, AnswerAccepted
        <4>3. f # None /\ f # Orphan
          BY <4>2, EngineIsNoMark
        <4> HIDE DEF a, after
        <4>4. conn' = Answer(c, f, a)
          BY <3>4 DEF a
        <4> QED  BY <1>1, <1>3, <4>2, <4>3, <4>4, AnswerInv
      <3> QED  BY <3>2, <3>3, <3>4
    <2>7. ASSUME r.kind = "Preview" PROVE Inv'
      <3> DEFINE a == [Refusal EXCEPT !.ok = TRUE]
      <3>1. e # None
        BY <2>4, <2>7
      <3>2. conn' = Answer(c, e, a)
        BY <2>7, <3>1 DEF Process, r, e
      <3>3. Answered(srv, e, a) /\ a \in Response
        BY <1>1, <2>2, <2>3, <2>7, <3>1, AnswerPreview
      <3> HIDE DEF a
      <3> QED  BY <1>1, <1>3, <2>1, <2>3, <3>1, <3>2, <3>3, AnswerInv DEF e
    <2> QED  BY <2>4, <2>5, <2>6, <2>7
  <1> QED  BY <1>2, <1>3

-----------------------------------------------------------------------------
(***************************************************************************)
(* The table.                                                              *)
(***************************************************************************)

\* A clear line stays clear whatever else is written down on the table.
LEMMA StaysClear ==
    ASSUME NEW w, Clear(w), NEW v \in Worlds, v.conn = w.conn,
           v.srv.relay = w.srv.relay, v.srv.call = w.srv.call, v.srv.lost = w.srv.lost,
           v.srv.notices = w.srv.notices
    PROVE  Clear(v)
  BY DEF Clear, Relayed, Lined

\* A table in step with its engine is good.
LEMMA ClearIsGood ==
    ASSUME NEW w, Clear(w),
           LET c == w.conn[w.srv.relay]
           IN  (c.alive => c.engine # None) /\ (c.engine # None => InStep(w.srv, c.engine))
    PROVE  Good(w.srv, w.conn)
  <1>1. Phase(w.srv, w.conn[w.srv.relay])
    BY DEF Clear, Phase
  <1> QED  BY <1>1 DEF Clear, Good, Worlds, Lined

\* What the invariant says between two calls.
LEMMA BetweenCalls ==
    ASSUME Inv, Idle
    PROVE  /\ World \in Worlds /\ World.srv = srv /\ World.conn = conn
           /\ srv \in Table /\ conn \in [Conns -> Conn] /\ srv.call = NoCall
           /\ Lined(World) /\ Relayed(srv)
           /\ srv.relay = 0 => Alone(World)
           /\ srv.relay # 0 =>
                 /\ Clear(World) /\ srv.relay \in Conns
                 /\ LET c == conn[srv.relay]
                    IN  /\ c.engine \in Engine \cup {None}
                        /\ c.alive => c.engine # None
                        /\ c.engine # None => InStep(srv, c.engine)
  <1>1. /\ World \in Worlds /\ World.srv = srv /\ World.conn = conn
        /\ srv \in Table /\ conn \in [Conns -> Conn] /\ srv.call = NoCall
        /\ Relayed(srv)
    BY DEF Inv, Good, Idle, World, Worlds
  <1> DEFINE W == World
  <1>2. /\ W \in Worlds /\ W.srv = srv /\ W.conn = conn
    BY <1>1
  <1> HIDE DEF W
  <1>3. Lined(W)
    BY <1>2 DEF Lined, Inv, Good
  <1>4. ASSUME srv.relay = 0 PROVE Alone(W)
    BY <1>1, <1>2, <1>3, <1>4, ConstantFacts DEF Alone, Lined
  <1>5. ASSUME srv.relay # 0
        PROVE  /\ Clear(W) /\ srv.relay \in Conns
               /\ conn[srv.relay].engine \in Engine \cup {None}
               /\ conn[srv.relay].alive => conn[srv.relay].engine # None
               /\ conn[srv.relay].engine # None => InStep(srv, conn[srv.relay].engine)
    <2>1. srv.relay \in Conns
      BY <1>1, <1>5, ConstantFacts DEF Table
    <2> DEFINE c == conn[srv.relay]
    <2>2. c \in Conn /\ c.client \in {"Up", "Down"} /\ c.engine # Orphan /\ Phase(srv, c)
      BY <2>1, ConnFacts
    <2>3. c = W.conn[W.srv.relay]
      BY <1>2
    <2> HIDE DEF c
    <2>4. c.reqs = <<>> /\ c.resps = <<>> /\ (c.alive => c.engine # None)
          /\ (c.engine # None => InStep(srv, c.engine))
      BY <1>1, <2>2 DEF Phase
    <2>5. Clear(W)
      BY <1>1, <1>2, <1>3, <1>5, <2>2, <2>3, <2>4 DEF Clear
    <2> QED  BY <2>1, <2>2, <2>4, <2>5 DEF c, Conn
  <1> QED  BY <1>1, <1>3, <1>4, <1>5 DEF W

\* A world that becomes the next state.
LEMMA BecomesInv ==
    ASSUME NEW w, Becomes(w), Good(w.srv, w.conn) PROVE Inv'
  BY DEF Becomes, Inv

\* A command as it is sent to the sidecar.
LEMMA CommandFacts ==
    ASSUME NEW w \in Worlds, NEW p \in Player, NEW cmd \in Commands, NEW index \in Nat
    PROVE  LET r == CommandOf(w, p, cmd, index)
           IN  /\ r \in Request /\ r.kind = "Command" /\ r.player = p /\ r.cmd = cmd
               /\ r.index = index
  <1>1. w.srv.skips \in SUBSET Player
    BY DEF Worlds, Table
  <1> QED  BY <1>1 DEF CommandOf, Request

\* The kind and the player of a call.
LEMMA CallOfFacts ==
    ASSUME NEW kind \in Kinds, NEW p \in Player
    PROVE  /\ CallOf(kind, p) \in Call /\ CallOf(kind, p).kind = kind
           /\ kind \in {"Concede", "Leave"} => CallOf(kind, p).player = p
  BY SessionAssumption DEF CallOf, Call, Kinds

\* A table whose game goes on without a player who is not in it any more.
LEMMA RemoveInStep ==
    ASSUME NEW w \in Worlds, NEW e \in Engine, InStep(w.srv, e), NEW p,
           p \notin e.live \/ ~w.srv.started
    PROVE  InStep(Remove(w, p).srv, e)
  <1> DEFINE s == w.srv
             t == Remove(w, p).srv
             L == (s.seated \ {p}) \ (s.conceded \ {p})
  <1>1. /\ t.seated = s.seated \ {p} /\ t.online = s.online \ {p}
        /\ t.absent = s.absent \ {p} /\ t.timer = s.timer /\ t.silenced = s.silenced
        /\ \/ t.started = s.started /\ t.conceded = s.conceded \ {p}
           \/ t.started = FALSE /\ ~(Cardinality(L) > 1)
    BY RemoveFacts
  <1>2. s \in Table
    BY DEF Worlds
  <1> HIDE DEF t, s
  <1>3. Sound(e) /\ Agree(s, e, {}) /\ Away(s, e, {}) /\ Going(s, e) /\ UpToDate(s, e)
    BY DEF InStep, s
  <1>4. Away(t, e, {}) /\ Going(t, e) /\ UpToDate(t, e)
    BY <1>1, <1>3 DEF Away, Going, UpToDate
  <1>5. Agree(t, e, {})
    <2>1. CASE ~s.started
      BY <1>1, <1>3, <2>1 DEF Agree
    <2>2. CASE s.started
      <3>1. p \notin e.live /\ e.live \subseteq L
        BY <1>3, <2>2 DEF Agree, s
      <3>2. CASE t.started = s.started /\ t.conceded = s.conceded \ {p}
        BY <1>1, <2>2, <3>1, <3>2 DEF Agree
      <3>3. CASE t.started = FALSE /\ ~(Cardinality(L) > 1)
        <4>1. IsFiniteSet(L)
          <5>1. L \in SUBSET Player
            BY <1>2 DEF Table
          <5> QED  BY <5>1, SessionAssumption, FS_Subset
        <4>2. Cardinality(e.live) <= Cardinality(L) /\ Cardinality(e.live) \in Nat
              /\ Cardinality(L) \in Nat
          BY <3>1, <4>1, FS_Subset, FS_CardinalityType
        <4>3. e.over
          BY <1>3, <3>3, <4>2 DEF Sound
        <4> QED  BY <3>3, <4>3 DEF Agree
      <3> QED  BY <1>1, <3>2, <3>3
    <2> QED  BY <2>1, <2>2
  <1> QED  BY <1>3, <1>4, <1>5 DEF InStep, t

\* Policies and reconnections keep the invariant.
LEMMA QuietStepsInv ==
    ASSUME Inv, NEW p \in Player, SetAutoPassPolicy(p) \/ Reconnect(p) PROVE Inv'
  <1>1. Idle /\ conn' = conn
    BY DEF SetAutoPassPolicy, Reconnect
  <1>2. srv \in Table /\ World \in Worlds
    BY <1>1, BetweenCalls
  <1>3. /\ srv' \in Table
        /\ srv'.started = srv.started /\ srv'.seated = srv.seated
        /\ srv.online \cup srv.absent \subseteq srv'.online \cup srv'.absent
        /\ srv'.conceded = srv.conceded /\ srv'.relay = srv.relay /\ srv'.lost = srv.lost
        /\ srv'.timer = srv.timer /\ srv'.call = srv.call /\ srv'.notices = srv.notices
        /\ srv'.silenced = srv.silenced
    <2>1. CASE SetAutoPassPolicy(p)
      <3>1. PICK S \in {srv.skips \cup {p}, srv.skips \ {p}} : srv' = [srv EXCEPT !.skips = S]
        BY <2>1 DEF SetAutoPassPolicy
      <3>2. S \in SUBSET Player
        BY <1>2 DEF Table
      <3>3. [srv EXCEPT !.skips = S] \in Table
        BY <1>2, <3>2 DEF Table
      <3> QED  BY <1>2, <3>1, <3>3 DEF Table
    <2>2. CASE Reconnect(p)
      <3> DEFINE O == srv.online \cup {p}
                 A == srv.absent \ {p}
      <3>1. O \in SUBSET Player /\ A \in SUBSET Player
            /\ srv.online \cup srv.absent \subseteq O \cup A
        BY <1>2 DEF Table
      <3>2. srv' = [srv EXCEPT !.online = O, !.absent = A]
        BY <1>2, <2>2 DEF Reconnect, Table
      <3> HIDE DEF O, A
      <3> QED  BY <1>2, <3>1, <3>2 DEF Table
    <2> QED  BY <2>1, <2>2
  <1> DEFINE t == srv'
             v == [World EXCEPT !.srv = t]
  <1>4. v \in Worlds /\ v.srv = t /\ v.conn = conn
    BY <1>1, <1>2, <1>3, BetweenCalls, WithTable
  <1> HIDE DEF v
  <1>5. CASE srv.relay = 0
    <2>1. Alone(World) /\ World.srv = srv /\ World.conn = conn
      BY <1>1, <1>5, BetweenCalls
    <2>2. Alone(v)
      BY <1>3, <1>4, <2>1, StaysAlone
    <2> QED  BY <1>1, <1>4, <2>2, AloneIsGood DEF Inv
  <1>6. CASE srv.relay # 0
    <2> DEFINE c == conn[srv.relay]
    <2>1. /\ Clear(World) /\ World.srv = srv /\ World.conn = conn
          /\ c.alive => c.engine # None
          /\ c.engine # None => InStep(srv, c.engine)
      BY <1>1, <1>6, BetweenCalls
    <2>2. Clear(v)
      BY <1>3, <1>4, <2>1, StaysClear
    <2>3. c = v.conn[v.srv.relay]
      BY <1>3, <1>4
    <2> HIDE DEF c, t
    <2>4. ASSUME c.engine # None PROVE InStep(t, c.engine)
      BY <1>3, <2>1, <2>4 DEF InStep, Agree, Away, Going, UpToDate, t
    <2>5. Good(v.srv, v.conn)
      BY <1>4, <2>1, <2>2, <2>3, <2>4, ClearIsGood
    <2> QED  BY <1>1, <1>4, <2>5 DEF Inv, t
  <1> QED  BY <1>5, <1>6

\* A player's command and a preview keep the invariant.
LEMMA CommandInv ==
    ASSUME Inv, NEW p \in Player, PlayerCommand(p) \/ PreviewPayment(p) PROVE Inv'
  <1>1. Idle /\ srv.relay # 0 /\ p \in srv.online
    BY DEF PlayerCommand, PreviewPayment
  <1> DEFINE c == conn[srv.relay]
  <1>2. /\ Clear(World) /\ World \in Worlds /\ World.srv = srv /\ World.conn = conn
        /\ srv \in Table
        /\ c.alive => c.engine # None
        /\ c.engine # None => InStep(srv, c.engine)
    BY <1>1, BetweenCalls
  <1>3. ASSUME NEW kind \in {"Command", "Preview"}, NEW r \in Request,
               r.kind = kind, kind = "Command" => r.player \in srv.online /\ r.player \in Player
                                                   /\ r.cmd \in Commands \ {"Continue"}
        PROVE  Good(Submit(World, kind, p, r).srv, Submit(World, kind, p, r).conn)
    <2> DEFINE k == CallOf(kind, p)
               t == [srv EXCEPT !.call = k]
    <2>1. kind \in Kinds
      BY DEF Kinds
    <2>2. k \in Call /\ k.kind = kind
      BY <2>1, CallOfFacts
    <2> HIDE DEF k
    <2>3. /\ t.call = k
          /\ t.started = srv.started /\ t.seated = srv.seated /\ t.online = srv.online
          /\ t.conceded = srv.conceded /\ t.timer = srv.timer
          /\ t.silenced = srv.silenced /\ t.absent = srv.absent
      BY <1>2, <2>2, CallFields
    <2> HIDE DEF t, c
    <2>4. ASSUME c.alive PROVE Asked(t, c.engine, r)
      <3>1. c.engine # None /\ InStep(srv, c.engine)
        BY <1>2, <2>4
      <3>2. InStep(t, c.engine)
        BY <2>3, <3>1 DEF InStep, Agree, Away, Going, UpToDate
      <3> QED  BY <1>3, <2>2, <2>3, <3>1, <3>2 DEF Asked, InStep
    <2> QED  BY <1>2, <2>1, <2>4, SubmitGood DEF t, k, c
  <1>4. CASE PlayerCommand(p)
    <2>1. PICK cmd \in {"Pass", "Play"} \cup Updates :
              Becomes(Submit(World, "Command", p, CommandOf(World, p, cmd, 0)))
      BY <1>4 DEF PlayerCommand
    <2> DEFINE r == CommandOf(World, p, cmd, 0)
    <2>2. cmd \in Commands /\ cmd # "Continue"
      BY DEF Commands, GameCommands, Updates
    <2>3. r \in Request /\ r.kind = "Command" /\ r.player = p /\ r.cmd = cmd
      BY <1>2, <2>2, CommandFacts
    <2> HIDE DEF r
    <2>4. Good(Submit(World, "Command", p, r).srv, Submit(World, "Command", p, r).conn)
      BY <1>1, <1>3, <2>2, <2>3
    <2> QED  BY <2>1, <2>4, BecomesInv DEF r
  <1>5. CASE PreviewPayment(p)
    <2> DEFINE r == [EndRequest EXCEPT !.kind = "Preview"]
    <2>1. r \in Request /\ r.kind = "Preview"
      BY DEF EndRequest, Request
    <2>2. Becomes(Submit(World, "Preview", p, r))
      BY <1>5 DEF PreviewPayment
    <2> HIDE DEF r
    <2>3. Good(Submit(World, "Preview", p, r).srv, Submit(World, "Preview", p, r).conn)
      BY <1>3, <2>1
    <2> QED  BY <2>2, <2>3, BecomesInv
  <1> QED  BY <1>4, <1>5

\* A world with another table.
LEMMA TableStep ==
    ASSUME Inv, Idle, NEW t \in Table, t.relay = srv.relay, t.call = srv.call, t.lost = srv.lost,
           t.notices = srv.notices, t.started = srv.started
    PROVE  LET w == [World EXCEPT !.srv = t]
           IN  /\ w \in Worlds /\ w.srv = t /\ w.conn = conn
               /\ srv.relay = 0 => Alone(w)
               /\ srv.relay # 0 => Clear(w)
  <1> DEFINE w == [World EXCEPT !.srv = t]
  <1>1. World \in Worlds /\ World.srv = srv /\ World.conn = conn
    BY BetweenCalls
  <1>2. w \in Worlds /\ w.srv = t /\ w.conn = conn
    BY <1>1, WithTable
  <1> HIDE DEF w
  <1>3. ASSUME srv.relay = 0 PROVE Alone(w)
    <2>1. Alone(World)
      BY <1>3, BetweenCalls
    <2> QED  BY <1>1, <1>2, <2>1, StaysAlone
  <1>4. ASSUME srv.relay # 0 PROVE Clear(w)
    <2>1. Clear(World)
      BY <1>4, BetweenCalls
    <2> QED  BY <1>1, <1>2, <2>1, StaysClear
  <1> QED  BY <1>2, <1>3, <1>4 DEF w

\* pauseAutomationForDisconnect, for a player the engine may have to pause.
LEMMA PauseGood ==
    ASSUME NEW w \in Worlds, NEW p \in Player,
           w.srv.relay = 0 => Alone(w),
           w.srv.relay # 0 => Clear(w),
           w.srv.relay # 0 /\ w.conn[w.srv.relay].alive =>
               LET e == w.conn[w.srv.relay].engine
               IN  e # None /\ Sound(e) /\ Agree(w.srv, e, {}) /\ Away(w.srv, e, {p})
    PROVE  Good(PauseForDisconnect(w, p).srv, PauseForDisconnect(w, p).conn)
  <1> DEFINE s == [w.srv EXCEPT !.timer = NoTimer]
             v == [w EXCEPT !.srv = s]
             n == w.srv.relay
             c == w.conn[n]
  <1>1. w.srv \in Table
    BY DEF Worlds
  <1>2. s \in Table /\ s.timer = NoTimer /\ s.relay = n /\ s.call = w.srv.call
        /\ s.lost = w.srv.lost /\ s.notices = w.srv.notices /\ s.started = w.srv.started
        /\ s.seated = w.srv.seated /\ s.conceded = w.srv.conceded /\ s.online = w.srv.online
        /\ s.absent = w.srv.absent
    BY <1>1, ConstantFacts DEF Table
  <1>3. PauseForDisconnect(w, p) = IF n = 0 THEN v
                                   ELSE Submit(v, "Pause", p, CommandOf(v, p, "Pause", 0))
    <2>1. [w EXCEPT !.srv.timer = NoTimer] = v
      BY DEF Worlds
    <2> QED  BY <2>1 DEF PauseForDisconnect
  <1> HIDE DEF s
  <1>4. v \in Worlds /\ v.srv = s /\ v.conn = w.conn
    BY <1>2, WithTable
  <1> HIDE DEF v
  <1>5. CASE n = 0
    <2>1. s.started => w.srv.started
      BY <1>2
    <2>2. Alone(v)
      BY <1>2, <1>4, <1>5, <2>1, StaysAlone
    <2> QED  BY <1>3, <1>5, <2>2, AloneIsGood
  <1>6. CASE n # 0
    <2>1. Clear(v)
      BY <1>2, <1>4, <1>6, StaysClear
    <2> DEFINE r == CommandOf(v, p, "Pause", 0)
               k == CallOf("Pause", p)
               t == [s EXCEPT !.call = k]
    <2>2. r \in Request /\ r.kind = "Command" /\ r.player = p /\ r.cmd = "Pause"
      BY <1>4, CommandFacts DEF Commands, Updates
    <2>3. "Pause" \in Kinds /\ k \in Call /\ k.kind = "Pause"
      BY CallOfFacts DEF Kinds
    <2> HIDE DEF k, r
    <2>4. /\ t.call = k
          /\ t.started = s.started /\ t.seated = s.seated /\ t.online = s.online
          /\ t.conceded = s.conceded /\ t.timer = s.timer /\ t.absent = s.absent
      BY <1>2, <2>3, CallFields
    <2> HIDE DEF t, c
    <2>5. c = v.conn[v.srv.relay]
      BY <1>2, <1>4 DEF c
    <2>6. ASSUME c.alive PROVE Asked(t, c.engine, r)
      <3>1. /\ c.engine # None /\ Sound(c.engine) /\ Agree(w.srv, c.engine, {})
            /\ Away(w.srv, c.engine, {p})
        BY <1>6, <2>6 DEF c
      <3>2. Agree(t, c.engine, {}) /\ Away(t, c.engine, {p}) /\ UpToDate(t, c.engine)
        BY <1>2, <2>4, <3>1 DEF Agree, Away, UpToDate
      <3>3. "Pause" \in Commands
        BY DEF Commands, Updates
      <3> QED  BY <1>2, <2>2, <2>3, <2>4, <3>1, <3>2, <3>3 DEF Asked
    <2>7. v.conn[v.srv.relay].alive
              => Asked([v.srv EXCEPT !.call = CallOf("Pause", p)], v.conn[v.srv.relay].engine, r)
      BY <1>4, <2>5, <2>6 DEF t, k
    <2>8. Good(Submit(v, "Pause", p, r).srv, Submit(v, "Pause", p, r).conn)
      BY <2>1, <2>2, <2>3, <2>7, SubmitGood
    <2> QED  BY <1>3, <1>6, <2>8 DEF r
  <1> QED  BY <1>5, <1>6

\* A lost connection of a player keeps the invariant.
LEMMA DisconnectInv ==
    ASSUME Inv, NEW p \in Player, Disconnect(p) PROVE Inv'
  <1> DEFINE O == srv.online \ {p}
             t == [srv EXCEPT !.online = O]
             w == [World EXCEPT !.srv = t]
  <1>1. Idle /\ srv \in Table /\ O \in SUBSET Player
    BY BetweenCalls DEF Disconnect, Table
  <1>2. Becomes(PauseForDisconnect(w, p))
    <2>1. [World EXCEPT !.srv.online = @ \ {p}] = w
      BY <1>1 DEF World, Table
    <2> QED  BY <2>1 DEF Disconnect
  <1> HIDE DEF O
  <1>3. t \in Table /\ t.relay = srv.relay /\ t.call = srv.call /\ t.lost = srv.lost
        /\ t.notices = srv.notices /\ t.started = srv.started /\ t.seated = srv.seated
        /\ t.conceded = srv.conceded /\ t.absent = srv.absent /\ t.online = O
    BY <1>1 DEF Table
  <1> HIDE DEF t
  <1>4. /\ w \in Worlds /\ w.srv = t /\ w.conn = conn
        /\ srv.relay = 0 => Alone(w)
        /\ srv.relay # 0 => Clear(w)
    BY <1>1, <1>3, TableStep
  <1> HIDE DEF w
  <1> DEFINE e == w.conn[w.srv.relay].engine
  <1>5. ASSUME w.srv.relay # 0, w.conn[w.srv.relay].alive
        PROVE  e # None /\ Sound(e) /\ Agree(w.srv, e, {}) /\ Away(w.srv, e, {p})
    <2>1. e # None /\ InStep(srv, e)
      BY <1>1, <1>3, <1>4, <1>5, BetweenCalls
    <2> HIDE DEF e
    <2> QED  BY <1>3, <1>4, <2>1 DEF InStep, Agree, Away, O
  <1>6. Good(PauseForDisconnect(w, p).srv, PauseForDisconnect(w, p).conn)
    BY <1>3, <1>4, <1>5, PauseGood
  <1> QED  BY <1>2, <1>6, BecomesInv

\* The timer keeps the invariant: nobody the engine would go on for is missed.
LEMMA TimerInv ==
    ASSUME Inv, TimerFires PROVE Inv'
  <1> DEFINE p == srv.timer.player
             i == srv.timer.index
             t == [srv EXCEPT !.timer = NoTimer]
             w == [World EXCEPT !.srv = t]
             c == conn[srv.relay]
  <1>1. Idle /\ srv \in Table /\ srv.timer # NoTimer /\ i \in Nat
    BY BetweenCalls DEF TimerFires, Table, Timer
  <1>2. Becomes(ContinueFor(w, p, i))
    <2>1. [World EXCEPT !.srv.timer = NoTimer] = w
      BY DEF World
    <2> QED  BY <2>1 DEF TimerFires
  <1>3. t \in Table /\ t.relay = srv.relay /\ t.call = srv.call /\ t.lost = srv.lost
        /\ t.notices = srv.notices /\ t.started = srv.started /\ t.seated = srv.seated
        /\ t.conceded = srv.conceded /\ t.absent = srv.absent /\ t.online = srv.online
        /\ t.silenced = srv.silenced /\ t.timer = NoTimer
    BY <1>1, ConstantFacts DEF Table
  <1> HIDE DEF t
  <1>4. /\ w \in Worlds /\ w.srv = t /\ w.conn = conn
        /\ srv.relay = 0 => Alone(w)
        /\ srv.relay # 0 => Clear(w)
    BY <1>1, <1>3, TableStep
  <1> HIDE DEF w
  <1>5. ASSUME srv.relay # 0
        PROVE  /\ c.alive => c.engine # None
               /\ c.engine # None => InStep(srv, c.engine)
    BY <1>1, <1>5, BetweenCalls
  <1>6. ASSUME srv.relay # 0, c.engine # None
        PROVE  /\ Sound(c.engine) /\ Agree(t, c.engine, {}) /\ Away(t, c.engine, {})
               /\ UpToDate(t, c.engine) /\ MissesNobody(t, c.engine, p, i)
    <2>1. InStep(srv, c.engine)
      BY <1>5, <1>6
    <2> DEFINE e == c.engine
    <2> HIDE DEF c
    <2>2. Sound(e) /\ Agree(t, e, {}) /\ Away(t, e, {}) /\ UpToDate(t, e)
      BY <1>3, <2>1 DEF InStep, Agree, Away, UpToDate
    <2>3. MissesNobody(t, e, p, i)
      <3>1. SUFFICES ASSUME NEW q \in e.live, Acts(e, q, {}), ~t.silenced, ~e.stray
                     PROVE  p = q /\ i = e.index
        BY DEF MissesNobody
      <3>2. srv.timer = [player |-> q, index |-> e.index]
        BY <1>3, <2>1, <3>1 DEF InStep, Going
      <3> QED  BY <3>2
    <2> QED  BY <2>2, <2>3
  <1>7. CASE srv.relay = 0
    <2>1. ContinueFor(w, p, i) = w
      BY <1>3, <1>4, <1>7 DEF ContinueFor
    <2>2. Good(w.srv, w.conn)
      BY <1>4, <1>7, AloneIsGood
    <2> QED  BY <1>2, <2>1, <2>2, BecomesInv
  <1>8. CASE srv.relay # 0 /\ p \notin srv.seated
    <2>1. ContinueFor(w, p, i) = w
      BY <1>3, <1>4, <1>8 DEF ContinueFor
    <2>2. ASSUME c.engine # None PROVE InStep(t, c.engine)
      <3> DEFINE e == c.engine
      <3>1. /\ Sound(e) /\ Agree(t, e, {}) /\ Away(t, e, {})
            /\ UpToDate(t, e) /\ MissesNobody(t, e, p, i)
        BY <1>6, <1>8, <2>2
      <3> HIDE DEF e
      <3>2. Going(t, e)
        <4>1. SUFFICES ASSUME NEW q \in e.live, Acts(e, q, {}), ~t.silenced, ~e.stray PROVE FALSE
          BY DEF Going
        <4>2. p = q
          BY <3>1, <4>1 DEF MissesNobody
        <4>3. ~e.over
          BY <4>1 DEF Acts
        <4>4. q \in srv.seated
          BY <1>3, <3>1, <4>1, <4>3 DEF Agree
        <4> QED  BY <1>8, <4>2, <4>4
      <3>3. InStep(t, e)
        BY <3>1, <3>2 DEF InStep
      <3> QED  BY <3>3 DEF e
    <2>3. c = w.conn[w.srv.relay]
      BY <1>3, <1>4
    <2> HIDE DEF c
    <2>4. Good(w.srv, w.conn)
      BY <1>4, <1>5, <1>8, <2>2, <2>3, ClearIsGood
    <2> QED  BY <1>2, <2>1, <2>4, BecomesInv
  <1>9. CASE srv.relay # 0 /\ p \in srv.seated /\ p \notin srv.online
    <2>1. ContinueFor(w, p, i) = PauseForDisconnect(w, p)
      BY <1>3, <1>4, <1>9 DEF ContinueFor
    <2>2. p \in Player
      BY <1>1, <1>9 DEF Table
    <2> DEFINE e == w.conn[w.srv.relay].engine
    <2>3. ASSUME w.srv.relay # 0, w.conn[w.srv.relay].alive
          PROVE  e # None /\ Sound(e) /\ Agree(w.srv, e, {}) /\ Away(w.srv, e, {p})
      <3>1. e = c.engine /\ e # None
        BY <1>3, <1>4, <1>5, <2>3
      <3>2. Sound(e) /\ Agree(t, e, {}) /\ Away(t, e, {})
        BY <1>6, <1>9, <3>1
      <3> HIDE DEF e
      <3>3. Away(t, e, {p})
        BY <3>2 DEF Away
      <3> QED  BY <1>4, <3>1, <3>2, <3>3
    <2>4. Good(PauseForDisconnect(w, p).srv, PauseForDisconnect(w, p).conn)
      BY <1>3, <1>4, <2>2, <2>3, PauseGood
    <2> QED  BY <1>2, <2>1, <2>4, BecomesInv
  <1>10. CASE srv.relay # 0 /\ p \in srv.seated /\ p \in srv.online
    <2> DEFINE r == CommandOf(w, p, "Continue", i)
               k == CallOf("Command", p)
               u == [t EXCEPT !.call = k]
    <2>1. ContinueFor(w, p, i) = Submit(w, "Command", p, r)
      BY <1>3, <1>4, <1>10 DEF ContinueFor
    <2>2. p \in Player /\ "Continue" \in Commands /\ "Command" \in Kinds
      BY <1>1, <1>10 DEF Table, Commands, Kinds
    <2>3. r \in Request /\ r.kind = "Command" /\ r.player = p /\ r.cmd = "Continue" /\ r.index = i
      BY <1>1, <1>4, <2>2, CommandFacts
    <2>4. k \in Call /\ k.kind = "Command"
      BY <2>2, CallOfFacts
    <2> HIDE DEF k, r
    <2>5. /\ u.call = k
          /\ u.started = t.started /\ u.seated = t.seated /\ u.online = t.online
          /\ u.conceded = t.conceded /\ u.timer = t.timer /\ u.absent = t.absent
          /\ u.silenced = t.silenced
      BY <1>3, <2>4, CallFields
    <2> HIDE DEF u
    <2>6. ASSUME c.alive PROVE Asked(u, c.engine, r)
      <3> DEFINE e == c.engine
      <3>1. /\ e # None /\ Sound(e) /\ Agree(t, e, {}) /\ Away(t, e, {})
            /\ UpToDate(t, e) /\ MissesNobody(t, e, p, i)
        BY <1>5, <1>6, <1>10, <2>6
      <3> HIDE DEF e, p, i
      <3>2. /\ Agree(u, e, {}) /\ Away(u, e, {}) /\ UpToDate(u, e) /\ MissesNobody(u, e, p, i)
        BY <2>5, <3>1 DEF Agree, Away, UpToDate, MissesNobody
      <3>3. p \in u.online
        BY <1>3, <1>10, <2>5
      <3>4. Asked(u, e, r)
        BY <2>2, <2>3, <2>4, <2>5, <3>1, <3>2, <3>3 DEF Asked
      <3> QED  BY <3>4 DEF e
    <2>7. w.conn[w.srv.relay].alive
              => Asked([w.srv EXCEPT !.call = CallOf("Command", p)], w.conn[w.srv.relay].engine, r)
      BY <1>3, <1>4, <2>6 DEF u, k
    <2>8. Good(Submit(w, "Command", p, r).srv, Submit(w, "Command", p, r).conn)
      BY <1>4, <1>10, <2>2, <2>3, <2>7, SubmitGood
    <2> QED  BY <1>2, <2>1, <2>8, BecomesInv
  <1> QED  BY <1>7, <1>8, <1>9, <1>10

\* A departure is submitted to an engine that may still have the player.
LEMMA DepartureGood ==
    ASSUME Inv, Idle, srv.relay # 0, srv.started, NEW p \in Player, NEW kind \in {"Concede", "Leave"}
    PROVE  LET w == [World EXCEPT !.srv.conceded = @ \cup {p}]
               z == Submit(w, kind, p, CommandOf(w, p, "Concede", 0))
           IN  Good(z.srv, z.conn)
  <1> DEFINE K == srv.conceded \cup {p}
             t == [srv EXCEPT !.conceded = K]
             w == [World EXCEPT !.srv = t]
             r == CommandOf(w, p, "Concede", 0)
             k == CallOf(kind, p)
             u == [t EXCEPT !.call = k]
             c == conn[srv.relay]
  <1>1. srv \in Table /\ K \in SUBSET Player
    BY BetweenCalls DEF Table
  <1>2. [World EXCEPT !.srv.conceded = @ \cup {p}] = w
    BY <1>1 DEF World, Table
  <1> HIDE DEF K
  <1>3. t \in Table /\ t.relay = srv.relay /\ t.call = srv.call /\ t.lost = srv.lost
        /\ t.notices = srv.notices /\ t.started = srv.started /\ t.seated = srv.seated
        /\ t.conceded = K /\ t.absent = srv.absent /\ t.online = srv.online
        /\ t.timer = srv.timer
    BY <1>1 DEF Table
  <1> HIDE DEF t
  <1>4. w \in Worlds /\ w.srv = t /\ w.conn = conn /\ Clear(w)
    BY <1>3, TableStep
  <1> HIDE DEF w
  <1>5. "Concede" \in Commands /\ kind \in Kinds
    BY DEF Commands, GameCommands, Kinds
  <1>6. r \in Request /\ r.kind = "Command" /\ r.player = p /\ r.cmd = "Concede"
    BY <1>4, <1>5, CommandFacts
  <1>7. k \in Call /\ k.kind = kind /\ k.player = p
    BY <1>5, CallOfFacts
  <1> HIDE DEF k, r
  <1>8. /\ u.call = k
        /\ u.started = t.started /\ u.seated = t.seated /\ u.online = t.online
        /\ u.conceded = t.conceded /\ u.timer = t.timer /\ u.absent = t.absent
    BY <1>3, <1>7, CallFields
  <1> HIDE DEF u
  <1>9. ASSUME c.alive PROVE Asked(u, c.engine, r)
    <2> DEFINE e == c.engine
    <2>1. e # None /\ InStep(srv, e)
      BY <1>9, BetweenCalls
    <2> HIDE DEF e
    <2>2. Sound(e) /\ Agree(u, e, {p}) /\ Away(u, e, {}) /\ UpToDate(u, e)
      BY <1>3, <1>8, <2>1 DEF InStep, Agree, Away, UpToDate, K
    <2>3. u.started
      BY <1>3, <1>8
    <2>4. Asked(u, e, r)
      BY <1>5, <1>6, <1>7, <1>8, <2>1, <2>2, <2>3 DEF Asked
    <2> QED  BY <2>4 DEF e
  <1>10. w.conn[w.srv.relay].alive
             => Asked([w.srv EXCEPT !.call = CallOf(kind, p)], w.conn[w.srv.relay].engine, r)
    BY <1>3, <1>4, <1>9 DEF u, k
  <1>11. Good(Submit(w, kind, p, r).srv, Submit(w, kind, p, r).conn)
    BY <1>4, <1>5, <1>6, <1>10, SubmitGood
  <1> QED  BY <1>2, <1>11 DEF r

\* Conceding and leaving keep the invariant.
LEMMA DepartureInv ==
    ASSUME Inv, NEW p \in Player, Concede(p) \/ Leave(p) PROVE Inv'
  <1>1. Idle
    BY DEF Concede, Leave
  <1>2. CASE Concede(p)
    <2> DEFINE w == [World EXCEPT !.srv.conceded = @ \cup {p}]
               z == Submit(w, "Concede", p, CommandOf(w, p, "Concede", 0))
    <2>1. srv.relay # 0 /\ srv.started /\ Becomes(z)
      BY <1>2 DEF Concede
    <2>2. Good(z.srv, z.conn)
      BY <1>1, <2>1, DepartureGood
    <2> HIDE DEF z
    <2> QED  BY <2>1, <2>2, BecomesInv
  <1>3. CASE Leave(p)
    <2>1. /\ World \in Worlds /\ World.srv = srv /\ World.conn = conn
          /\ Becomes(LeaveTable(World, p))
      BY <1>1, <1>3, BetweenCalls DEF Leave
    <2>2. CASE ~srv.started \/ p \in srv.conceded \/ srv.relay = 0
      <3> DEFINE z == Remove(World, p)
      <3>1. LeaveTable(World, p) = z
        BY <2>1, <2>2 DEF LeaveTable
      <3>2. CASE srv.relay = 0
        <4>1. Alone(z)
          BY <1>1, <3>2, BetweenCalls, RemoveAlone
        <4> QED  BY <2>1, <3>1, <4>1, AloneIsGood, BecomesInv
      <3>3. CASE srv.relay # 0
        <4> DEFINE c == conn[srv.relay]
        <4>1. /\ Clear(World) /\ c.engine \in Engine \cup {None}
              /\ c.alive => c.engine # None
              /\ c.engine # None => InStep(srv, c.engine)
          BY <1>1, <3>3, BetweenCalls
        <4>2. /\ z \in Worlds /\ z.conn = conn /\ z.srv.relay = srv.relay
              /\ z.srv.call = srv.call /\ z.srv.lost = srv.lost
              /\ z.srv.notices = srv.notices
          BY <2>1, RemoveFacts
        <4>3. c = z.conn[z.srv.relay]
          BY <4>2
        <4> HIDE DEF c
        <4>4. ASSUME c.engine # None PROVE InStep(z.srv, c.engine)
          <5>1. c.engine \in Engine /\ InStep(srv, c.engine)
            BY <4>1, <4>4
          <5>2. p \notin c.engine.live \/ ~srv.started
            BY <2>2, <3>3, <5>1 DEF InStep, Agree
          <5> QED  BY <2>1, <5>1, <5>2, RemoveInStep
        <4> HIDE DEF z
        <4>5. Clear(z)
          BY <2>1, <4>1, <4>2, StaysClear
        <4>6. Good(z.srv, z.conn)
          BY <4>1, <4>3, <4>4, <4>5, ClearIsGood
        <4> QED  BY <2>1, <3>1, <4>6, BecomesInv
      <3> QED  BY <3>2, <3>3
    <2>3. CASE ~(~srv.started \/ p \in srv.conceded \/ srv.relay = 0)
      <3> DEFINE w == [World EXCEPT !.srv.conceded = @ \cup {p}]
                 z == Submit(w, "Leave", p, CommandOf(w, p, "Concede", 0))
      <3>1. LeaveTable(World, p) = z
        BY <2>1, <2>3 DEF LeaveTable
      <3>2. Good(z.srv, z.conn)
        BY <1>1, <2>3, DepartureGood
      <3> HIDE DEF z
      <3> QED  BY <2>1, <3>1, <3>2, BecomesInv
    <2> QED  BY <2>2, <2>3
  <1> QED  BY <1>2, <1>3

\* Closing a table keeps the invariant.
LEMMA CloseInv ==
    ASSUME Inv, CloseGame PROVE Inv'
  <1> DEFINE d == DropRelay(World)
             t == [NewTable EXCEPT !.closed = TRUE, !.seated = {}, !.online = {}]
  <1>1. World \in Worlds /\ Lined(World)
    BY BetweenCalls DEF CloseGame
  <1>2. d \in Worlds /\ \A c \in Conns : Unused(d.conn[c])
    BY <1>1, DropRelayFacts
  <1>3. t \in Table /\ t.relay = 0 /\ t.call = NoCall /\ t.lost = FALSE /\ t.started = FALSE
        /\ t.notices = 0
    BY ConstantFacts DEF NewTable, Table
  <1>4. Becomes([d EXCEPT !.srv = t])
    BY DEF CloseGame
  <1> HIDE DEF d, t
  <1>5. [d EXCEPT !.srv = t] \in Worlds /\ [d EXCEPT !.srv = t].srv = t
        /\ [d EXCEPT !.srv = t].conn = d.conn
    BY <1>2, <1>3, WithTable
  <1>6. Relayed(t)
    BY <1>3 DEF Relayed
  <1>7. Alone([d EXCEPT !.srv = t])
    BY <1>2, <1>3, <1>5, <1>6 DEF Alone
  <1> QED  BY <1>4, <1>7, AloneIsGood, BecomesInv

\* A new game starts afresh, without a relay.
LEMMA NewGameFacts ==
    ASSUME Inv, Idle
    PROVE  LET g == NewGame(World)
           IN  /\ g \in Worlds /\ \A c \in Conns : Unused(g.conn[c])
               /\ g.srv.relay = 0 /\ g.srv.call = NoCall /\ g.srv.seated = srv.seated
               /\ g.srv.started = TRUE /\ g.srv.conceded = {} /\ g.srv.lost = FALSE
               /\ g.srv.timer = NoTimer /\ g.srv.notices = 0
               /\ g.srv.seated \subseteq g.srv.online \cup g.srv.absent
  <1> DEFINE d == DropRelay(World)
             A == srv.seated \ srv.online
             t == [d.srv EXCEPT !.started = TRUE, !.conceded = {}, !.skips = {},
                                !.lost = FALSE, !.timer = NoTimer, !.notices = 0,
                                !.silenced = FALSE, !.absent = A]
             g == [d EXCEPT !.srv = t]
  <1>1. /\ World \in Worlds /\ World.srv = srv /\ Lined(World) /\ srv \in Table
        /\ srv.call = NoCall
    BY BetweenCalls
  <1>2. d \in Worlds /\ d.srv = [srv EXCEPT !.relay = 0] /\ \A c \in Conns : Unused(d.conn[c])
    BY <1>1, DropRelayFacts
  <1>3. NewGame(World) = g
    <2> HIDE DEF d
    <2>1. d.srv \in Table
      BY <1>2 DEF Worlds
    <2> QED  BY <1>1, <1>2, <2>1 DEF NewGame, Worlds, d
  <1> HIDE DEF d
  <1>4. A \in SUBSET Player
    BY <1>1 DEF Table
  <1>5. d.srv \in Table /\ d.srv.relay = 0 /\ d.srv.call = NoCall /\ d.srv.seated = srv.seated
        /\ d.srv.online = srv.online
    <2>1. d.srv \in Table
      BY <1>2 DEF Worlds
    <2> QED  BY <1>1, <1>2, <2>1 DEF Table
  <1> HIDE DEF A
  <1>6. t \in Table
    BY <1>4, <1>5, ConstantFacts, ZenonT(60) DEF Table
  <1>7. /\ t.relay = 0 /\ t.call = NoCall /\ t.seated = srv.seated /\ t.online = srv.online
        /\ t.started = TRUE /\ t.conceded = {} /\ t.lost = FALSE
        /\ t.timer = NoTimer /\ t.notices = 0 /\ t.absent = A
    BY <1>5 DEF Table
  <1> HIDE DEF t
  <1>8. g \in Worlds /\ g.srv = t /\ g.conn = d.conn
    BY <1>2, <1>6, WithTable
  <1> HIDE DEF g
  <1>9. g.srv.seated \subseteq g.srv.online \cup g.srv.absent
    BY <1>7, <1>8 DEF A
  <1> QED  BY <1>2, <1>3, <1>7, <1>8, <1>9

\* Starting a game keeps the invariant, whether or not the sidecar can be reached.
LEMMA StartInv ==
    ASSUME Inv, StartGame PROVE Inv'
  <1> DEFINE g == NewGame(World)
             k == [kind |-> "Start", player |-> None, left |-> Plan]
             r == [kind |-> "Start", player |-> None, cmd |-> "None", index |-> 0,
                   set |-> srv.seated]
  <1>1. Idle /\ Cardinality(srv.seated) > 1 /\ srv \in Table
    BY BetweenCalls DEF StartGame
  <1>2. /\ g \in Worlds /\ \A c \in Conns : Unused(g.conn[c])
        /\ g.srv.relay = 0 /\ g.srv.call = NoCall /\ g.srv.seated = srv.seated
        /\ g.srv.started = TRUE /\ g.srv.conceded = {} /\ g.srv.lost = FALSE
        /\ g.srv.timer = NoTimer /\ g.srv.notices = 0
        /\ g.srv.seated \subseteq g.srv.online \cup g.srv.absent
    BY <1>1, NewGameFacts
  <1>3. k \in Call /\ k.kind = "Start"
    BY SessionAssumption DEF Call, Kinds
  <1>4. r \in Request /\ r.kind = "Start" /\ r.set = srv.seated
    BY <1>1 DEF Request, Table
  <1>5. PICK c \in Conns :
            LET w == [g EXCEPT !.srv.relay = c, !.conn[c] = OpenConn]
            IN  \/ Becomes(Calling(w, k, r, w))
                \/ Becomes([Unstart(g) EXCEPT !.conn[c].client = "Gone"])
    BY DEF StartGame
  <1> HIDE DEF g, k, r
  <1>6. g.srv \in Table /\ g.conn \in [Conns -> Conn]
    BY <1>2 DEF Worlds
  <1> DEFINE w == [g EXCEPT !.srv.relay = c, !.conn[c] = OpenConn]
  <1>7. CASE Becomes(Calling(w, k, r, w))
    <2> DEFINE t == [g.srv EXCEPT !.relay = c]
               C == [g.conn EXCEPT ![c] = OpenConn]
               u == [t EXCEPT !.call = k]
    <2>1. w = [srv |-> t, conn |-> C]
      <3> HIDE DEF t, C
      <3>1. g = [srv |-> g.srv, conn |-> g.conn]
        BY <1>2 DEF Worlds
      <3>2. w = [[g EXCEPT !.srv = t] EXCEPT !.conn = C]
        BY <3>1 DEF t, C
      <3> HIDE DEF w
      <3> QED  BY <3>1, <3>2
    <2>2. OpenConn \in Conn /\ OpenConn.client = "Up" /\ OpenConn.engine = None
          /\ OpenConn.reqs = <<>> /\ OpenConn.resps = <<>>
      <3>1. <<>> \in Seq(Request) /\ <<>> \in Seq(Response)
        OBVIOUS
      <3>2. NewConn \in Conn /\ NewConn.engine = None /\ NewConn.reqs = <<>>
            /\ NewConn.resps = <<>>
        BY <3>1 DEF NewConn, Conn
      <3>3. OpenConn \in Conn /\ OpenConn.client = "Up" /\ OpenConn.engine = NewConn.engine
            /\ OpenConn.reqs = NewConn.reqs /\ OpenConn.resps = NewConn.resps
        BY <3>2 DEF OpenConn, Conn
      <3> QED  BY <3>2, <3>3
    <2>3. C \in [Conns -> Conn] /\ C[c] = OpenConn /\ \A x \in Conns \ {c} : C[x] = g.conn[x]
      BY <1>6, <2>2
    <2>4. c \in 0 .. MaxConns /\ c # 0
      BY ConstantFacts
    <2>5. /\ t \in Table /\ t.relay = c /\ t.call = NoCall /\ t.seated = srv.seated
          /\ t.started = TRUE /\ t.conceded = {} /\ t.lost = FALSE
          /\ t.timer = NoTimer /\ t.notices = 0 /\ t.online = g.srv.online
          /\ t.absent = g.srv.absent
      BY <1>2, <1>6, <2>4 DEF Table
    <2> HIDE DEF t, C
    <2>6. w \in Worlds /\ w.srv = t /\ w.conn = C
      BY <2>1, <2>3, <2>5 DEF Worlds
    <2> HIDE DEF w
    <2>7. Relayed(t)
      BY <2>4, <2>5 DEF Relayed
    <2>8. Lined(w)
      BY <1>2, <2>3, <2>5, <2>6 DEF Lined
    <2>9. Clear(w)
      BY <2>2, <2>3, <2>4, <2>5, <2>6, <2>7, <2>8, EngineIsNoMark DEF Clear
    <2>10. /\ u.call = k
           /\ u.started = t.started /\ u.seated = t.seated /\ u.online = t.online
           /\ u.conceded = t.conceded /\ u.timer = t.timer /\ u.absent = t.absent
      BY <1>3, <2>5, CallFields
    <2> HIDE DEF u
    <2>11. Fresh(u)
      BY <1>2, <2>5, <2>10 DEF Fresh
    <2>12. Asked(u, None, r)
      BY <1>1, <1>3, <1>4, <2>5, <2>10, <2>11 DEF Asked
    <2>13. w.conn[w.srv.relay] = OpenConn
      BY <2>3, <2>5, <2>6
    <2>14. Asked([w.srv EXCEPT !.call = k], w.conn[w.srv.relay].engine, r)
      BY <2>2, <2>6, <2>12, <2>13 DEF u
    <2>15. Good(Calling(w, k, r, w).srv, Calling(w, k, r, w).conn)
      BY <1>3, <1>4, <2>2, <2>9, <2>13, <2>14, CallingGood
    <2> QED  BY <1>7, <2>15, BecomesInv
  <1>8. CASE Becomes([Unstart(g) EXCEPT !.conn[c].client = "Gone"])
    <2> DEFINE z == Unstart(g)
               o == z.conn[c]
               d == [o EXCEPT !.client = "Gone"]
               C == [z.conn EXCEPT ![c] = d]
               v == [z EXCEPT !.conn = C]
    <2>1. Lined(g) /\ g.srv.notices = IF g.srv.lost THEN 1 ELSE 0
      BY <1>2 DEF Lined
    <2>2. Alone(z)
      BY <1>2, <2>1, UnstartAlone
    <2> HIDE DEF z
    <2>3. z \in Worlds /\ z.conn \in [Conns -> Conn] /\ o \in Conn /\ Unused(o) /\ z.srv \in Table
      BY <2>2 DEF Alone, Worlds
    <2>4. [z EXCEPT !.conn[c].client = "Gone"] = v
      BY <2>3 DEF Worlds
    <2>5. d \in Conn /\ d.client = "Gone" /\ d.engine = o.engine /\ d.reqs = o.reqs
          /\ d.resps = o.resps
      BY <2>3 DEF Conn
    <2> HIDE DEF d, o
    <2>6. Unused(d)
      BY <2>3, <2>5 DEF Unused
    <2>7. C \in [Conns -> Conn] /\ C[c] = d /\ \A x \in Conns \ {c} : C[x] = z.conn[x]
      BY <2>3, <2>5
    <2> HIDE DEF C
    <2>8. v \in Worlds /\ v.srv = z.srv /\ v.conn = C
      BY <2>3, <2>7 DEF Worlds
    <2> HIDE DEF v
    <2>9. Alone(v)
      BY <2>2, <2>6, <2>7, <2>8 DEF Alone
    <2> QED  BY <1>8, <2>4, <2>9, AloneIsGood, BecomesInv DEF z
  <1> QED  BY <1>5, <1>7, <1>8

-----------------------------------------------------------------------------
(***************************************************************************)
(* The end of a call.                                                      *)
(***************************************************************************)

\* A game stops at the table only when it is over in the engine.
LEMMA StopInStep ==
    ASSUME NEW w \in Worlds, NEW e \in Engine, InStep(w.srv, e)
    PROVE  InStep(StopIfFinished(w).srv, e)
  <1> DEFINE s == w.srv
             t == StopIfFinished(w).srv
             L == s.seated \ s.conceded
  <1>1. /\ t.seated = s.seated /\ t.online = s.online
        /\ t.absent = s.absent /\ t.timer = s.timer /\ t.silenced = s.silenced
        /\ \/ t.started = s.started /\ t.conceded = s.conceded
           \/ t.started = FALSE /\ ~(Cardinality(L) > 1)
    BY StopFacts
  <1>2. s \in Table
    BY DEF Worlds
  <1> HIDE DEF t, s
  <1>3. Sound(e) /\ Agree(s, e, {}) /\ Away(s, e, {}) /\ Going(s, e) /\ UpToDate(s, e)
    BY DEF InStep, s
  <1>4. Away(t, e, {}) /\ Going(t, e) /\ UpToDate(t, e)
    BY <1>1, <1>3 DEF Away, Going, UpToDate
  <1>5. Agree(t, e, {})
    <2>1. CASE t.started = s.started /\ t.conceded = s.conceded
      BY <1>1, <1>3, <2>1 DEF Agree
    <2>2. CASE t.started = FALSE /\ ~(Cardinality(L) > 1)
      <3>1. CASE ~s.started
        BY <1>3, <2>2, <3>1 DEF Agree
      <3>2. CASE s.started
        <4>1. e.live \subseteq L
          BY <1>3, <3>2 DEF Agree
        <4>2. IsFiniteSet(L)
          <5>1. L \in SUBSET Player
            BY <1>2 DEF Table
          <5> QED  BY <5>1, SessionAssumption, FS_Subset
        <4>3. Cardinality(e.live) <= Cardinality(L) /\ Cardinality(e.live) \in Nat
              /\ Cardinality(L) \in Nat
          BY <4>1, <4>2, FS_Subset, FS_CardinalityType
        <4>4. e.over
          BY <1>3, <2>2, <4>3 DEF Sound
        <4> QED  BY <2>2, <4>4 DEF Agree
      <3> QED  BY <3>1, <3>2
    <2> QED  BY <1>1, <2>1, <2>2
  <1> QED  BY <1>3, <1>4, <1>5 DEF InStep, t

\* broadcastRuledResponse arms the timer the engine asked for.
LEMMA BroadcastFacts ==
    ASSUME NEW w, Clear(w), NEW a \in Response
    PROVE  LET h == Broadcast(w, a)
           IN  /\ Clear(h) /\ h.conn = w.conn
               /\ h.srv.started = w.srv.started /\ h.srv.seated = w.srv.seated
               /\ h.srv.online = w.srv.online /\ h.srv.absent = w.srv.absent
               /\ h.srv.conceded = w.srv.conceded /\ h.srv.relay = w.srv.relay
               /\ \A e \in Engine :
                     Sound(e) /\ Agree(w.srv, e, {}) /\ Away(w.srv, e, {}) /\ Hears(e, a)
                         => InStep(h.srv, e)
  <1> DEFINE m == [player |-> a.player, index |-> IF a.player = None THEN 0 ELSE a.index]
             t == [w.srv EXCEPT !.timer = m, !.silenced = FALSE]
             h == [w EXCEPT !.srv = t]
  <1>1. w \in Worlds /\ w.srv \in Table
    BY DEF Clear, Worlds
  <1>2. m \in Timer /\ m.player = a.player /\ m.index = IF a.player = None THEN 0 ELSE a.index
    BY DEF Timer, Response
  <1>3. Broadcast(w, a) = h
    BY <1>1 DEF Broadcast, Worlds
  <1>4. a.player = None => m = NoTimer
    BY DEF NoTimer
  <1>5. m = [player |-> a.player, index |-> IF a.player = None THEN 0 ELSE a.index]
    OBVIOUS
  <1> HIDE DEF m
  <1>6. /\ t \in Table /\ t.timer = m /\ t.silenced = FALSE
        /\ t.started = w.srv.started /\ t.seated = w.srv.seated
        /\ t.online = w.srv.online /\ t.absent = w.srv.absent
        /\ t.conceded = w.srv.conceded /\ t.relay = w.srv.relay /\ t.call = w.srv.call
        /\ t.lost = w.srv.lost /\ t.notices = w.srv.notices
    BY <1>1, <1>2 DEF Table
  <1> HIDE DEF t
  <1>7. h \in Worlds /\ h.srv = t /\ h.conn = w.conn
    BY <1>1, <1>6, WithTable
  <1> HIDE DEF h
  <1>8. Clear(h)
    BY <1>6, <1>7, StaysClear
  <1>9. ASSUME NEW e \in Engine, Sound(e), Agree(w.srv, e, {}), Away(w.srv, e, {}), Hears(e, a)
        PROVE  InStep(h.srv, e)
    <2>1. Agree(t, e, {}) /\ Away(t, e, {})
      BY <1>6, <1>9 DEF Agree, Away
    <2>2. UpToDate(t, e)
      BY <1>2, <1>4, <1>6, <1>9 DEF UpToDate, Hears
    <2>3. Going(t, e)
      <3>1. SUFFICES ASSUME NEW q \in e.live, Acts(e, q, {})
                     PROVE  t.timer = [player |-> q, index |-> e.index]
        BY DEF Going
      <3>2. a.player = q /\ a.index = e.index
        BY <1>9, <3>1 DEF Hears
      <3>3. q # None
        BY SessionAssumption DEF Engine
      <3> QED  BY <1>5, <1>6, <3>2, <3>3
    <2> QED  BY <1>7, <1>9, <2>1, <2>2, <2>3 DEF InStep
  <1> QED  BY <1>3, <1>6, <1>7, <1>8, <1>9

\* The world as the thread that waits in a call finds it.
LEMMA TimeOutInv ==
    ASSUME Inv, TimeOut PROVE Inv'
  <1> DEFINE t == [srv EXCEPT !.call = NoCall]
             w == [World EXCEPT !.srv = t]
  <1>1. srv \in Table /\ conn \in [Conns -> Conn] /\ Relayed(srv)
    BY DEF Inv, Good
  <1>2. World \in Worlds /\ World.srv = srv /\ World.conn = conn
    BY <1>1 DEF World, Worlds
  <1>3. Returning(World) = w
    BY DEF Returning, World
  <1>4. /\ t \in Table /\ t.call = NoCall /\ t.relay = srv.relay /\ t.lost = srv.lost
        /\ t.started = srv.started /\ t.notices = srv.notices
    BY <1>1, ConstantFacts, CallFields
  <1> HIDE DEF t
  <1>5. w \in Worlds /\ w.srv = t /\ w.conn = conn
    BY <1>2, <1>4, WithTable
  <1> HIDE DEF w
  <1>6. Relayed(w.srv)
    BY <1>1, <1>4, <1>5 DEF Relayed
  <1>7. Lined(w)
    BY <1>4, <1>5 DEF Lined, Inv, Good
  <1>8. Alone(Failed(w, srv.call))
    BY <1>4, <1>5, <1>6, <1>7, FailedAlone
  <1>9. Becomes(Failed(w, srv.call))
    BY <1>3 DEF TimeOut
  <1> QED  BY <1>8, <1>9, AloneIsGood, BecomesInv

\* What is done with an answer: w is the world after it was read, t the table
\* of the call.  Handled is good for every kind of call.
LEMMA HandledGood ==
    ASSUME NEW w, Clear(w), NEW t \in Table, NEW a \in Response,
           t.call.kind \in Kinds, t.call.left \in 0 .. Plan,
           w.srv.started = t.started, w.srv.seated = t.seated, w.srv.online = t.online,
           w.srv.conceded = t.conceded, w.srv.absent = t.absent, w.srv.timer = t.timer,
           w.srv.silenced = t.silenced,
           NEW c, c = w.conn[w.srv.relay], c.engine \in Engine \cup {None},
           c.alive => c.engine # None \/ (t.call.kind = "Start" /\ ~a.ok),
           Answered(t, c.engine, a),
           NEW v \in Handled(w, t.call, a)
    PROVE  Good(v.srv, v.conn)
  <1> DEFINE k == t.call
             h == Broadcast(w, a)
             e == c.engine
  <1>1. w \in Worlds /\ w.srv \in Table /\ Lined(w) /\ Relayed(w.srv) /\ w.srv.call = NoCall
    BY DEF Clear, Worlds
  <1>2. /\ Clear(h) /\ h.conn = w.conn
        /\ h.srv.started = w.srv.started /\ h.srv.seated = w.srv.seated
        /\ h.srv.online = w.srv.online /\ h.srv.absent = w.srv.absent
        /\ h.srv.conceded = w.srv.conceded /\ h.srv.relay = w.srv.relay
        /\ \A x \in Engine :
              Sound(x) /\ Agree(w.srv, x, {}) /\ Away(w.srv, x, {}) /\ Hears(x, a)
                  => InStep(h.srv, x)
    BY BroadcastFacts
  <1>3. h \in Worlds /\ h.srv \in Table /\ Lined(h) /\ Relayed(h.srv) /\ h.srv.call = NoCall
        /\ c = h.conn[h.srv.relay]
    BY <1>2 DEF Clear, Worlds
  <1> HIDE DEF h
  <1>4. ASSUME k.kind # "Preview", a.ok
        PROVE  a.batch /\ (e # None => InStep(h.srv, e)) /\ (c.alive => e # None)
    <2>1. a.batch /\ (e # None => Sound(e) /\ Agree(t, e, {}) /\ Away(t, e, {}) /\ Hears(e, a))
      BY <1>4 DEF Answered
    <2>2. e # None => Agree(w.srv, e, {}) /\ Away(w.srv, e, {})
      BY <2>1 DEF Agree, Away
    <2> QED  BY <1>2, <1>4, <2>1, <2>2
  <1>5. ASSUME e # None => InStep(t, e), k.kind # "Start" PROVE Good(w.srv, w.conn)
    <2>1. e # None => InStep(w.srv, e)
      BY <1>5 DEF InStep, Agree, Away, Going, UpToDate
    <2>2. c.alive => e # None
      BY <1>5
    <2> QED  BY <2>1, <2>2, ClearIsGood
  <1>6. Alone(Unstart(w)) /\ Alone(Unstart(h)) /\ Alone(Failed(w, k))
    BY <1>1, <1>3, UnstartAlone, FailedAlone DEF Relayed
  <1>7. CASE k.kind \in {"Start", "Replay"}
    <2>1. v = Unstart(w) \/ (a.ok /\ v \in ReplayNext(IF a.batch THEN h ELSE w, k.left))
      BY <1>7 DEF Handled, h
    <2>2. CASE v = Unstart(w)
      BY <1>6, <2>2, AloneIsGood
    <2>3. CASE a.ok /\ v \in ReplayNext(IF a.batch THEN h ELSE w, k.left)
      <3>1. (e # None => InStep(h.srv, e)) /\ (c.alive => e # None) /\ v \in ReplayNext(h, k.left)
        BY <1>4, <1>7, <2>3
      <3>2. Fresh(t)
        BY <1>7 DEF Answered
      <3>3. CASE k.left = 0 /\ v = h
        BY <1>2, <1>3, <3>1, <3>3, ClearIsGood
      <3>4. CASE k.left = 0 /\ \E S \in SUBSET Automated : v = [h EXCEPT !.srv.skips = S]
        <4>1. PICK S \in SUBSET Automated : v = [h EXCEPT !.srv.skips = S]
          BY <3>4
        <4> DEFINE s == [h.srv EXCEPT !.skips = S]
        <4>2. S \in SUBSET Player
          BY SessionAssumption
        <4>3. /\ s \in Table /\ s.started = h.srv.started /\ s.seated = h.srv.seated
              /\ s.online = h.srv.online /\ s.conceded = h.srv.conceded
              /\ s.absent = h.srv.absent /\ s.timer = h.srv.timer /\ s.call = h.srv.call
              /\ s.silenced = h.srv.silenced /\ s.relay = h.srv.relay /\ s.lost = h.srv.lost
              /\ s.notices = h.srv.notices
          BY <1>3, <4>2 DEF Table
        <4>4. v = [h EXCEPT !.srv = s]
          BY <1>3, <4>1 DEF Worlds
        <4> HIDE DEF s
        <4>5. v \in Worlds /\ v.srv = s /\ v.conn = h.conn
          BY <1>3, <4>3, <4>4, WithTable
        <4>6. Clear(v)
          BY <1>2, <4>3, <4>5, StaysClear
        <4>7. e # None => InStep(v.srv, e)
          BY <3>1, <4>3, <4>5 DEF InStep, Agree, Away, Going, UpToDate
        <4>8. c = v.conn[v.srv.relay]
          BY <1>3, <4>3, <4>5
        <4> QED  BY <3>1, <4>6, <4>7, <4>8, ClearIsGood
      <3>5. CASE k.left # 0
        <4> DEFINE j == [kind |-> "Replay", player |-> None, left |-> k.left - 1]
        <4>1. PICK r \in Recorded(h) : v = Calling(h, j, r, Unstart(h))
          BY <3>1, <3>5 DEF ReplayNext
        <4>2. k.left - 1 \in 0 .. Plan
          BY <3>5, SessionAssumption
        <4>3. j \in Call /\ j.kind = "Replay"
          BY <4>2 DEF Call, Kinds
        <4>4. h.srv.timer.index \in Nat
          BY <1>3 DEF Table, Timer
        <4>5. r \in Request /\ r.kind = "Command" /\ r.player \in Player /\ r.cmd \in Commands
          BY <4>4, SessionAssumption DEF Recorded, Request
        <4> HIDE DEF j
        <4> DEFINE u == [h.srv EXCEPT !.call = j]
        <4>6. /\ u.call = j
              /\ u.started = h.srv.started /\ u.seated = h.srv.seated /\ u.online = h.srv.online
              /\ u.conceded = h.srv.conceded /\ u.timer = h.srv.timer /\ u.absent = h.srv.absent
          BY <1>3, <4>3, CallFields
        <4> HIDE DEF u
        <4>7. Fresh(u)
          BY <1>2, <3>2, <4>6 DEF Fresh
        <4>8. ASSUME c.alive PROVE Asked(u, e, r)
          <5>1. e # None /\ InStep(h.srv, e)
            BY <3>1, <4>8
          <5>2. Sound(e) /\ Agree(u, e, {}) /\ UpToDate(u, e)
            BY <4>6, <5>1 DEF InStep, Agree, UpToDate
          <5> QED  BY <4>3, <4>5, <4>6, <4>7, <5>1, <5>2 DEF Asked
        <4>9. Good(Unstart(h).srv, Unstart(h).conn)
          BY <1>6, AloneIsGood
        <4>10. h.conn[h.srv.relay].alive
                   => Asked([h.srv EXCEPT !.call = j], h.conn[h.srv.relay].engine, r)
          BY <1>3, <4>8 DEF u
        <4> QED  BY <1>2, <4>1, <4>3, <4>5, <4>9, <4>10, CallingGood
      <3> QED  BY <3>1, <3>3, <3>4, <3>5 DEF ReplayNext
    <2> QED  BY <2>1, <2>2, <2>3
  <1>8. CASE k.kind \in {"Command", "Preview"}
    <2>1. v = IF a.ok /\ a.batch THEN h ELSE w
      BY <1>8 DEF Handled, h
    <2>2. CASE k.kind = "Command" /\ a.ok
      <3>1. v = h /\ (e # None => InStep(h.srv, e)) /\ (c.alive => e # None)
        BY <1>4, <2>1, <2>2
      <3> QED  BY <1>2, <1>3, <3>1, ClearIsGood
    <2>3. CASE k.kind = "Command" /\ ~a.ok
      <3>1. v = w /\ (e # None => InStep(t, e))
        BY <2>1, <2>3 DEF Answered
      <3> QED  BY <1>5, <2>3, <3>1
    <2>4. CASE k.kind = "Preview"
      <3>1. v = w /\ (e # None => InStep(t, e))
        BY <2>1, <2>4 DEF Answered
      <3> QED  BY <1>5, <2>4, <3>1
    <2> QED  BY <1>8, <2>2, <2>3, <2>4
  <1>9. CASE k.kind = "Pause"
    <2> DEFINE y == IF a.ok /\ a.batch THEN h ELSE w
               s == [y.srv EXCEPT !.silenced = ~a.ok]
    <2>1. v = [y EXCEPT !.srv.silenced = ~a.ok]
      BY <1>9 DEF Handled, h
    <2>2. Clear(y) /\ y \in Worlds /\ y.srv \in Table /\ c = y.conn[y.srv.relay]
      BY <1>1, <1>2, <1>3
    <2>3. CASE a.ok
      <3>1. y = h /\ (e # None => InStep(h.srv, e)) /\ (c.alive => e # None)
        BY <1>4, <1>9, <2>3
      <3> HIDE DEF y
      <3>2. /\ s \in Table /\ s.started = y.srv.started /\ s.seated = y.srv.seated
            /\ s.online = y.srv.online /\ s.conceded = y.srv.conceded
            /\ s.absent = y.srv.absent /\ s.timer = y.srv.timer /\ s.call = y.srv.call
            /\ s.relay = y.srv.relay /\ s.lost = y.srv.lost /\ s.notices = y.srv.notices
        BY <2>2 DEF Table
      <3>3. h.srv.silenced = FALSE /\ s.silenced = FALSE
        <4>1. h.srv.silenced = FALSE
          BY <1>1 DEF h, Broadcast, Worlds, Table
        <4> QED  BY <2>2, <2>3, <4>1 DEF Table
      <3>4. v = [y EXCEPT !.srv = s]
        BY <2>1, <2>2 DEF Worlds
      <3> HIDE DEF s
      <3>5. v \in Worlds /\ v.srv = s /\ v.conn = y.conn
        BY <2>2, <3>2, <3>4, WithTable
      <3>6. Clear(v)
        BY <2>2, <3>2, <3>5, StaysClear
      <3>7. e # None => InStep(v.srv, e)
        BY <3>1, <3>2, <3>3, <3>5 DEF InStep, Agree, Away, Going, UpToDate
      <3>8. c = v.conn[v.srv.relay]
        BY <2>2, <3>2, <3>5
      <3> QED  BY <3>1, <3>6, <3>7, <3>8, ClearIsGood
    <2>4. CASE ~a.ok
      <3>1. y = w
        BY <2>4
      <3>2. t.timer = NoTimer /\ (e # None => Sound(e) /\ Agree(t, e, {}) /\ Away(t, e, {}))
        BY <1>9, <2>4 DEF Answered
      <3> HIDE DEF y
      <3>3. /\ s \in Table /\ s.started = y.srv.started /\ s.seated = y.srv.seated
            /\ s.online = y.srv.online /\ s.conceded = y.srv.conceded
            /\ s.absent = y.srv.absent /\ s.timer = y.srv.timer /\ s.call = y.srv.call
            /\ s.relay = y.srv.relay /\ s.lost = y.srv.lost /\ s.notices = y.srv.notices
        BY <2>2 DEF Table
      <3>4. s.silenced = TRUE
        BY <2>2, <2>4 DEF Table
      <3>5. v = [y EXCEPT !.srv = s]
        BY <2>1, <2>2 DEF Worlds
      <3> HIDE DEF s
      <3>6. v \in Worlds /\ v.srv = s /\ v.conn = y.conn
        BY <2>2, <3>3, <3>5, WithTable
      <3>7. Clear(v)
        BY <2>2, <3>3, <3>6, StaysClear
      <3>8. e # None => InStep(v.srv, e)
        BY <3>1, <3>2, <3>3, <3>4, <3>6 DEF InStep, Agree, Away, Going, UpToDate
      <3>9. c = v.conn[v.srv.relay] /\ (c.alive => e # None)
        BY <1>9, <2>2, <3>3, <3>6
      <3> QED  BY <3>7, <3>8, <3>9, ClearIsGood
    <2> QED  BY <2>3, <2>4
  <1>10. CASE k.kind \in {"Concede", "Leave"} /\ ~a.ok
    <2>1. v = Failed(w, k)
      BY <1>10 DEF Handled, Failed
    <2> QED  BY <1>6, <2>1, AloneIsGood
  <1>11. CASE k.kind \in {"Concede", "Leave"} /\ a.ok
    <2>1. a.batch /\ (e # None => InStep(h.srv, e)) /\ (c.alive => e # None)
          /\ (e # None => k.player \notin e.live)
      BY <1>4, <1>11 DEF Answered
    <2>2. CASE k.kind = "Concede"
      <3>1. v = StopIfFinished(h)
        BY <1>11, <2>1, <2>2 DEF Handled, h
      <3>2. /\ v \in Worlds /\ v.conn = h.conn /\ v.srv.relay = h.srv.relay
            /\ v.srv.call = h.srv.call /\ v.srv.lost = h.srv.lost
            /\ v.srv.notices = h.srv.notices
        BY <1>3, <3>1, StopFacts
      <3>3. Clear(v)
        BY <1>2, <3>2, StaysClear
      <3>4. e # None => InStep(v.srv, e)
        BY <1>3, <2>1, <3>1, StopInStep
      <3>5. c = v.conn[v.srv.relay]
        BY <1>3, <3>2
      <3> QED  BY <2>1, <3>3, <3>4, <3>5, ClearIsGood
    <2>3. CASE k.kind = "Leave"
      <3>1. v = Remove(h, k.player)
        BY <1>11, <2>1, <2>3 DEF Handled, h
      <3>2. /\ v \in Worlds /\ v.conn = h.conn /\ v.srv.relay = h.srv.relay
            /\ v.srv.call = h.srv.call /\ v.srv.lost = h.srv.lost
            /\ v.srv.notices = h.srv.notices
        BY <1>3, <3>1, RemoveFacts
      <3>3. Clear(v)
        BY <1>2, <3>2, StaysClear
      <3>4. e # None => InStep(v.srv, e)
        BY <1>3, <2>1, <3>1, RemoveInStep
      <3>5. c = v.conn[v.srv.relay]
        BY <1>3, <3>2
      <3> QED  BY <2>1, <3>3, <3>4, <3>5, ClearIsGood
    <2> QED  BY <1>11, <2>2, <2>3
  <1> QED  BY <1>7, <1>8, <1>9, <1>10, <1>11 DEF Kinds

\* Reading an answer keeps the invariant.
LEMMA ReceiveInv ==
    ASSUME Inv, Receive PROVE Inv'
  <1> DEFINE n == srv.relay
             o == conn[n]
             a == Head(o.resps)
             t == [srv EXCEPT !.call = NoCall]
             d == [o EXCEPT !.resps = Tail(o.resps)]
             C == [conn EXCEPT ![n] = d]
             w == [srv |-> t, conn |-> C]
  <1>1. srv \in Table /\ conn \in [Conns -> Conn] /\ Relayed(srv) /\ srv.call # NoCall
        /\ o.resps # <<>>
    BY DEF Inv, Good, Receive
  <1>2. n \in Conns /\ n # 0 /\ srv.call.kind \in Kinds /\ srv.call.left \in 0 .. Plan
    <2>1. n # 0 /\ srv.call.kind # "None" /\ n \in 0 .. MaxConns /\ srv.call \in Call
      BY <1>1 DEF Relayed, Table
    <2> QED  BY <2>1, ConstantFacts DEF Call
  <1>3. o \in Conn /\ o.client \in {"Up", "Down"} /\ o.engine # Orphan /\ Phase(srv, o)
    BY <1>2, ConnFacts
  <1>4. /\ o.resps = <<a>> /\ o.reqs = <<>> /\ Answered(srv, o.engine, a)
        /\ o.alive => o.engine # None \/ (srv.call.kind = "Start" /\ ~a.ok)
    BY <1>1, <1>3, PhaseCases
  <1>5. a \in Response /\ o.engine \in Engine \cup {None} /\ Tail(o.resps) = <<>>
    <2>1. o.resps \in Seq(Response) /\ o.engine \in Engine \cup {None}
      <3>1. o.engine \in Engine \cup {None, Orphan}
        BY <1>3 DEF Conn
      <3> QED  BY <1>3, <3>1 DEF Conn
    <2>2. \A x : Tail(<<x>>) = <<>>
      OBVIOUS
    <2>3. a \in Response
      BY <1>1, <2>1
    <2> HIDE DEF a
    <2>4. Tail(o.resps) = <<>>
      BY <1>4, <2>2
    <2> QED  BY <2>1, <2>3, <2>4
  <1>6. [Returning(World) EXCEPT !.conn[n].resps = Tail(@)] = w
    <2>1. Returning(World) = [srv |-> t, conn |-> conn]
      BY DEF Returning, World
    <2> HIDE DEF t, o
    <2> QED  BY <1>1, <2>1 DEF o
  <1>7. PICK v \in Handled(w, srv.call, a) : Becomes(v)
    BY <1>6 DEF Receive
  <1>8. /\ t \in Table /\ t.call = NoCall /\ t.relay = n
        /\ t.started = srv.started /\ t.seated = srv.seated /\ t.online = srv.online
        /\ t.conceded = srv.conceded /\ t.lost = srv.lost
        /\ t.timer = srv.timer /\ t.notices = srv.notices /\ t.silenced = srv.silenced
        /\ t.absent = srv.absent
    BY <1>1, ConstantFacts, CallFields
  <1>9. /\ d \in Conn /\ d.client = o.client /\ d.engine = o.engine /\ d.alive = o.alive
        /\ d.reqs = o.reqs /\ d.resps = <<>>
    <2>1. <<>> \in Seq(Response)
      OBVIOUS
    <2>2. d \in Conn
      BY <1>3, <1>5, <2>1 DEF Conn
    <2> QED  BY <1>3, <1>5, <2>2 DEF Conn
  <1> HIDE DEF t, d
  <1>10. C \in [Conns -> Conn] /\ C[n] = d /\ \A x \in Conns \ {n} : C[x] = conn[x]
    BY <1>1, <1>2, <1>9
  <1> HIDE DEF C
  <1>11. w \in Worlds /\ w.srv = t /\ w.conn = C
    BY <1>8, <1>10 DEF Worlds
  <1> HIDE DEF w, n, o, a
  <1>12. Relayed(t)
    BY <1>1, <1>2, <1>8 DEF Relayed
  <1>13. Lined(w)
    BY <1>8, <1>10, <1>11 DEF Lined, Inv, Good, n
  <1>14. Clear(w)
    BY <1>2, <1>3, <1>4, <1>8, <1>9, <1>10, <1>11, <1>12, <1>13 DEF Clear
  <1>15. d = w.conn[w.srv.relay]
    BY <1>8, <1>10, <1>11
  <1>16. Good(v.srv, v.conn)
    <2>1. /\ d.engine \in Engine \cup {None} /\ Answered(srv, d.engine, a)
          /\ d.alive => d.engine # None \/ (srv.call.kind = "Start" /\ ~a.ok)
      BY <1>4, <1>5, <1>9
    <2> QED  BY <1>1, <1>2, <1>5, <1>8, <1>11, <1>14, <1>15, <2>1, HandledGood
  <1> QED  BY <1>7, <1>16, BecomesInv

\* Every step of the table, the sidecar and the network keeps the invariant.
LEMMA NextInv == Inv /\ [Next]_vars => Inv'
  <1> SUFFICES ASSUME Inv, [Next]_vars PROVE Inv'
    OBVIOUS
  <1>1. CASE UNCHANGED vars
    BY <1>1 DEF Inv, vars
  <1>2. ASSUME NEW c \in Conns,
               \/ Process(c) \/ SeeClose(c) \/ IdleTimeout(c) \/ Crash(c) \/ Cut(c)
               \/ SocketDown(c)
        PROVE  Inv'
    <2>1. CASE SeeClose(c) \/ IdleTimeout(c) \/ Crash(c)
      BY <2>1, ReleaseInv DEF SeeClose, IdleTimeout, Crash
    <2> QED  BY <1>2, <2>1, ProcessInv, LineInv
  <1>3. ASSUME NEW p \in Player,
               \/ PlayerCommand(p) \/ PreviewPayment(p) \/ SetAutoPassPolicy(p)
               \/ Concede(p) \/ Leave(p) \/ Disconnect(p) \/ Reconnect(p)
        PROVE  Inv'
    BY <1>3, CommandInv, QuietStepsInv, DepartureInv, DisconnectInv
  <1>4. CASE StartGame \/ CloseGame \/ TimerFires \/ Receive \/ TimeOut
    BY <1>4, StartInv, CloseInv, TimerInv, ReceiveInv, TimeOutInv
  <1> QED  BY <1>1, <1>2, <1>3, <1>4 DEF Next

\* The table and its engine are always in step, or in a call that restores it.
LEMMA AlwaysInv == Spec => []Inv
  BY InitInv, NextInv, PTL DEF Spec

-----------------------------------------------------------------------------
(***************************************************************************)
(* The invariants of the session.                                          *)
(***************************************************************************)

\* The state keeps its types, and a replay never counts below the end of its
\* capture.
THEOREM SessionTypeCorrect == Spec => []TypeOK
  <1>1. Inv => TypeOK
    BY DEF Inv, Good, TypeOK
  <1> QED  BY <1>1, AlwaysInv, PTL

\* The relay reads the answer to the request it wrote (exchange): nothing is
\* left over from a call that failed, because the relay was given up with it.
THEOREM AlwaysItsOwnAnswer == Spec => []AnswersMatchRequests
  <1>1. ASSUME NEW t, NEW c, Phase(t, c)
        PROVE  Len(c.reqs) + Len(c.resps) <= (IF t.call = NoCall THEN 0 ELSE 1)
    <2>1. Len(<<>>) = 0 /\ \A x : Len(<<x>>) = 1
      OBVIOUS
    <2>2. CASE c.reqs = <<>> /\ c.resps = <<>>
      BY <2>1, <2>2
    <2>3. CASE c.reqs # <<>>
      <3>1. c.reqs = <<Head(c.reqs)>> /\ c.resps = <<>> /\ t.call # NoCall
        BY <1>1, <2>3, PhaseCases
      <3>2. Len(c.reqs) = 1 /\ Len(c.resps) = 0
        BY <2>1, <3>1, Zenon
      <3> QED  BY <3>1, <3>2
    <2>4. CASE c.resps # <<>>
      <3>1. c.resps = <<Head(c.resps)>> /\ c.reqs = <<>> /\ t.call # NoCall
        BY <1>1, <2>4, PhaseCases
      <3>2. Len(c.resps) = 1 /\ Len(c.reqs) = 0
        BY <2>1, <3>1, Zenon
      <3> QED  BY <3>1, <3>2
    <2> QED  BY <2>2, <2>3, <2>4
  <1>2. Inv => AnswersMatchRequests
    BY <1>1 DEF AnswersMatchRequests, Inv, Good
  <1> QED  BY <1>2, AlwaysInv, PTL

\* A game that is played has its engine, or its players were told once that it
\* is lost (handleConnectionLost, handleDepartureRejected).
THEOREM NeverASilentFreeze == Spec => []NoSilentFreeze
  <1>1. ASSUME Inv, Idle, srv.started
        PROVE  /\ srv.relay = 0 <=> srv.notices = 1
               /\ srv.notices <= 1
               /\ srv.relay # 0 /\ conn[srv.relay].alive => InSession
    <2>1. /\ Relayed(srv)
          /\ srv.relay # 0 => /\ conn[srv.relay].engine \in Engine \cup {None}
                              /\ conn[srv.relay].alive => conn[srv.relay].engine # None
      BY <1>1, BetweenCalls
    <2>2. (srv.relay = 0 <=> srv.notices = 1) /\ srv.notices <= 1
      BY <1>1, <2>1 DEF Relayed
    <2>3. srv.relay # 0 /\ conn[srv.relay].alive => InSession
      BY <1>1, <2>1, EngineIsNoMark DEF InSession
    <2> QED  BY <2>2, <2>3
  <1>2. Inv => NoSilentFreeze
    BY <1>1 DEF NoSilentFreeze
  <1> QED  BY <1>2, AlwaysInv, PTL

\* Between two calls the table is in step with the engine it talks to.
LEMMA SessionInStep == ASSUME Inv, InSession PROVE InStep(srv, Current)
  <1>1. Idle /\ srv.relay # 0 /\ Current # None
    BY DEF InSession, Current
  <1> QED  BY <1>1, BetweenCalls DEF Current

\* The engine never plays on with somebody who conceded at the table or left
\* it, and a game the table has ended is over in the engine.
THEOREM AlwaysAgreed == Spec => []TableAndEngineAgree
  <1>1. Inv => TableAndEngineAgree
    BY SessionInStep DEF TableAndEngineAgree, InStep, Agree
  <1> QED  BY <1>1, AlwaysInv, PTL

\* Who lost the connection during a game is paused in the engine until coming
\* back (setUserInterface).
THEOREM AlwaysPausedWhenAway == Spec => []AwayIsPaused
  <1>1. Inv => AwayIsPaused
    BY SessionInStep DEF AwayIsPaused, InStep, Away
  <1> QED  BY <1>1, AlwaysInv, PTL

\* No continuation of the engine is missed, unless a refused pause stopped its timer
\* or a refused command made it due, and no armed timer is stale.
THEOREM AlwaysGoingOn == Spec => []YieldKeepsGoing
  <1>1. ASSUME Inv, InSession
        PROVE  /\ \A p \in Current.live :
                     Acts(Current, p, {}) /\ ~srv.silenced /\ ~Current.stray
                         => srv.timer = [player |-> p, index |-> Current.index]
               /\ srv.timer # NoTimer => srv.timer.index = Current.index
    BY <1>1, SessionInStep DEF InStep, Going, UpToDate
  <1>2. Inv => YieldKeepsGoing
    BY <1>1 DEF YieldKeepsGoing
  <1> QED  BY <1>2, AlwaysInv, PTL

-----------------------------------------------------------------------------
(***************************************************************************)
(* What a step may do to an engine: only the sidecar changes one, and only *)
(* by the rules of the request it answers.                                 *)
(***************************************************************************)

\* Every engine of C is the one of before, or nobody's, or gone.
Kept(C) == \A c \in Conns : C[c].engine \in {conn[c].engine, None, Orphan}

\* Without a relay no engine is anybody's.
LEMMA AloneKeeps == ASSUME NEW w, Alone(w) PROVE Kept(w.conn)
  BY DEF Alone, Unused, Kept

\* A clear line is a connection.
LEMMA ClearConn ==
    ASSUME NEW w, Clear(w) PROVE w.conn \in [Conns -> Conn] /\ w.srv.relay \in Conns
  <1>1. w.conn \in [Conns -> Conn] /\ w.srv.relay \in 0 .. MaxConns /\ w.srv.relay # 0
    BY DEF Clear, Worlds, Table
  <1> QED  BY <1>1, ConstantFacts

\* Making a call changes no engine.
LEMMA CallingKeeps ==
    ASSUME NEW w, w.conn \in [Conns -> Conn], w.srv.relay \in Conns, Kept(w.conn),
           NEW k, NEW r, NEW failed, Kept(failed.conn)
    PROVE  Kept(Calling(w, k, r, failed).conn)
  <1> DEFINE n == w.srv.relay
             c == w.conn[n]
             d == Write(c, r)
             t == [w.srv EXCEPT !.call = k]
             C == [w.conn EXCEPT ![n] = d]
  <1>1. n \in Conns /\ c \in Conn
    OBVIOUS
  <1>2. CASE c.client # "Up"
    BY <1>2 DEF Calling, ConnectIfNeeded
  <1>3. CASE c.client = "Up"
    <2>1. Calling(w, k, r, failed) = [srv |-> t, conn |-> C]
      BY <1>3 DEF Calling, ConnectIfNeeded
    <2>2. d.engine = c.engine
      BY <1>1 DEF Write, Conn
    <2> HIDE DEF d
    <2>3. C[n] = d /\ \A x \in Conns \ {n} : C[x] = w.conn[x]
      BY <1>1
    <2> HIDE DEF C, t
    <2>4. Kept(C)
      BY <1>1, <2>2, <2>3 DEF Kept
    <2> QED  BY <2>1, <2>4
  <1> QED  BY <1>2, <1>3

\* Neither does a call that fails at once.
LEMMA SubmitKeeps ==
    ASSUME NEW w, Clear(w), Kept(w.conn), NEW kind, NEW p, NEW r
    PROVE  Kept(Submit(w, kind, p, r).conn)
  <1> DEFINE k == CallOf(kind, p)
  <1>1. Submit(w, kind, p, r) = Calling(w, k, r, Failed(w, k))
    BY DEF Submit, CallOf
  <1>2. Alone(Failed(w, k))
    BY FailedAlone DEF Clear
  <1>3. Kept(Failed(w, k).conn)
    BY <1>2, AloneKeeps
  <1> QED  BY <1>1, <1>3, CallingKeeps, ClearConn

\* pauseAutomationForDisconnect.
LEMMA PauseKeeps ==
    ASSUME NEW w \in Worlds, w.srv.relay # 0 => Clear(w), Kept(w.conn), NEW p
    PROVE  Kept(PauseForDisconnect(w, p).conn)
  <1> DEFINE s == [w.srv EXCEPT !.timer = NoTimer]
             v == [w EXCEPT !.srv = s]
  <1>1. w.srv \in Table
    BY DEF Worlds
  <1>2. s \in Table /\ s.relay = w.srv.relay /\ s.call = w.srv.call
        /\ s.lost = w.srv.lost /\ s.notices = w.srv.notices
    BY <1>1, ConstantFacts DEF Table
  <1>3. PauseForDisconnect(w, p) = IF w.srv.relay = 0 THEN v
                                   ELSE Submit(v, "Pause", p, CommandOf(v, p, "Pause", 0))
    <2>1. [w EXCEPT !.srv.timer = NoTimer] = v
      BY DEF Worlds
    <2> QED  BY <2>1 DEF PauseForDisconnect
  <1> HIDE DEF s
  <1>4. v \in Worlds /\ v.srv = s /\ v.conn = w.conn
    BY <1>2, WithTable
  <1> HIDE DEF v
  <1>5. CASE w.srv.relay = 0
    BY <1>3, <1>4, <1>5
  <1>6. CASE w.srv.relay # 0
    <2>1. Clear(v)
      BY <1>2, <1>4, <1>6, StaysClear
    <2>2. Kept(Submit(v, "Pause", p, CommandOf(v, p, "Pause", 0)).conn)
      BY <1>4, <2>1, SubmitKeeps
    <2> QED  BY <1>3, <1>6, <2>2
  <1> QED  BY <1>5, <1>6

\* A departure.
LEMMA DepartureKeeps ==
    ASSUME Inv, Idle, srv.relay # 0, NEW p \in Player, NEW kind
    PROVE  LET w == [World EXCEPT !.srv.conceded = @ \cup {p}]
           IN  Kept(Submit(w, kind, p, CommandOf(w, p, "Concede", 0)).conn)
  <1> DEFINE K == srv.conceded \cup {p}
             t == [srv EXCEPT !.conceded = K]
             w == [World EXCEPT !.srv = t]
  <1>1. srv \in Table /\ K \in SUBSET Player
    BY BetweenCalls DEF Table
  <1>2. [World EXCEPT !.srv.conceded = @ \cup {p}] = w
    BY <1>1 DEF World, Table
  <1> HIDE DEF K
  <1>3. t \in Table /\ t.relay = srv.relay /\ t.call = srv.call /\ t.lost = srv.lost
        /\ t.notices = srv.notices /\ t.started = srv.started
    BY <1>1 DEF Table
  <1> HIDE DEF t
  <1>4. w \in Worlds /\ w.srv = t /\ w.conn = conn /\ Clear(w)
    BY <1>3, TableStep
  <1> HIDE DEF w
  <1>5. Kept(w.conn)
    BY <1>4 DEF Kept
  <1>6. Kept(Submit(w, kind, p, CommandOf(w, p, "Concede", 0)).conn)
    BY <1>4, <1>5, SubmitKeeps
  <1> QED  BY <1>2, <1>6

\* No operation of a player changes an engine by itself.
LEMMA PlayersKeep ==
    ASSUME Inv, NEW p \in Player,
           \/ PlayerCommand(p) \/ PreviewPayment(p) \/ SetAutoPassPolicy(p)
           \/ Concede(p) \/ Leave(p) \/ Disconnect(p) \/ Reconnect(p)
    PROVE  Kept(conn')
  <1>1. Idle
    BY DEF PlayerCommand, PreviewPayment, SetAutoPassPolicy, Concede, Leave, Disconnect, Reconnect
  <1>2. /\ World \in Worlds /\ World.srv = srv /\ World.conn = conn /\ srv \in Table
        /\ srv.relay # 0 => Clear(World)
    BY <1>1, BetweenCalls
  <1>3. Kept(conn) /\ Kept(World.conn)
    BY <1>2 DEF Kept
  <1>4. CASE PlayerCommand(p) \/ PreviewPayment(p)
    <2>1. srv.relay # 0 /\ \E kind, r : Becomes(Submit(World, kind, p, r))
      BY <1>4 DEF PlayerCommand, PreviewPayment
    <2>2. PICK kind, r : Becomes(Submit(World, kind, p, r))
      BY <2>1
    <2>3. Kept(Submit(World, kind, p, r).conn)
      BY <1>2, <1>3, <2>1, SubmitKeeps
    <2> QED  BY <2>2, <2>3 DEF Becomes
  <1>5. CASE SetAutoPassPolicy(p) \/ Reconnect(p)
    <2>1. conn' = conn
      BY <1>5 DEF SetAutoPassPolicy, Reconnect
    <2> QED  BY <1>3, <2>1
  <1>6. CASE Concede(p)
    <2> DEFINE w == [World EXCEPT !.srv.conceded = @ \cup {p}]
               z == Submit(w, "Concede", p, CommandOf(w, p, "Concede", 0))
    <2>1. srv.relay # 0 /\ Becomes(z)
      BY <1>6 DEF Concede
    <2>2. Kept(z.conn)
      BY <1>1, <2>1, DepartureKeeps
    <2> HIDE DEF z
    <2> QED  BY <2>1, <2>2 DEF Becomes
  <1>7. CASE Leave(p)
    <2>1. Becomes(LeaveTable(World, p))
      BY <1>7 DEF Leave
    <2>2. CASE ~srv.started \/ p \in srv.conceded \/ srv.relay = 0
      <3>1. LeaveTable(World, p) = Remove(World, p)
        BY <1>2, <2>2 DEF LeaveTable
      <3>2. Remove(World, p).conn = conn
        BY <1>2, RemoveFacts
      <3> QED  BY <1>3, <2>1, <3>1, <3>2 DEF Becomes
    <2>3. CASE ~(~srv.started \/ p \in srv.conceded \/ srv.relay = 0)
      <3> DEFINE w == [World EXCEPT !.srv.conceded = @ \cup {p}]
                 z == Submit(w, "Leave", p, CommandOf(w, p, "Concede", 0))
      <3>1. LeaveTable(World, p) = z
        BY <1>2, <2>3 DEF LeaveTable
      <3>2. Kept(z.conn)
        BY <1>1, <2>3, DepartureKeeps
      <3> HIDE DEF z
      <3> QED  BY <2>1, <3>1, <3>2 DEF Becomes
    <2> QED  BY <2>2, <2>3
  <1>8. CASE Disconnect(p)
    <2> DEFINE O == srv.online \ {p}
               t == [srv EXCEPT !.online = O]
               w == [World EXCEPT !.srv = t]
    <2>1. [World EXCEPT !.srv.online = @ \ {p}] = w /\ O \in SUBSET Player
      BY <1>2 DEF World, Table
    <2>2. Becomes(PauseForDisconnect(w, p))
      BY <1>8, <2>1 DEF Disconnect
    <2> HIDE DEF O
    <2>3. t \in Table /\ t.relay = srv.relay /\ t.call = srv.call /\ t.lost = srv.lost
          /\ t.notices = srv.notices /\ t.started = srv.started
      BY <1>2, <2>1 DEF Table
    <2> HIDE DEF t
    <2>4. w \in Worlds /\ w.srv = t /\ w.conn = conn /\ (srv.relay # 0 => Clear(w))
      BY <1>1, <2>3, TableStep
    <2> HIDE DEF w
    <2>5. Kept(PauseForDisconnect(w, p).conn)
      BY <1>3, <2>3, <2>4, PauseKeeps
    <2> QED  BY <2>2, <2>5 DEF Becomes
  <1> QED  BY <1>4, <1>5, <1>6, <1>7, <1>8

\* Whatever is done with an answer changes no engine.
LEMMA HandledKeeps ==
    ASSUME NEW w, Clear(w), Kept(w.conn), NEW k, k.kind \in Kinds, NEW a \in Response,
           NEW v \in Handled(w, k, a)
    PROVE  Kept(v.conn)
  <1> DEFINE h == Broadcast(w, a)
             y == IF a.ok /\ a.batch THEN h ELSE w
  <1>1. w \in Worlds /\ Lined(w) /\ Relayed(w.srv) /\ w.srv.call = NoCall
    BY DEF Clear
  <1>2. Clear(h) /\ h.conn = w.conn
    BY BroadcastFacts
  <1>3. y \in Worlds /\ y.srv \in Table /\ Clear(y) /\ y.conn = w.conn
    BY <1>2 DEF Clear, Worlds
  <1>4. Alone(Unstart(w)) /\ Alone(Unstart(y)) /\ Alone(Failed(w, k))
    <2> HIDE DEF y
    <2> QED  BY <1>1, <1>3, UnstartAlone, FailedAlone DEF Relayed, Clear
  <1>5. CASE k.kind \in {"Start", "Replay"}
    <2>1. v = Unstart(w) \/ v \in ReplayNext(y, k.left)
      BY <1>5 DEF Handled
    <2> HIDE DEF y
    <2>2. CASE v = Unstart(w)
      BY <1>4, <2>2, AloneKeeps
    <2>3. CASE v \in ReplayNext(y, k.left) /\ k.left = 0
      <3>1. v = y \/ \E S \in SUBSET Automated : v = [y EXCEPT !.srv.skips = S]
        BY <2>3 DEF ReplayNext
      <3>2. v.conn = y.conn
        BY <1>3, <3>1 DEF Worlds
      <3> QED  BY <1>3, <3>2
    <2>4. CASE v \in ReplayNext(y, k.left) /\ k.left # 0
      <3> DEFINE j == [kind |-> "Replay", player |-> None, left |-> k.left - 1]
      <3>1. PICK r \in Recorded(y) : v = Calling(y, j, r, Unstart(y))
        BY <2>4 DEF ReplayNext
      <3> HIDE DEF j
      <3>2. Kept(Unstart(y).conn)
        BY <1>4, AloneKeeps
      <3> QED  BY <1>3, <3>1, <3>2, CallingKeeps, ClearConn
    <2> QED  BY <2>1, <2>2, <2>3, <2>4
  <1>6. CASE k.kind \in {"Command", "Preview"}
    <2>1. v = y
      BY <1>6 DEF Handled
    <2> QED  BY <1>3, <2>1
  <1>7. CASE k.kind = "Pause"
    <2>1. v = [y EXCEPT !.srv.silenced = ~a.ok]
      BY <1>7 DEF Handled
    <2> HIDE DEF y
    <2>2. v.conn = y.conn
      BY <1>3, <2>1 DEF Worlds
    <2> QED  BY <1>3, <2>2
  <1>8. CASE k.kind \in {"Concede", "Leave"} /\ ~a.ok
    <2>1. v = Failed(w, k)
      BY <1>8 DEF Handled, Failed
    <2> QED  BY <1>4, <2>1, AloneKeeps
  <1>9. CASE k.kind \in {"Concede", "Leave"} /\ a.ok
    <2>1. v = StopIfFinished(y) \/ v = Remove(y, k.player)
      BY <1>9 DEF Handled
    <2> HIDE DEF y
    <2>2. v.conn = y.conn
      <3>1. StopIfFinished(y).conn = y.conn
        BY <1>3, StopFacts
      <3>2. Remove(y, k.player).conn = y.conn
        BY <1>3, RemoveFacts
      <3> QED  BY <2>1, <3>1, <3>2
    <2> QED  BY <1>3, <2>2
  <1> QED  BY <1>5, <1>6, <1>7, <1>8, <1>9 DEF Kinds

\* Reading an answer changes no engine.
LEMMA ReceiveKeeps ==
    ASSUME Inv, Receive PROVE Kept(conn')
  <1> DEFINE n == srv.relay
             o == conn[n]
             a == Head(o.resps)
             t == [srv EXCEPT !.call = NoCall]
             d == [o EXCEPT !.resps = Tail(o.resps)]
             C == [conn EXCEPT ![n] = d]
             w == [srv |-> t, conn |-> C]
  <1>1. srv \in Table /\ conn \in [Conns -> Conn] /\ Relayed(srv) /\ srv.call # NoCall
        /\ o.resps # <<>>
    BY DEF Inv, Good, Receive
  <1>2. n \in Conns /\ n # 0 /\ srv.call.kind \in Kinds
    <2>1. n # 0 /\ srv.call.kind # "None" /\ n \in 0 .. MaxConns /\ srv.call \in Call
      BY <1>1 DEF Relayed, Table
    <2> QED  BY <2>1, ConstantFacts DEF Call
  <1>3. o \in Conn /\ o.client \in {"Up", "Down"} /\ o.engine # Orphan /\ Phase(srv, o)
    BY <1>2, ConnFacts
  <1>4. o.resps = <<a>> /\ o.reqs = <<>>
    BY <1>1, <1>3, PhaseCases
  <1>5. a \in Response /\ Tail(o.resps) = <<>>
    <2>1. o.resps \in Seq(Response)
      BY <1>3 DEF Conn
    <2>2. \A x : Tail(<<x>>) = <<>>
      OBVIOUS
    <2>3. a \in Response
      BY <1>1, <2>1
    <2> HIDE DEF a
    <2>4. Tail(o.resps) = <<>>
      BY <1>4, <2>2
    <2> QED  BY <2>3, <2>4
  <1>6. [Returning(World) EXCEPT !.conn[n].resps = Tail(@)] = w
    <2>1. Returning(World) = [srv |-> t, conn |-> conn]
      BY DEF Returning, World
    <2> HIDE DEF t, o
    <2> QED  BY <1>1, <2>1 DEF o
  <1>7. PICK v \in Handled(w, srv.call, a) : Becomes(v)
    BY <1>6 DEF Receive
  <1>8. /\ t \in Table /\ t.call = NoCall /\ t.relay = n /\ t.started = srv.started
        /\ t.lost = srv.lost /\ t.notices = srv.notices
    BY <1>1, ConstantFacts, CallFields
  <1>9. /\ d \in Conn /\ d.client = o.client /\ d.engine = o.engine
        /\ d.reqs = o.reqs /\ d.resps = <<>>
    <2>1. <<>> \in Seq(Response)
      OBVIOUS
    <2>2. d \in Conn
      BY <1>3, <1>5, <2>1 DEF Conn
    <2> QED  BY <1>3, <1>5, <2>2 DEF Conn
  <1> HIDE DEF t, d
  <1>10. C \in [Conns -> Conn] /\ C[n] = d /\ \A x \in Conns \ {n} : C[x] = conn[x]
    BY <1>1, <1>2, <1>9
  <1> HIDE DEF C
  <1>11. w \in Worlds /\ w.srv = t /\ w.conn = C
    BY <1>8, <1>10 DEF Worlds
  <1> HIDE DEF w, a
  <1>12. Kept(w.conn)
    BY <1>9, <1>10, <1>11 DEF Kept
  <1> HIDE DEF n, o
  <1>13. Relayed(t)
    BY <1>1, <1>2, <1>8 DEF Relayed
  <1>14. Lined(w)
    BY <1>8, <1>10, <1>11 DEF Lined, Inv, Good, n
  <1>15. Clear(w)
    BY <1>2, <1>3, <1>4, <1>8, <1>9, <1>10, <1>11, <1>13, <1>14 DEF Clear
  <1>16. Kept(v.conn)
    BY <1>2, <1>5, <1>7, <1>12, <1>15, HandledKeeps
  <1> QED  BY <1>7, <1>16 DEF Becomes

\* Neither does the start or the end of a game, the timer or a call that fails.
LEMMA TableKeeps ==
    ASSUME Inv, StartGame \/ CloseGame \/ TimerFires \/ Receive \/ TimeOut
    PROVE  Kept(conn')
  <1>1. CASE StartGame
    <2> DEFINE g == NewGame(World)
               k == [kind |-> "Start", player |-> None, left |-> Plan]
               r == [kind |-> "Start", player |-> None, cmd |-> "None", index |-> 0,
                     set |-> srv.seated]
    <2>1. /\ g \in Worlds /\ \A c \in Conns : Unused(g.conn[c])
          /\ g.srv.relay = 0 /\ g.srv.call = NoCall /\ g.srv.lost = FALSE /\ g.srv.notices = 0
      BY <1>1, NewGameFacts DEF StartGame
    <2>2. PICK c \in Conns :
              LET w == [g EXCEPT !.srv.relay = c, !.conn[c] = OpenConn]
              IN  \/ Becomes(Calling(w, k, r, w))
                  \/ Becomes([Unstart(g) EXCEPT !.conn[c].client = "Gone"])
      BY <1>1 DEF StartGame
    <2> HIDE DEF g, k, r
    <2>3. g.srv \in Table /\ g.conn \in [Conns -> Conn]
      BY <2>1 DEF Worlds
    <2> DEFINE w == [g EXCEPT !.srv.relay = c, !.conn[c] = OpenConn]
    <2>4. CASE Becomes(Calling(w, k, r, w))
      <3> DEFINE t == [g.srv EXCEPT !.relay = c]
                 C == [g.conn EXCEPT ![c] = OpenConn]
      <3>1. w = [srv |-> t, conn |-> C]
        <4> HIDE DEF t, C
        <4>1. g = [srv |-> g.srv, conn |-> g.conn]
          BY <2>1 DEF Worlds
        <4>2. w = [[g EXCEPT !.srv = t] EXCEPT !.conn = C]
          BY <4>1 DEF t, C
        <4> HIDE DEF w
        <4> QED  BY <4>1, <4>2
      <3>2. OpenConn \in Conn /\ OpenConn.engine = None
        <4>1. <<>> \in Seq(Request) /\ <<>> \in Seq(Response)
          OBVIOUS
        <4>2. NewConn \in Conn /\ NewConn.engine = None
          BY <4>1 DEF NewConn, Conn
        <4> QED  BY <4>2 DEF OpenConn, Conn
      <3>3. C \in [Conns -> Conn] /\ C[c] = OpenConn /\ \A x \in Conns \ {c} : C[x] = g.conn[x]
        BY <2>3, <3>2
      <3>4. t.relay = c
        BY <2>3 DEF Table
      <3> HIDE DEF t, C
      <3>5. w.srv = t /\ w.conn = C
        BY <3>1
      <3> HIDE DEF w
      <3>6. Kept(C)
        BY <2>1, <3>2, <3>3 DEF Kept, Unused
      <3>7. Kept(Calling(w, k, r, w).conn)
        BY <3>3, <3>4, <3>5, <3>6, CallingKeeps
      <3> QED  BY <2>4, <3>7 DEF Becomes
    <2>5. CASE Becomes([Unstart(g) EXCEPT !.conn[c].client = "Gone"])
      <3> DEFINE z == Unstart(g)
                 d == [z.conn[c] EXCEPT !.client = "Gone"]
                 C == [z.conn EXCEPT ![c] = d]
      <3>1. Lined(g) /\ g.srv.notices = IF g.srv.lost THEN 1 ELSE 0
        BY <2>1 DEF Lined
      <3>2. Alone(z)
        BY <2>1, <3>1, UnstartAlone
      <3> HIDE DEF z
      <3>3. z \in Worlds /\ z.conn \in [Conns -> Conn] /\ \A x \in Conns : Unused(z.conn[x])
        BY <3>2 DEF Alone, Worlds
      <3>4. [z EXCEPT !.conn[c].client = "Gone"].conn = C
        BY <3>3 DEF Worlds
      <3>5. d.engine = z.conn[c].engine
        BY <3>3 DEF Conn
      <3> HIDE DEF d
      <3>6. C[c] = d /\ \A x \in Conns \ {c} : C[x] = z.conn[x]
        BY <3>3
      <3> HIDE DEF C
      <3>7. Kept(C)
        BY <3>3, <3>5, <3>6 DEF Kept, Unused
      <3> QED  BY <2>5, <3>4, <3>7 DEF Becomes, z
    <2> QED  BY <2>2, <2>4, <2>5
  <1>2. CASE CloseGame
    <2> DEFINE d == DropRelay(World)
               t == [NewTable EXCEPT !.closed = TRUE, !.seated = {}, !.online = {}]
    <2>1. World \in Worlds /\ Lined(World)
      BY <1>2, BetweenCalls DEF CloseGame
    <2>2. d \in Worlds /\ \A c \in Conns : Unused(d.conn[c])
      BY <2>1, DropRelayFacts
    <2>3. Becomes([d EXCEPT !.srv = t])
      BY <1>2 DEF CloseGame
    <2> HIDE DEF d, t
    <2>4. [d EXCEPT !.srv = t].conn = d.conn
      BY <2>2 DEF Worlds
    <2> QED  BY <2>2, <2>3, <2>4 DEF Becomes, Kept, Unused
  <1>3. CASE TimerFires
    <2> DEFINE p == srv.timer.player
               i == srv.timer.index
               t == [srv EXCEPT !.timer = NoTimer]
               w == [World EXCEPT !.srv = t]
    <2>1. Idle /\ srv \in Table
      BY <1>3, BetweenCalls DEF TimerFires
    <2>2. Becomes(ContinueFor(w, p, i))
      <3>1. [World EXCEPT !.srv.timer = NoTimer] = w
        BY DEF World
      <3> QED  BY <1>3, <3>1 DEF TimerFires
    <2>3. t \in Table /\ t.relay = srv.relay /\ t.call = srv.call /\ t.lost = srv.lost
          /\ t.notices = srv.notices /\ t.started = srv.started
      BY <2>1, ConstantFacts DEF Table
    <2> HIDE DEF t
    <2>4. w \in Worlds /\ w.srv = t /\ w.conn = conn /\ (srv.relay # 0 => Clear(w))
      BY <2>1, <2>3, TableStep
    <2> HIDE DEF w, p, i
    <2>5. Kept(w.conn) /\ (w.srv.relay # 0 => Clear(w))
      BY <2>3, <2>4 DEF Kept
    <2>6. Kept(ContinueFor(w, p, i).conn)
      BY <2>4, <2>5, PauseKeeps, SubmitKeeps DEF ContinueFor
    <2> QED  BY <2>2, <2>6 DEF Becomes
  <1>4. CASE TimeOut
    <2> DEFINE t == [srv EXCEPT !.call = NoCall]
               w == [World EXCEPT !.srv = t]
    <2>1. srv \in Table /\ conn \in [Conns -> Conn] /\ Relayed(srv)
      BY DEF Inv, Good
    <2>2. World \in Worlds /\ World.srv = srv /\ World.conn = conn
      BY <2>1 DEF World, Worlds
    <2>3. Returning(World) = w
      BY DEF Returning, World
    <2>4. /\ t \in Table /\ t.call = NoCall /\ t.relay = srv.relay /\ t.lost = srv.lost
          /\ t.started = srv.started /\ t.notices = srv.notices
      BY <2>1, ConstantFacts, CallFields
    <2> HIDE DEF t
    <2>5. w \in Worlds /\ w.srv = t /\ w.conn = conn
      BY <2>2, <2>4, WithTable
    <2> HIDE DEF w
    <2>6. Relayed(w.srv)
      BY <2>1, <2>4, <2>5 DEF Relayed
    <2>7. Lined(w)
      BY <2>4, <2>5 DEF Lined, Inv, Good
    <2>8. Alone(Failed(w, srv.call))
      BY <2>4, <2>5, <2>6, <2>7, FailedAlone
    <2>9. Becomes(Failed(w, srv.call))
      BY <1>4, <2>3 DEF TimeOut
    <2> QED  BY <2>8, <2>9, AloneKeeps DEF Becomes
  <1> QED  BY <1>1, <1>2, <1>3, <1>4, ReceiveKeeps

\* Only EngineSession::process replaces an engine by another.
LEMMA OnlyProcessTakesEffect ==
    ASSUME Inv, [Next]_vars, NEW c \in Conns, TakesEffect(c) PROVE Process(c)
  <1>1. ~Kept(conn')
    BY DEF Kept, TakesEffect
  <1>2. CASE UNCHANGED vars
    BY <1>1, <1>2 DEF vars, Kept
  <1>3. ASSUME NEW x \in Conns, Process(x) PROVE Process(c)
    <2>1. CASE x = c
      BY <1>3, <2>1
    <2>2. CASE x # c
      <3>1. conn \in [Conns -> Conn]
        BY DEF Inv, Good
      <3>2. conn'[c] = conn[c]
        BY <1>3, <2>2, <3>1 DEF Process, Answer, Release
      <3> QED  BY <3>2 DEF TakesEffect
    <2> QED  BY <2>1, <2>2
  <1>4. ASSUME NEW x \in Conns,
               SeeClose(x) \/ IdleTimeout(x) \/ Crash(x) \/ Cut(x) \/ SocketDown(x)
        PROVE  FALSE
    <2>1. conn \in [Conns -> Conn] /\ conn[x] \in Conn
      BY DEF Inv, Good
    <2>2. PICK d : conn' = [conn EXCEPT ![x] = d] /\ d.engine \in {conn[x].engine, None}
      <3>1. CASE SeeClose(x) \/ IdleTimeout(x) \/ Crash(x)
        <4> DEFINE d == [conn[x] EXCEPT !.alive = FALSE, !.engine = None, !.reqs = <<>>]
        <4>1. conn' = [conn EXCEPT ![x] = d]
          BY <2>1, <3>1 DEF SeeClose, IdleTimeout, Crash, Release
        <4>2. d.engine = None
          BY <2>1 DEF Conn
        <4> HIDE DEF d
        <4> QED  BY <4>1, <4>2
      <3>2. CASE Cut(x)
        <4> DEFINE d == [conn[x] EXCEPT !.cut = TRUE, !.reqs = <<>>, !.resps = <<>>]
        <4>1. conn' = [conn EXCEPT ![x] = d]
          BY <2>1, <3>2 DEF Cut
        <4>2. d.engine = conn[x].engine
          BY <2>1 DEF Conn
        <4> HIDE DEF d
        <4> QED  BY <4>1, <4>2
      <3>3. CASE SocketDown(x)
        <4> DEFINE d == [conn[x] EXCEPT !.client = "Down"]
        <4>1. conn' = [conn EXCEPT ![x] = d]
          BY <2>1, <3>3 DEF SocketDown
        <4>2. d.engine = conn[x].engine
          BY <2>1 DEF Conn
        <4> HIDE DEF d
        <4> QED  BY <4>1, <4>2
      <3> QED  BY <1>4, <3>1, <3>2, <3>3
    <2>3. conn'[x] = d /\ \A y \in Conns \ {x} : conn'[y] = conn[y]
      BY <2>1, <2>2
    <2> QED  BY <1>1, <2>2, <2>3 DEF Kept
  <1> QED  BY <1>1, <1>2, <1>3, <1>4, PlayersKeep, TableKeeps DEF Next

\* An engine is replaced in the session of the table only, by what its rules
\* allow for the request that was asked.
LEMMA EffectFacts ==
    ASSUME Inv, [Next]_vars, NEW c \in Conns, TakesEffect(c)
    PROVE  LET r == Head(conn[c].reqs)
               e == conn[c].engine
           IN  /\ e \in Engine /\ r.player \in Player /\ r.cmd \in Commands
               /\ Asked(srv, e, r) /\ srv.call.kind # "Start" /\ r.kind = "Command"
               /\ \/ conn'[c].engine \in Accepted(e, r.player, r.cmd, r.index, r.set)
                  \/ conn'[c].engine \in Refused(e, r.player, r.cmd, r.index, r.set)
  <1> DEFINE o == conn[c]
             r == Head(o.reqs)
             e == o.engine
             g == conn'[c].engine
             after == Accepted(e, r.player, r.cmd, r.index, r.set)
             kept == Refused(e, r.player, r.cmd, r.index, r.set)
  <1>1. Process(c) /\ o.reqs # <<>> /\ o \in Conn /\ e \notin {None, Orphan}
        /\ g \notin {None, Orphan} /\ g # e /\ conn \in [Conns -> Conn]
    <2>1. Process(c)
      BY OnlyProcessTakesEffect
    <2> QED  BY <2>1, ConnFacts DEF Process, TakesEffect, Inv, Good
  <1>2. c = srv.relay
    BY <1>1, ConnFacts DEF Unused
  <1>3. Asked(srv, e, r) /\ o.reqs = <<r>>
    BY <1>1, <1>2, ConnFacts, PhaseCases
  <1>4. e \in Engine
    BY <1>1 DEF Conn
  <1>5. srv.call.kind # "Start" /\ r.kind \in {"Command", "Preview"}
        /\ (r.kind = "Command" => r.player \in Player /\ r.cmd \in Commands)
    BY <1>1, <1>3 DEF Asked
  <1>6. ASSUME NEW f, NEW a, conn' = Answer(c, f, a) PROVE g = f
    <2> DEFINE R == IF o.client = "Up" THEN Append(o.resps, a) ELSE o.resps
               d == [o EXCEPT !.reqs = Tail(@), !.engine = f, !.resps = R]
    <2>1. conn' = [conn EXCEPT ![c] = d]
      BY <1>1, <1>6 DEF Answer, Conn
    <2>2. d.engine = f
      BY <1>1 DEF Conn
    <2> HIDE DEF d
    <2> QED  BY <1>1, <2>1, <2>2
  <1>7. r.kind = "Command" /\ (g \in after \/ g \in kept)
    <2> DEFINE P == [Refusal EXCEPT !.ok = TRUE]
    <2>1. \/ r.kind = "Command" /\
                \/ \E f \in after : conn' = Answer(c, f, Batch(f, Continuation(f, r.set)))
                \/ \E f \in kept : conn' = Answer(c, f, Refusal)
          \/ r.kind = "Preview" /\ conn' = Answer(c, e, P)
      BY <1>1, <1>5 DEF Process
    <2> HIDE DEF r, e, g, after, kept, P
    <2>2. CASE conn' = Answer(c, e, P)
      BY <1>1, <1>6, <2>2
    <2>3. CASE r.kind = "Command" /\ \E f \in after :
                   conn' = Answer(c, f, Batch(f, Continuation(f, r.set)))
      BY <1>6, <2>3
    <2>4. CASE r.kind = "Command" /\ \E f \in kept : conn' = Answer(c, f, Refusal)
      BY <1>6, <2>4
    <2> QED  BY <2>1, <2>2, <2>3, <2>4
  <1> QED  BY <1>3, <1>4, <1>5, <1>7

\* Outside a replay the engine acts on its own only for players who are there:
\* a continuation is sent for nobody else (handleAutomationContinuation), and
\* nobody goes away while its call is under way.
THEOREM TheAbsentNeverAct == Spec => AbsentNeverActs
  <1>1. ASSUME Inv, [Next]_vars, NEW c \in Conns, TakesEffect(c),
               Head(conn[c].reqs).cmd = "Continue", srv.call.kind # "Replay"
        PROVE  Head(conn[c].reqs).player \in srv.online
    <2> DEFINE r == Head(conn[c].reqs)
               e == conn[c].engine
    <2>1. Asked(srv, e, r) /\ srv.call.kind # "Start" /\ r.kind = "Command"
      BY <1>1, EffectFacts
    <2>2. r.cmd = "Continue"
      BY <1>1
    <2> HIDE DEF r, e
    <2>3. r.player \in srv.online
      BY <1>1, <2>1, <2>2 DEF Asked
    <2> QED  BY <2>3 DEF r
  <1>2. Inv /\ [Next]_vars =>
            [\A c \in Conns :
                TakesEffect(c) /\ Head(conn[c].reqs).cmd = "Continue" /\ srv.call.kind # "Replay"
                    => Head(conn[c].reqs).player \in srv.online]_vars
    BY <1>1
  <1> QED  BY <1>2, AlwaysInv, PTL DEF Spec, AbsentNeverActs

\* Paused automation is resumed by its owner only, with a pass or a change of
\* the settings (reconcile_automation, update_automation): no command of
\* another player, no reconnection and no continuation does it.
THEOREM TheOwnerResumes == Spec => OnlyOwnerResumes
  <1>1. ASSUME Inv, [Next]_vars, NEW c \in Conns, TakesEffect(c),
               NEW p \in conn[c].engine.paused \ conn'[c].engine.paused
        PROVE  /\ Head(conn[c].reqs).player = p
               /\ Head(conn[c].reqs).cmd \in {"Pass"} \cup Resuming
    <2> DEFINE r == Head(conn[c].reqs)
               e == conn[c].engine
               g == conn'[c].engine
    <2>1. e \in Engine /\ r.player \in Player /\ r.cmd \in Commands
          /\ \/ g \in Accepted(e, r.player, r.cmd, r.index, r.set)
             \/ g \in Refused(e, r.player, r.cmd, r.index, r.set)
      BY <1>1, EffectFacts
    <2>2. p \in e.paused \ g.paused
      BY <1>1
    <2> HIDE DEF r, e, g
    <2>3. /\ e.paused \ g.paused \subseteq {r.player}
          /\ e.paused \ g.paused # {} => r.cmd \in {"Pass"} \cup Resuming
      <3>1. CASE g \in Accepted(e, r.player, r.cmd, r.index, r.set)
        BY <2>1, <3>1, AcceptedFacts
      <3>2. CASE g \in Refused(e, r.player, r.cmd, r.index, r.set)
        <4>1. g = e \/ e.paused \subseteq g.paused
          BY <2>1, <3>2, RefusedFacts
        <4> QED  BY <4>1
      <3> QED  BY <2>1, <3>1, <3>2
    <2>4. r.player = p /\ r.cmd \in {"Pass"} \cup Resuming
      BY <2>2, <2>3
    <2> QED  BY <2>4 DEF r
  <1>2. Inv /\ [Next]_vars =>
            [\A c \in Conns :
                TakesEffect(c) =>
                    \A p \in conn[c].engine.paused \ conn'[c].engine.paused :
                        /\ Head(conn[c].reqs).player = p
                        /\ Head(conn[c].reqs).cmd \in {"Pass"} \cup Resuming]_vars
    BY <1>1
  <1> QED  BY <1>2, AlwaysInv, PTL DEF Spec, OnlyOwnerResumes
=============================================================================
