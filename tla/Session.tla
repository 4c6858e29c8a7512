------------------------------ MODULE Session -------------------------------
(***************************************************************************)
(* A ruled game on the server: the table of Servatrice, the relay that     *)
(* talks to the rules engine in the sidecar process, the connections       *)
(* between them, and the timer that continues a player's automation.       *)
(*                                                                         *)
(* srv is the table with its RuledGameDriver, RuledGameSession and         *)
(* RulesRelay.  conn are the connections, with both their ends and the     *)
(* engine that lives in the sidecar's end.  A relay call is synchronous    *)
(* and made under the game mutex: while srv.call is outstanding only the   *)
(* sidecar and the network take steps.                                     *)
(***************************************************************************)
EXTENDS Automation, Sequences

CONSTANTS
    Orphan,      \* an engine whose relay is gone
    Automated,   \* the players who use automation controls
    Plan,        \* commands of the capture that is resumed; 0 for a new game
    MaxConns,    \* bound: connections, one for each start of a game
    MaxIndex     \* bound: commands accepted in each game before players stop
                 \* sending any but departures

ASSUME SessionAssumption ==
    /\ IsFiniteSet(Player) /\ None \notin Player
    /\ Orphan \notin Player \cup {None}
    /\ {None, Orphan} \cap Engine = {}
    /\ Automated \subseteq Player
    /\ Plan \in Nat /\ MaxConns \in Nat \ {0}
    /\ MaxIndex \in [1 .. MaxConns -> Nat]

VARIABLES srv, conn

vars == <<srv, conn>>

Kinds == {"Start", "Replay", "Command", "Preview", "Concede", "Leave", "Pause"}

\* What is done with the answer to a request.  player is the player who
\* departs; left counts the commands of the capture still to be replayed.
Call == [kind : Kinds \cup {"None"}, player : Player \cup {None}, left : 0 .. Plan]
NoCall == [kind |-> "None", player |-> None, left |-> 0]

\* The 100 ms timer with its continuation.  Raising automationEpoch makes the
\* timer set before it return at once, so it is modelled as stopping it.
Timer == [player : Player \cup {None}, index : Nat]
NoTimer == [player |-> None, index |-> 0]

Request == [kind : {"Start", "Command", "Preview", "End"}, player : Player \cup {None},
            cmd : Commands \cup {"None"}, index : Nat, set : SUBSET Player]
Response == [ok : BOOLEAN, batch : BOOLEAN, player : Player \cup {None}, index : Nat]

\* client is the relay's socket: connected, known to be down, or destroyed.
\* A connection that was cut carries nothing any more and tells neither end.
Conn == [client : {"New", "Up", "Down", "Gone"}, alive : BOOLEAN, cut : BOOLEAN,
         engine : Engine \cup {None, Orphan}, reqs : Seq(Request), resps : Seq(Response)]

NewConn == [client |-> "New", alive |-> FALSE, cut |-> FALSE, engine |-> None,
            reqs |-> <<>>, resps |-> <<>>]
OpenConn == [NewConn EXCEPT !.client = "Up", !.alive = TRUE]

\* skips are the cached auto-pass policies that let a player's priority pass,
\* lost is engineConnectionLost.  Three fields are history, not in the code:
\* the notices of a lost engine in this game, whether a timer was stopped by a
\* pause that the engine then refused, and who has been away since before the
\* game started.
Table == [started : BOOLEAN, closed : BOOLEAN, seated : SUBSET Player,
          online : SUBSET Player, conceded : SUBSET Player,
          relay : 0 .. MaxConns, lost : BOOLEAN, skips : SUBSET Player,
          timer : Timer, call : Call,
          notices : Nat, silenced : BOOLEAN, absent : SUBSET Player]

NewTable == [started |-> FALSE, closed |-> FALSE, seated |-> Player, online |-> Player,
             conceded |-> {}, relay |-> 0, lost |-> FALSE, skips |-> {},
             timer |-> NoTimer, call |-> NoCall,
             notices |-> 0, silenced |-> FALSE, absent |-> {}]

Conns == 1 .. MaxConns
Idle == srv.call = NoCall /\ ~srv.closed
World == [srv |-> srv, conn |-> conn]
Becomes(w) == srv' = w.srv /\ conn' = w.conn

(***************************************************************************)
(* The relay.                                                              *)
(***************************************************************************)

EndRequest == [kind |-> "End", player |-> None, cmd |-> "None", index |-> 0, set |-> {}]

\* disconnectRelay: a connected socket still sends SessionEnd.  Nobody sees the
\* state of the engine any more, nor what it does with an unread command, so
\* only its existence is kept.
Hangup(c) ==
    [c EXCEPT !.client = "Gone", !.resps = <<>>,
              !.engine = IF @ = None THEN None ELSE Orphan,
              !.reqs = IF c.client = "Up" /\ c.alive /\ ~c.cut THEN <<EndRequest>> ELSE <<>>]

DropRelay(w) ==
    IF w.srv.relay = 0 THEN w
    ELSE [srv |-> [w.srv EXCEPT !.relay = 0],
          conn |-> [w.conn EXCEPT ![w.srv.relay] = Hangup(@)]]

\* Mutant: the relay stays in use after a failed call.
NoticeOnly(w) ==
    IF w.srv.lost THEN w
    ELSE [w EXCEPT !.srv.lost = TRUE, !.srv.notices = @ + 1]

\* handleConnectionLost and handleDepartureRejected: the players are told once
\* that the game cannot continue, and the relay is given up.
EngineLost(w) ==
    IF w.srv.lost THEN w
    ELSE [DropRelay(w) EXCEPT !.srv.lost = TRUE, !.srv.notices = @ + 1]

\* Mutant: a relay that finds its socket down connects again.
ReconnectMidSession(c) == IF c.client = "Up" THEN c ELSE OpenConn

\* connectIfNeeded for a relay whose session is active: it never reconnects.
ConnectIfNeeded(c) == c

Write(c, r) == IF c.alive /\ ~c.cut THEN [c EXCEPT !.reqs = Append(@, r)] ELSE c

\* Make the call k, if the relay's socket is still up.  failed is the world
\* after a relay failure.
Calling(w, k, r, failed) ==
    LET c == ConnectIfNeeded(w.conn[w.srv.relay])
    IN  IF c.client = "Up"
        THEN [srv |-> [w.srv EXCEPT !.call = k],
              conn |-> [w.conn EXCEPT ![w.srv.relay] = Write(c, r)]]
        ELSE failed

\* canonicalGameplayCommand: a command travels with the policies of the table.
CommandOf(w, p, cmd, index) ==
    [kind |-> "Command", player |-> p, cmd |-> cmd, index |-> index, set |-> w.srv.skips]

(***************************************************************************)
(* The table.                                                              *)
(***************************************************************************)

\* stopGameIfFinished.
StopIfFinished(w) ==
    IF Cardinality(w.srv.seated \ w.srv.conceded) > 1 THEN w
    ELSE [w EXCEPT !.srv.started = FALSE, !.srv.conceded = {}]

\* The end of removeParticipant.
Remove(w, p) ==
    StopIfFinished([w EXCEPT !.srv.seated = @ \ {p}, !.srv.online = @ \ {p},
                             !.srv.conceded = @ \ {p}, !.srv.absent = @ \ {p}])

\* Mutant: a timer that is already armed is left alone.
ArmOnlyWhenFree(w, resp) ==
    IF w.srv.timer # NoTimer THEN w
    ELSE [w EXCEPT !.srv.timer = [player |-> resp.player,
                                  index |-> IF resp.player = None THEN 0 ELSE resp.index]]

\* broadcastRuledResponse of an accepted batch.
Broadcast(w, resp) ==
    [w EXCEPT !.srv.timer = [player |-> resp.player,
                             index |-> IF resp.player = None THEN 0 ELSE resp.index],
              !.srv.silenced = FALSE]

\* The start is taken back: start() was blocked or failResume was called.
Unstart(w) == [DropRelay(w) EXCEPT !.srv.started = FALSE]

\* Mutant: one command more than the capture has is replayed.
ReplayOneMore(w, left) ==
    IF left < 0 THEN {w}
    ELSE {Calling(w, [kind |-> "Replay", player |-> None, left |-> left - 1],
                  CommandOf(w, p, "Play", 0), Unstart(w)) : p \in Player}

\* What the next command of the capture may be.
Recorded(w) ==
    {r \in [kind : {"Command"}, player : Player, cmd : Commands,
            index : {w.srv.timer.index}, set : SUBSET Automated] :
        r.cmd \in Updates \ {"Pause"} => r.player \in Automated}

\* The next command of the capture, or the restored policies at its end.
ReplayNext(w, left) ==
    IF left = 0
    THEN IF Plan = 0 THEN {w} ELSE {[w EXCEPT !.srv.skips = S] : S \in SUBSET Automated}
    ELSE {Calling(w, [kind |-> "Replay", player |-> None, left |-> left - 1], r, Unstart(w)) :
             r \in Recorded(w)}

\* How the answer of a call is handled; the call is over.
Handled(w, k, resp) ==
    LET heard == IF resp.ok /\ resp.batch THEN Broadcast(w, resp) ELSE w
        refused == IF resp.ok THEN heard ELSE EngineLost(w)
    IN  CASE k.kind \in {"Start", "Replay"} ->
               (IF resp.ok THEN ReplayNext(heard, k.left) ELSE {})
               \cup (IF resp.ok /\ Plan = 0 THEN {} ELSE {Unstart(w)})
          [] k.kind \in {"Command", "Preview"} -> {heard}
          [] k.kind = "Pause" ->
               {[heard EXCEPT !.srv.silenced = ~resp.ok]}
          [] k.kind = "Concede" ->
               {IF resp.ok THEN StopIfFinished(heard)
                ELSE [refused EXCEPT !.srv.conceded = @ \ {k.player}]}
          [] k.kind = "Leave" -> {Remove(refused, k.player)}

\* How a call that got no answer is handled.
Failed(w, k) ==
    CASE k.kind \in {"Start", "Replay"} -> Unstart(w)
      [] k.kind = "Concede" -> [EngineLost(w) EXCEPT !.srv.conceded = @ \ {k.player}]
      [] k.kind = "Leave" -> Remove(EngineLost(w), k.player)
      [] OTHER -> EngineLost(w)

\* The end of a call, seen by the thread that waits in it.
Returning(w) == [w EXCEPT !.srv.call = NoCall]

Submit(w, kind, p, r) ==
    LET k == [kind |-> kind, left |-> 0,
              player |-> IF kind \in {"Concede", "Leave"} THEN p ELSE None]
    IN  Calling(w, k, r, Failed(w, k))

\* Bound on the commands of a session: departures are always possible.
Room == srv.relay # 0 /\ conn[srv.relay].engine # None
            => conn[srv.relay].engine.index < MaxIndex[srv.relay]

(***************************************************************************)
(* Operations of the table.                                                *)
(***************************************************************************)

\* doStartGameIfReady with startRuledSidecarSession: the new relay replaces
\* the old one, whether or not it can be connected.
NewGame(w) ==
    [DropRelay(w) EXCEPT !.srv.started = TRUE, !.srv.conceded = {}, !.srv.skips = {},
                         !.srv.lost = FALSE, !.srv.timer = NoTimer,
                         !.srv.notices = 0, !.srv.silenced = FALSE,
                         !.srv.absent = w.srv.seated \ w.srv.online]

StartGame ==
    /\ Idle
    /\ ~srv.started
    /\ Cardinality(srv.seated) > 1
    /\ \E c \in Conns :
          /\ conn[c].client = "New"
          /\ \A d \in Conns : d < c => conn[d].client # "New"
          /\ LET w == [NewGame(World) EXCEPT !.srv.relay = c, !.conn[c] = OpenConn]
             IN  \/ Becomes(Calling(w, [kind |-> "Start", player |-> None, left |-> Plan],
                                    [kind |-> "Start", player |-> None, cmd |-> "None",
                                     index |-> 0, set |-> srv.seated], w))
                 \/ Becomes([Unstart(NewGame(World)) EXCEPT !.conn[c].client = "Gone"])

\* A command of a client; the driver lets through what is not its own to send.
PlayerCommand(p) ==
    /\ Idle /\ Room
    /\ srv.relay # 0
    /\ p \in srv.seated \cap srv.online
    /\ \E cmd \in {"Pass", "Play"} \cup (IF p \in Automated THEN Updates ELSE {}) :
          Becomes(Submit(World, "Command", p, CommandOf(World, p, cmd, 0)))

PreviewPayment(p) ==
    /\ Idle
    /\ srv.relay # 0
    /\ p \in srv.seated \cap srv.online
    /\ Becomes(Submit(World, "Preview", p,
                      [EndRequest EXCEPT !.kind = "Preview"]))

SetAutoPassPolicy(p) ==
    /\ Idle
    /\ p \in srv.seated \cap srv.online \cap Automated
    /\ \E S \in {srv.skips \cup {p}, srv.skips \ {p}} : srv' = [srv EXCEPT !.skips = S]
    /\ UNCHANGED conn

\* cmdConcede: without a session the concession is taken back.
Concede(p) ==
    /\ Idle
    /\ srv.started
    /\ srv.relay # 0
    /\ p \in (srv.seated \cap srv.online) \ srv.conceded
    /\ LET w == [World EXCEPT !.srv.conceded = @ \cup {p}]
       IN  Becomes(Submit(w, "Concede", p, CommandOf(w, p, "Concede", 0)))

\* Mutant: the engine is not told of a player who leaves.
LeaveQuietly(w, p) == Remove(w, p)

\* removeParticipant: by leaving, by being kicked, or by disconnecting as an
\* unregistered user.
LeaveTable(w, p) ==
    LET v == [w EXCEPT !.srv.conceded = @ \cup {p}]
    IN  IF ~w.srv.started \/ p \in w.srv.conceded \/ w.srv.relay = 0
        THEN Remove(w, p)
        ELSE Submit(v, "Leave", p, CommandOf(v, p, "Concede", 0))

Leave(p) ==
    /\ Idle
    /\ p \in srv.seated
    /\ Becomes(LeaveTable(World, p))

\* Mutant: a disconnect only stops the timer.
StopTimerOnly(w, p) == [w EXCEPT !.srv.timer = NoTimer]

\* pauseAutomationForDisconnect: the timer is stopped before the engine is
\* asked.
PauseForDisconnect(w, p) ==
    LET v == [w EXCEPT !.srv.timer = NoTimer]
    IN  IF w.srv.relay = 0 THEN v
        ELSE Submit(v, "Pause", p, CommandOf(v, p, "Pause", 0))

Disconnect(p) ==
    /\ Idle /\ Room
    /\ p \in srv.seated \cap srv.online
    /\ Becomes(PauseForDisconnect([World EXCEPT !.srv.online = @ \ {p}], p))

Reconnect(p) ==
    /\ Idle
    /\ p \in srv.seated \ srv.online
    /\ srv' = [srv EXCEPT !.online = @ \cup {p}, !.absent = @ \ {p}]
    /\ UNCHANGED conn

\* Mutant: a continuation fires for a player who is away.
ContinueAnyway(w, p, index) ==
    IF w.srv.relay = 0 \/ p \notin w.srv.seated THEN w
    ELSE Submit(w, "Command", p, CommandOf(w, p, "Continue", index))

ContinueFor(w, p, index) ==
    IF w.srv.relay = 0 \/ p \notin w.srv.seated THEN w
    ELSE IF p \notin w.srv.online THEN PauseForDisconnect(w, p)
    ELSE Submit(w, "Command", p, CommandOf(w, p, "Continue", index))

TimerFires ==
    /\ Idle /\ Room
    /\ srv.timer # NoTimer
    /\ Becomes(ContinueFor([World EXCEPT !.srv.timer = NoTimer],
                           srv.timer.player, srv.timer.index))

\* ~Server_Game.
CloseGame ==
    /\ Idle
    /\ Becomes([DropRelay(World) EXCEPT !.srv = [NewTable EXCEPT !.closed = TRUE, !.seated = {},
                                                                 !.online = {}]])

(***************************************************************************)
(* The outstanding call.                                                   *)
(***************************************************************************)

\* readFrame returns the first frame in the socket's buffer.
Receive ==
    /\ srv.call # NoCall
    /\ conn[srv.relay].resps # <<>>
    /\ LET w == [Returning(World) EXCEPT !.conn[srv.relay].resps = Tail(@)]
       IN  \E v \in Handled(w, srv.call, Head(conn[srv.relay].resps)) : Becomes(v)

\* Five seconds without a byte, or a socket that closes.
TimeOut ==
    /\ srv.call # NoCall
    /\ conn[srv.relay].resps = <<>>
    /\ Becomes(Failed(Returning(World), srv.call))

(***************************************************************************)
(* The sidecar and the network.                                            *)
(***************************************************************************)

Answer(c, e, resp) ==
    [conn EXCEPT ![c].reqs = Tail(@), ![c].engine = e,
                 ![c].resps = IF conn[c].client = "Up" THEN Append(@, resp) ELSE @]

Refusal == [ok |-> FALSE, batch |-> FALSE, player |-> None, index |-> 0]
Batch(e, p) == [ok |-> TRUE, batch |-> TRUE, player |-> p, index |-> e.index]

Release(c) == [conn EXCEPT ![c].alive = FALSE, ![c].engine = None, ![c].reqs = <<>>]

\* EngineSession::process: one connection has at most one engine, and a new
\* SessionStart replaces it.
Process(c) ==
    /\ conn[c].alive
    /\ conn[c].reqs # <<>>
    /\ UNCHANGED srv
    /\ LET r == Head(conn[c].reqs)
           e == conn[c].engine
       IN  \/ /\ r.kind = "Start"
              /\ \/ \E f \in NewEngines(r.set) : conn' = Answer(c, f, Batch(f, None))
                 \/ conn' = Answer(c, None, Refusal)
           \/ /\ r.kind = "Command" /\ e # None
              /\ \/ \E f \in Accepted(e, r.player, r.cmd, r.index, r.set) :
                       conn' = Answer(c, f, Batch(f, Continuation(f, r.set)))
                 \/ \E f \in Refused(e, r.player, r.cmd, r.index, r.set) :
                       conn' = Answer(c, f, Refusal)
           \/ /\ r.kind = "Preview" /\ e # None
              /\ conn' = Answer(c, e, [Refusal EXCEPT !.ok = TRUE])
           \/ /\ r.kind \in {"Command", "Preview"} /\ e = None
              /\ conn' = Answer(c, e, Refusal)
           \/ /\ r.kind = "End"
              /\ conn' = Release(c)

\* The handler of a connection ends: the peer closed it (abort() may discard
\* what was not read yet, SessionEnd included), nothing was heard for the idle
\* timeout, or the process died.
SeeClose(c) ==
    /\ conn[c].alive /\ conn[c].client = "Gone" /\ ~conn[c].cut
    /\ conn' = Release(c) /\ UNCHANGED srv

IdleTimeout(c) ==
    /\ conn[c].alive /\ conn[c].reqs = <<>>
    /\ conn' = Release(c) /\ UNCHANGED srv

Crash(c) ==
    /\ conn[c].alive
    /\ conn' = Release(c) /\ UNCHANGED srv

\* The link fails without a word to either end, and what it carries is gone.
\* On a link that carries nothing this shows with the next message only.
Cut(c) ==
    /\ conn[c].alive /\ ~conn[c].cut
    /\ conn[c].reqs # <<>> \/ conn[c].resps # <<>>
    /\ conn' = [conn EXCEPT ![c].cut = TRUE, ![c].reqs = <<>>, ![c].resps = <<>>]
    /\ UNCHANGED srv

\* The event loop learns that the sidecar closed the socket.
SocketDown(c) ==
    /\ conn[c].client = "Up" /\ ~conn[c].alive /\ ~conn[c].cut
    /\ conn[c].resps = <<>>
    /\ conn' = [conn EXCEPT ![c].client = "Down"] /\ UNCHANGED srv

Init ==
    /\ srv = NewTable
    /\ conn = [c \in Conns |-> NewConn]

Next ==
    \/ StartGame \/ CloseGame \/ TimerFires \/ Receive \/ TimeOut
    \/ \E p \in Player :
          \/ PlayerCommand(p) \/ PreviewPayment(p) \/ SetAutoPassPolicy(p)
          \/ Concede(p) \/ Leave(p) \/ Disconnect(p) \/ Reconnect(p)
    \/ \E c \in Conns :
          \/ Process(c) \/ SeeClose(c) \/ IdleTimeout(c) \/ Crash(c) \/ Cut(c)
          \/ SocketDown(c)

Spec == Init /\ [][Next]_vars

-----------------------------------------------------------------------------
(***************************************************************************)
(* Properties.                                                             *)
(***************************************************************************)

\* The state keeps its types; the replay of a capture ends where the capture
\* does.
TypeOK == srv \in Table /\ conn \in [Conns -> Conn]

\* The engine the table talks to, between two calls.
InSession ==
    /\ Idle
    /\ srv.relay # 0
    /\ conn[srv.relay].engine \notin {None, Orphan}
Current == conn[srv.relay].engine

\* The answer the relay reads is the answer to the request it wrote: nothing
\* travels between two calls, and one message during a call, whatever timed
\* out before (exchange, handleConnectionLost).
AnswersMatchRequests ==
    srv.relay # 0 =>
        LET c == conn[srv.relay]
        IN  Len(c.reqs) + Len(c.resps) <= (IF srv.call = NoCall THEN 0 ELSE 1)

\* A game never freezes silently: a table that plays has a relay, and as long
\* as the sidecar keeps its connection the session is there; once the relay is
\* given up the players have been told, once.
NoSilentFreeze ==
    Idle /\ srv.started =>
        /\ srv.relay = 0 <=> srv.notices = 1
        /\ srv.notices <= 1
        /\ srv.relay # 0 /\ conn[srv.relay].alive => InSession

\* The engine never plays on with somebody who conceded at the table or left
\* it, and when the table has ended the game so has the engine.
TableAndEngineAgree ==
    InSession =>
        IF srv.started THEN Current.live \subseteq srv.seated \ srv.conceded
        ELSE Current.over

\* A player who lost the connection during a game is paused in the engine for
\* as long as that player is away and in the game (setUserInterface).
AwayIsPaused ==
    InSession /\ ~Current.over =>
        (Current.live \cap srv.seated) \ (srv.online \cup srv.absent) \subseteq Current.paused

\* Whenever the engine would go on for a player, whatever the stops of that
\* player, the timer that makes it do so is armed with the index of the last
\* accepted command; and no armed timer is out of date.  There are two exceptions,
\* both about commands the engine refused, for which the driver broadcasts nothing:
\* the timer lost to a refused pause, and the continuation that is never offered
\* when a refused command gave priority to the player.
YieldKeepsGoing ==
    InSession =>
        /\ \A p \in Current.live :
              Acts(Current, p, {}) /\ ~srv.silenced /\ ~Current.stray
                  => srv.timer = [player |-> p, index |-> Current.index]
        /\ srv.timer # NoTimer => srv.timer.index = Current.index

\* The first request of connection c takes effect, even if it is refused.
TakesEffect(c) ==
    /\ conn[c].engine \notin {None, Orphan}
    /\ conn'[c].engine \notin {None, Orphan}
    /\ conn'[c].engine # conn[c].engine

\* Outside a replay the engine acts on its own only for players who are there.
AbsentNeverActs ==
    [][\A c \in Conns :
          TakesEffect(c) /\ Head(conn[c].reqs).cmd = "Continue" /\ srv.call.kind # "Replay"
              => Head(conn[c].reqs).player \in srv.online]_vars

\* Paused automation is resumed by its owner only, with a pass or a change of
\* the settings: no command of another player, no reconnection and no
\* continuation does it (reconcile_automation).
OnlyOwnerResumes ==
    [][\A c \in Conns :
          TakesEffect(c) =>
              \A p \in conn[c].engine.paused \ conn'[c].engine.paused :
                  /\ Head(conn[c].reqs).player = p
                  /\ Head(conn[c].reqs).cmd \in {"Pass"} \cup Resuming]_vars

\* A departure is a matter of the player who departs: as long as the game goes
\* on in the engine, the engine accepts it and the others play on ("a player may
\* concede at any time", dispatch_command).
DepartureSparesTheOthers ==
    LET c == conn[srv.relay]
    IN  /\ srv.call.kind \in {"Concede", "Leave"}
        /\ c.engine \notin {None, Orphan}
        /\ ~c.engine.over
        /\ c.resps # <<>>
        => Head(c.resps).ok
=============================================================================
