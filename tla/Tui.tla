-------------------------------- MODULE Tui --------------------------------
(***************************************************************************)
(* The terminal client: the bubbletea model (cmd/numbat-tui/model.go), whose *)
(* Update handles one message at a time, the commands it returns, which run  *)
(* in goroutines of their own and call the server with the client that is    *)
(* current when they get there, and the WebSocket client (internal/tui).     *)
(* Events come in order; the results of the commands come in any order.      *)
(***************************************************************************)
EXTENDS Naturals, Sequences

CONSTANTS
    MainRuns,       \* runs started by a send_message, of this client or of another
    ChildRuns,      \* sub-agents of any of them
    Asks,           \* names for permission requests, used again when nothing refers to them
    None,
    MaxCalls,       \* bound on the calls the user makes
    MaxLoops,       \* bound on the readLoops one client gets by Subscribes that fail
    MaxLag          \* bound on the events this client is behind

ASSUME TuiAssumption ==
    /\ MaxCalls \in Nat /\ MaxLoops \in Nat /\ MaxLag \in Nat \ {0}
    /\ None \notin MainRuns \cup ChildRuns \cup Asks
    /\ None \notin {"noConnection", "closedChannel", "send", "createFirst", "sendFirst"}

VARIABLES
    ui,             \* the fields of model that Update reads and writes
    client,         \* m.client: its connections, their readLoops, its events channel, the subscription
    connector,      \* where connectCmd or the reconnect timer is
    calls,          \* the goroutines of the other commands
    runs,           \* the runs, as their events show them
    crash,          \* why the process has panicked, or None
    announced,      \* history: children whose subagent.started went to this connection
    reused          \* history: a Subscribe of this client has failed, so it is connected again

vars == <<ui, client, connector, calls, runs, crash, announced, reused>>
history == <<announced, reused>>

Runs == MainRuns \cup ChildRuns
Calls == 1..MaxCalls
Event(type, id) == [type |-> type, id |-> id]

\* The one readLoop of an open connection is not counted: old are those that still read an
\* earlier connection of the client, joined those that have gone on from there to this one.
NewClient ==
    [conn |-> "none", events |-> <<>>, open |-> TRUE, subscribed |-> FALSE, old |-> 0, joined |-> 0]

\* exposed is history: the key was pressed in another state than ready, or the connection
\* was lost before this write.
NoCall == [op |-> None, at |-> "none", run |-> None, msg |-> None, exposed |-> FALSE]

Init ==
    /\ ui = [state |-> "connecting", mode |-> "input", session |-> FALSE, awaiting |-> FALSE,
             current |-> None, subs |-> {}, pending |-> {}, perm |-> None]
    /\ client = NewClient
    /\ connector = "dialing"
    /\ calls = [i \in Calls |-> NoCall]
    /\ runs = [r \in Runs |-> "none"]
    /\ crash = None
    /\ announced = {} /\ reused = FALSE

-----------------------------------------------------------------------------
(* The connection: connectCmd, its two messages, and the timer.             *)

\* Connect on whatever client is current: after a failed Subscribe that is the old one.
\* Its connection is replaced, not closed, and the readLoop of it goes on.
Connect ==
    /\ connector = "dialing"
    /\ connector' = "subscribing"
    /\ client' = [client EXCEPT !.conn = "open", !.subscribed = FALSE, !.joined = 0,
                                !.old = IF client.conn = "open" THEN @ + client.joined + 1 ELSE @]
    /\ UNCHANGED <<ui, calls, runs, crash, history>>

DialFails ==
    /\ connector = "dialing"
    /\ connector' = "failed"
    /\ UNCHANGED <<ui, client, calls, runs, crash, history>>

\* event.subscribe without a run id: the events of all runs, from now on.
Subscribe ==
    /\ connector = "subscribing" /\ client.conn = "open"
    /\ connector' = "connected"
    /\ client' = [client EXCEPT !.subscribed = TRUE]
    /\ announced' = {}
    /\ UNCHANGED <<ui, calls, runs, crash, reused>>

\* event.subscribe is answered with an error, or not within the ten minutes of Call. The
\* connection stays open, and may get that answer later: see OldLoopReads.
SubscribeFails ==
    /\ connector = "subscribing" /\ client.conn = "open"
    /\ client.old + client.joined + 1 < MaxLoops
    /\ connector' = "failed"
    /\ reused' = TRUE
    /\ UNCHANGED <<ui, client, calls, runs, crash, announced>>

\* connectedMsg; eventListener waits for events from here on, while state is ready.
Connected ==
    /\ connector = "connected"
    /\ connector' = "idle"
    /\ ui' = [ui EXCEPT !.state = "ready"]
    /\ UNCHANGED <<client, calls, runs, crash, history>>

\* Mutant: the failure is shown and nothing is scheduled.
GivesUp == "idle"

Retries == "waiting"

\* errMsg from connectCmd.
ConnectFailed ==
    /\ connector = "failed"
    /\ connector' = Retries
    /\ ui' = [ui EXCEPT !.state = "disconnected"]
    /\ UNCHANGED <<client, calls, runs, crash, history>>

\* The timer fires and reconnectMsg is handled.
Reconnect ==
    /\ connector = "waiting"
    /\ connector' = "dialing"
    /\ ui' = [ui EXCEPT !.state = "connecting"]
    /\ UNCHANGED <<client, calls, runs, crash, history>>

\* What a call that ends in an error reports: when the send of a first message fails its
\* session exists already.
ErrorMsg(c) == IF c.op = "sendFirst" THEN "sessionCreated" ELSE "rpcErr"
Answered(c, msg) == [c EXCEPT !.at = "answered", !.msg = msg, !.run = None, !.exposed = FALSE]
InFlight(i) == calls[i].at \in {"creating", "sent"}

\* readLoop ends: it wakes every call of its client, whichever connection it was sent on,
\* and closes the events channel, which must not be closed twice.
LoopEnds(twice) ==
    /\ crash' = IF twice THEN "closedChannel" ELSE crash
    /\ connector' = IF connector = "subscribing" THEN "failed" ELSE connector
    /\ calls' = [i \in Calls |-> IF InFlight(i) THEN Answered(calls[i], ErrorMsg(calls[i]))
                                                ELSE calls[i]]
    /\ reused' = (reused \/ connector = "subscribing")
    /\ UNCHANGED <<ui, runs, announced>>

\* The connection is lost with a part of what was under way on it; all that read it end.
Drop ==
    /\ client.conn = "open"
    /\ \E n \in 0..Len(client.events) :
          client' = [client EXCEPT !.conn = "lost", !.open = FALSE, !.subscribed = FALSE,
                                   !.joined = 0, !.events = SubSeq(@, 1, n)]
    /\ LoopEnds(~client.open \/ client.joined > 0)

\* An earlier connection of the client is lost.
OldLoopEnds ==
    /\ client.old > 0
    /\ client' = [client EXCEPT !.open = FALSE, !.old = @ - 1]
    /\ LoopEnds(~client.open)

\* A message on an earlier connection: the late answer to its event.subscribe, or an event,
\* goes to the events channel (handleEvent ignores the answer, and the events of a reused
\* client are left open), and its readLoop reads c.conn next, as another one does.
OldLoopReads ==
    /\ client.old > 0 /\ client.conn = "open"
    /\ client' = [client EXCEPT !.old = @ - 1, !.joined = @ + 1]
    /\ crash' = IF client.open THEN crash ELSE "closedChannel"
    /\ UNCHANGED <<ui, connector, calls, runs, history>>

\* The server cuts off a subscriber whose buffer is full; its writeLoop then closes the
\* connection, which is a Drop.
CutOff ==
    /\ client.subscribed /\ client.conn = "open"
    /\ client' = [client EXCEPT !.subscribed = FALSE]
    /\ UNCHANGED <<ui, connector, calls, runs, crash, history>>

\* Mutant: the new client is in place and the state is not.
StateKept(u) == [u EXCEPT !.session = FALSE, !.pending = {}, !.current = None,
                          !.awaiting = FALSE, !.subs = {}]

AfterDisconnect(u) == [u EXCEPT !.state = "disconnected", !.session = FALSE, !.pending = {},
                                !.current = None, !.awaiting = FALSE, !.subs = {}]

\* disconnectedMsg: the listener has found the channel empty and closed. Closing the
\* connection of a client used twice makes its readLoop close the channel again. The
\* calls that have not been written yet will be on the new client.
Disconnected ==
    /\ ui.state = "ready" /\ client.events = <<>> /\ ~client.open
    /\ ui' = AfterDisconnect(ui)
    /\ crash' = IF client.conn = "open" THEN "closedChannel" ELSE crash
    /\ client' = NewClient
    /\ connector' = "waiting"
    /\ calls' = [i \in Calls |-> [calls[i] EXCEPT !.exposed = @ \/ calls[i].at = "queued"]]
    /\ announced' = {}
    /\ reused' = (reused /\ client.conn = "open")
    /\ UNCHANGED runs

-----------------------------------------------------------------------------
(* The keys. The browse and help modes only take keys away and are left out. *)

\* A command is returned from Update; its goroutine has not started. The calls whose
\* success changes nothing here are alike: "rpc".
Start(op) ==
    \E i \in Calls :
        /\ calls[i].at = "none" /\ \A j \in 1..(i - 1) : calls[j].at # "none"
        /\ calls' = [calls EXCEPT ![i] = [NoCall EXCEPT !.op = op, !.at = "queued",
                                                        !.exposed = ui.state # "ready"]]

\* handleInput and a skill command: no look at the state of the connection.
Enter ==
    /\ ui.mode = "input"
    /\ Start(IF ui.session THEN "send" ELSE "createFirst")
    /\ ui' = [ui EXCEPT !.awaiting = TRUE]
    /\ UNCHANGED <<client, connector, runs, crash, history>>

\* /new, and /compact in a session.
Command ==
    /\ ui.mode = "input"
    /\ \/ Start("new")
       \/ ui.session /\ Start("rpc")
    /\ UNCHANGED <<ui, client, connector, runs, crash, history>>

\* Mutant: the dialog is closed on the screen only.
HideDialog(u) == [u EXCEPT !.perm = None, !.mode = "input"]

\* Mutant: the mode is not reset.
LeaveMode(u) == [u EXCEPT !.pending = @ \ {u.perm}, !.perm = None]

ExitPermMode(u) == [u EXCEPT !.pending = @ \ {u.perm}, !.perm = None, !.mode = "input"]

\* Esc while a run is tracked.
Abort ==
    /\ ui.current # None
    /\ Start("rpc")
    /\ ui' = IF ui.mode = "perm" THEN ExitPermMode(ui) ELSE ui
    /\ UNCHANGED <<client, connector, runs, crash, history>>

\* pickPerm.
Pick ==
    /\ ui.mode = "perm"
    /\ Start("rpc")
    /\ ui' = ExitPermMode(ui)
    /\ UNCHANGED <<client, connector, runs, crash, history>>

-----------------------------------------------------------------------------
(* The goroutines of the commands.                                          *)

Written(c, at) == [c EXCEPT !.at = at, !.exposed = FALSE]

\* CallWithTimeout up to the write, on the client of this moment. A client that has
\* never been connected has no conn to write to; after the end of readLoop the write
\* fails, or goes through and nobody is left to wake the call.
Issue(i) ==
    LET c == calls[i] IN
    /\ c.at = "queued"
    /\ \/ /\ client.conn = "none"
          /\ crash' = "noConnection"
          /\ calls' = [calls EXCEPT ![i].at = "panicked"]
       \/ /\ client.conn = "open"
          /\ calls' = [calls EXCEPT ![i] =
                          Written(c, IF c.op \in {"createFirst", "new"} THEN "creating" ELSE "sent")]
          /\ UNCHANGED crash
       \/ /\ client.conn = "lost"
          /\ \/ calls' = [calls EXCEPT ![i] = Written(c, "stuck")]
             \/ calls' = [calls EXCEPT ![i] = Answered(c, ErrorMsg(c))]
          /\ UNCHANGED crash
    /\ UNCHANGED <<ui, client, connector, runs, history>>

\* The answer to session.create: a first message is sent next, by the same goroutine.
Created(i) ==
    /\ calls[i].at = "creating" /\ client.conn = "open"
    /\ \/ calls' = [calls EXCEPT ![i] = Answered(@, "rpcErr")]
       \/ /\ calls[i].op = "new"
          /\ calls' = [calls EXCEPT ![i] = Answered(@, "sessionCreated")]
       \/ /\ calls[i].op = "createFirst"
          /\ calls' = [calls EXCEPT ![i] = [@ EXCEPT !.op = "sendFirst", !.at = "queued"]]
    /\ UNCHANGED <<ui, client, connector, runs, crash, history>>

Success == [send |-> "sendDone", sendFirst |-> "sessionCreated", rpc |-> "done"]

\* The answer to any other call; that of send_message comes after its run, if it
\* started one.
Answer(i) ==
    LET c == calls[i] IN
    /\ c.at = "sent" /\ client.conn = "open"
    /\ c.run # None => runs[c.run] = "finished"
    /\ \/ /\ c.op # "rpc" => c.run # None
          /\ calls' = [calls EXCEPT ![i] = Answered(c, Success[c.op])]
       \/ calls' = [calls EXCEPT ![i] = Answered(c, ErrorMsg(c))]
    /\ UNCHANGED <<ui, client, connector, runs, crash, history>>

\* Ten minutes without an answer: also a run that takes longer than that.
Timeout(i) ==
    /\ calls[i].at \in {"creating", "sent", "stuck"}
    /\ calls' = [calls EXCEPT ![i] = Answered(@, ErrorMsg(@))]
    /\ UNCHANGED <<ui, client, connector, runs, crash, history>>

ClearsGate == {"sessionCreated", "sendDone", "rpcErr"}

\* Update, for the message a command ends with.
HandleResult(i) ==
    /\ calls[i].at = "answered"
    /\ ui' = [ui EXCEPT !.awaiting = @ /\ calls[i].msg \notin ClearsGate,
                        !.session = @ \/ calls[i].msg = "sessionCreated"]
    /\ calls' = [calls EXCEPT ![i] = [NoCall EXCEPT !.at = "handled"]]
    /\ UNCHANGED <<client, connector, runs, crash, history>>

-----------------------------------------------------------------------------
(* The server's side, as far as its events and answers show it.             *)

\* Events go out to a subscription; a readLoop that finds its channel closed panics. Two
\* that read one connection at once, which gorilla/websocket forbids, may lose a message.
Emit(event) ==
    /\ Len(client.events) < MaxLag
    /\ \/ /\ client.subscribed /\ client.open
          /\ client' = [client EXCEPT !.events = Append(@, event)] /\ UNCHANGED crash
       \/ /\ client.subscribed /\ ~client.open
          /\ crash' = "closedChannel" /\ UNCHANGED client
       \/ /\ ~client.subscribed \/ client.joined > 0
          /\ UNCHANGED <<client, crash>>

\* For a send_message of this client that has arrived, or for another client.
RunStarts(r) ==
    /\ r \in MainRuns /\ runs[r] = "none"
    /\ \/ UNCHANGED calls
       \/ \E i \in Calls :
             /\ calls[i].at = "sent" /\ calls[i].op \in {"send", "sendFirst"} /\ calls[i].run = None
             /\ client.conn = "open"
             /\ calls' = [calls EXCEPT ![i].run = r]
    /\ runs' = [runs EXCEPT ![r] = "running"]
    /\ Emit(Event("run.started", r))
    /\ UNCHANGED <<ui, connector, history>>

\* runChild: subagent.started first, run.started when its loop starts.
Spawn(r) ==
    /\ r \in ChildRuns /\ runs[r] = "none" /\ \E p \in Runs : runs[p] = "running"
    /\ runs' = [runs EXCEPT ![r] = "announced"]
    /\ Emit(Event("subagent.started", r))
    /\ announced' = IF client.subscribed THEN announced \cup {r} ELSE announced
    /\ UNCHANGED <<ui, connector, calls, reused>>

ChildStarts(r) ==
    /\ runs[r] = "announced"
    /\ runs' = [runs EXCEPT ![r] = "running"]
    /\ Emit(Event("run.started", r))
    /\ UNCHANGED <<ui, connector, calls, history>>

\* By itself, aborted, or because the connection that started it has gone.
RunFinishes(r) ==
    /\ runs[r] = "running"
    /\ runs' = [runs EXCEPT ![r] = "finished"]
    /\ Emit(Event("run.finished", r))
    /\ UNCHANGED <<ui, connector, calls, history>>

Coming(a) == \E k \in DOMAIN client.events : client.events[k].id = a

\* The requests of these and other runs that this client hears of.
Ask(a) ==
    /\ client.subscribed /\ a \notin ui.pending \cup {ui.perm} /\ ~Coming(a)
    /\ Emit(Event("permission.requested", a))
    /\ UNCHANGED <<ui, connector, calls, runs, history>>

\* An answer from here or elsewhere, the timer, or an abort (see Permissions).
Decide(a) ==
    /\ client.subscribed
    /\ a \in ui.pending \/ Coming(a)
    /\ Emit(Event("permission.decided", a))
    /\ UNCHANGED <<ui, connector, calls, runs, history>>

-----------------------------------------------------------------------------
\* Mutant: a nested run.started counts too.
TracksAny(u, r) == u.awaiting

Tracks(u, r) == u.awaiting /\ r \notin u.subs

\* handleEvent.
AfterEvent(u, e) ==
    CASE e.type = "run.started" -> IF Tracks(u, e.id) THEN [u EXCEPT !.current = e.id] ELSE u
      [] e.type = "run.finished" -> IF u.current = e.id THEN [u EXCEPT !.current = None] ELSE u
      [] e.type = "subagent.started" -> [u EXCEPT !.subs = @ \cup {e.id}]
      [] e.type = "permission.requested" ->
            [u EXCEPT !.pending = @ \cup {e.id}, !.mode = "perm", !.perm = e.id]
      [] e.type = "permission.decided" -> [u EXCEPT !.pending = @ \ {e.id}]

\* eventListener hands over one event, and is started again.
HandleEvent ==
    /\ ui.state = "ready" /\ client.events # <<>>
    /\ ui' = AfterEvent(ui, Head(client.events))
    /\ client' = [client EXCEPT !.events = Tail(@)]
    /\ UNCHANGED <<connector, calls, runs, crash, history>>

Link == Connect \/ DialFails \/ Subscribe \/ SubscribeFails \/ Connected \/ ConnectFailed \/ Reconnect
Loss == Drop \/ OldLoopEnds \/ OldLoopReads \/ CutOff \/ Disconnected
Keys == Enter \/ Command \/ Abort \/ Pick
Goroutine(i) == Issue(i) \/ Created(i) \/ Answer(i) \/ Timeout(i) \/ HandleResult(i)
Server == \/ \E r \in Runs : RunStarts(r) \/ Spawn(r) \/ ChildStarts(r) \/ RunFinishes(r)
          \/ \E a \in Asks : Ask(a) \/ Decide(a)

\* A process that has panicked takes no step.
Next ==
    /\ crash = None
    /\ Link \/ Loss \/ Keys \/ HandleEvent \/ Server
       \/ \E i \in Calls : Goroutine(i)

Spec == Init /\ [][Next]_vars

\* The runtime runs connectCmd and the timer, and Update gets to every message; a server
\* that is dialled, or asked for events, again and again answers some time.
FairSpec ==
    /\ Spec
    /\ WF_vars(crash = None /\ Link)
    /\ SF_vars(crash = None /\ Connect)
    /\ SF_vars(crash = None /\ Subscribe)
    /\ WF_vars(crash = None /\ HandleEvent)
    /\ WF_vars(crash = None /\ Disconnected)

-----------------------------------------------------------------------------
\* The shapes of the fields, and: a dialog always has a request.
Models ==
    [state : {"connecting", "ready", "disconnected"}, mode : {"input", "perm"},
     session : BOOLEAN, awaiting : BOOLEAN, current : Runs \cup {None},
     subs : SUBSET ChildRuns, pending : SUBSET Asks, perm : Asks \cup {None}]

Events ==
    [type : {"run.started", "run.finished"}, id : Runs]
    \cup [type : {"subagent.started"}, id : ChildRuns]
    \cup [type : {"permission.requested", "permission.decided"}, id : Asks]

Clients ==
    [conn : {"none", "open", "lost"}, events : Seq(Events), open : BOOLEAN, subscribed : BOOLEAN,
     old : Nat, joined : Nat]

Commands ==
    [op : {None, "send", "createFirst", "sendFirst", "new", "rpc"},
     at : {"none", "queued", "panicked", "creating", "sent", "stuck", "answered", "handled"},
     run : Runs \cup {None}, msg : {None, "sessionCreated", "sendDone", "rpcErr", "done"},
     exposed : BOOLEAN]

TypeOK ==
    /\ ui \in Models /\ (ui.mode = "perm" => ui.perm # None)
    /\ client \in Clients
    /\ connector \in {"dialing", "subscribing", "connected", "failed", "idle", "waiting"}
    /\ calls \in [Calls -> Commands]
    /\ runs \in [Runs -> {"none", "announced", "running", "finished"}]
    /\ crash \in {None, "noConnection", "closedChannel"}
    /\ announced \subseteq ChildRuns /\ reused \in BOOLEAN

\* TargetSound has two parts. "The gate must be lifted when a send fails too, or the runs of
\* other clients would be taken for this one's": it is open only while a message of this
\* client is under way.
GateTruth ==
    ui.awaiting => \E i \in Calls : /\ calls[i].op \in {"send", "createFirst", "sendFirst"}
                                    /\ calls[i].at # "handled"

FinishOnItsWay(r) == \E k \in DOMAIN client.events : client.events[k] = Event("run.finished", r)

\* Esc is never aimed at a ghost: the run shown as running has not finished, or the news
\* of its end, or of the lost connection, is still to be handled, or the server has cut
\* off the subscription; and it is no sub-agent announced on this connection. The events
\* of a client whose Subscribe has failed tell nothing for sure: they may come from two
\* connections, or be lost where two readLoops read one.
AbortTarget ==
    ui.current # None /\ crash = None /\ ~reused =>
        /\ runs[ui.current] = "running" \/ FinishOnItsWay(ui.current) \/ ~client.subscribed
        /\ ui.current \notin announced

TargetSound == GateTruth /\ AbortTarget

\* Every panic of the process is one of these. A call finds no connection: its key was
\* pressed while the status line did not say ready, or the connection was lost, and the
\* client replaced, before its write, which for a first message is the second of two. Or
\* the events channel is closed twice, or written to after that: only for a client of which
\* a Subscribe has failed (an error, a lost connection, ten minutes) and that is used again.
PanicsExplained ==
    /\ crash = "noConnection" => \E i \in Calls : calls[i].at = "panicked" /\ calls[i].exposed
    /\ crash = "closedChannel" => reused

\* A request that still counts as pending goes from the screen only when a later request
\* takes its place: an answer and an abort close it in both.
NeverHidden ==
    [][ui'.pending \ {ui'.perm} \subseteq ui.pending \ {ui.perm}
       \/ ui'.perm \notin {ui.perm, None}]_ui

\* A client that has lost its connection is ready again, if it does not panic.
Reconnects == ui.state = "disconnected" ~> ui.state = "ready" \/ crash # None
=============================================================================
