----------------------------- MODULE TuiProofs -----------------------------
(***************************************************************************)
(* Proofs about Tui, for any runs, requests and calls, and any number of    *)
(* events the client is behind.                                             *)
(***************************************************************************)
EXTENDS Tui, SequenceTheorems, TLAPS

USE TuiAssumption DEF TuiAssumption, Calls

-----------------------------------------------------------------------------
(* The inductive invariant.                                                 *)

Sends == {"send", "createFirst", "sendFirst"}

\* Which calls can be where, and that the end of a send always lifts the gate.
CallOK(c) ==
    /\ c.at = "sent" => c.op \in {"send", "sendFirst", "rpc"}
    /\ c.op \in IF c.at \in {"none", "handled"} THEN {None} ELSE Sends \cup {"new", "rpc"}
    /\ c.at = "answered" /\ c.op \in Sends => c.msg \in ClearsGate

\* The state of the connection, by where the connector is. Only a client of which a
\* Subscribe has failed is dialled while its connection is open, keeps earlier readLoops, or
\* is in use with a closed events channel.
LinkOK ==
    /\ ui.state = "ready" <=> connector = "idle"
    /\ connector \in {"subscribing", "connected", "idle"} => client.conn # "none"
    /\ connector \notin {"connected", "idle"} =>
          client.events = <<>> /\ ~client.subscribed /\ ui.current = None
    /\ connector = "connected" => ui.current = None
    /\ client.subscribed => client.conn = "open"
    /\ ~client.open => reused \/ (client.conn = "lost" /\ connector \in {"connected", "idle"})
    /\ ~reused => /\ client.conn = "open" => connector \in {"subscribing", "connected", "idle"}
                  /\ client.old = 0 /\ client.joined = 0

\* A call that finds a client that was never connected is one that had to reckon with it.
Safe(c) == c.at = "queued" /\ ~c.exposed
ExposedOK == \A i \in Calls : Safe(calls[i]) => client.conn # "none"

Sent(k, type, r) == client.events[k] = Event(type, r)

\* What the events on their way say of a run.
NewsOf(r) ==
    \A k \in DOMAIN client.events :
        /\ Sent(k, "run.started", r) =>
              /\ runs[r] \in {"running", "finished"}
              /\ \/ runs[r] = "running" \/ ~client.subscribed
                 \/ \E j \in DOMAIN client.events : k < j /\ Sent(j, "run.finished", r)
              /\ r \in announced =>
                    r \in ui.subs \/ \E j \in DOMAIN client.events : j < k /\ Sent(j, "subagent.started", r)
        /\ Sent(k, "run.finished", r) => runs[r] = "finished"

\* A child announced on this connection is known to the client, or will be.
AnnouncedOK(r) ==
    r \in announced =>
        /\ runs[r] # "none"
        /\ client.subscribed =>
              r \in ui.subs \/ \E j \in DOMAIN client.events : Sent(j, "subagent.started", r)

\* The run that Esc aims at.
CurrentOK(r) ==
    ui.current = r =>
        /\ runs[r] = "running" \/ (runs[r] = "finished" /\ (FinishOnItsWay(r) \/ ~client.subscribed))
        /\ r \notin announced

RunOK(r) == NewsOf(r) /\ AnnouncedOK(r) /\ CurrentOK(r)

EventsOK == crash = None /\ ~reused => \A r \in Runs : RunOK(r)

IInv ==
    /\ TypeOK /\ (\A i \in Calls : CallOK(calls[i])) /\ GateTruth
    /\ (crash = None => LinkOK) /\ ExposedOK /\ EventsOK /\ PanicsExplained

-----------------------------------------------------------------------------
(* What the operators on the model's fields return.                         *)

LEMMA ExitFields ==
    ASSUME NEW u \in Models
    PROVE  LET v == ExitPermMode(u) IN
           /\ v \in Models /\ v.mode = "input" /\ v.perm = None /\ v.pending = u.pending \ {u.perm}
           /\ v.state = u.state /\ v.current = u.current /\ v.subs = u.subs
           /\ v.awaiting = u.awaiting
BY DEF ExitPermMode, Models

LEMMA DisconnectFields ==
    ASSUME NEW u \in Models
    PROVE  LET v == AfterDisconnect(u) IN
           /\ v \in Models /\ v.mode = u.mode /\ v.perm = u.perm /\ v.pending = {}
           /\ v.state = "disconnected" /\ v.current = None /\ v.awaiting = FALSE /\ v.subs = {}
BY DEF AfterDisconnect, Models

\* What an event changes, and what it leaves alone.
LEMMA EventFields ==
    ASSUME NEW u \in Models, NEW e \in Events
    PROVE  LET v == AfterEvent(u, e) IN
           /\ v \in Models /\ v.state = u.state /\ v.awaiting = u.awaiting
           /\ (u.mode = "perm" => u.perm # None) => (v.mode = "perm" => v.perm # None)
           /\ v.subs = IF e.type = "subagent.started" THEN u.subs \cup {e.id} ELSE u.subs
           /\ \/ v.current = u.current /\ (e.type = "run.finished" => u.current # e.id)
              \/ v.current = None /\ e.type = "run.finished"
              \/ v.current = e.id /\ e.type = "run.started" /\ e.id \notin u.subs
           /\ \/ v.pending = u.pending /\ v.perm = u.perm
              \/ v.pending = u.pending \cup {e.id} /\ v.perm = e.id /\ e.id \in Asks
              \/ v.pending = u.pending \ {e.id} /\ v.perm = u.perm
<1> DEFINE v == AfterEvent(u, e)
<1>1. CASE e.type = "run.started"
  <2>1. e.id \in Runs
    BY <1>1 DEF Events
  <2>2. CASE Tracks(u, e.id)
    <3>1. v = [u EXCEPT !.current = e.id]
      BY <1>1, <2>2 DEF AfterEvent
    <3>2. e.id \notin u.subs
      BY <2>2 DEF Tracks
    <3>3. QED
      BY <1>1, <2>1, <3>1, <3>2 DEF Models
  <2>3. CASE ~Tracks(u, e.id)
    BY <1>1, <2>3 DEF AfterEvent
  <2>4. QED
    BY <2>2, <2>3
<1>2. CASE e.type = "run.finished"
  <2>1. CASE u.current = e.id
    <3>1. v = [u EXCEPT !.current = None]
      BY <1>2, <2>1 DEF AfterEvent
    <3>2. QED
      BY <1>2, <3>1 DEF Models
  <2>2. CASE u.current # e.id
    BY <1>2, <2>2 DEF AfterEvent
  <2>3. QED
    BY <2>1, <2>2
<1>3. CASE e.type = "subagent.started"
  <2>1. e.id \in ChildRuns /\ v = [u EXCEPT !.subs = @ \cup {e.id}]
    BY <1>3 DEF Events, AfterEvent
  <2>2. QED
    BY <1>3, <2>1 DEF Models
<1>4. CASE e.type = "permission.requested"
  <2> DEFINE a == e.id
             P == u.pending \cup {a}
  <2>1. a \in Asks /\ v = [u EXCEPT !.pending = P, !.mode = "perm", !.perm = a]
    BY <1>4 DEF Events, AfterEvent
  <2>2. P \in SUBSET Asks /\ a # None
    BY <2>1 DEF Models
  <2> HIDE DEF P, a
  <2>3. /\ v.pending = P /\ v.perm = a /\ v.mode = "perm"
        /\ v.current = u.current /\ v.subs = u.subs /\ v.state = u.state /\ v.awaiting = u.awaiting
    BY <2>1 DEF Models
  <2>4. v \in Models
    BY <2>2, <2>1 DEF Models
  <2> HIDE DEF v
  <2>5. (u.mode = "perm" => u.perm # None) => (v.mode = "perm" => v.perm # None)
    BY <2>2, <2>3
  <2>6. v.pending = u.pending \cup {e.id} /\ v.perm = e.id /\ e.id \in Asks
    BY <2>1, <2>3 DEF P, a
  <2>7. QED
    BY <1>4, <2>3, <2>4, <2>5, <2>6 DEF v
<1>5. CASE e.type = "permission.decided"
  <2>1. e.id \in Asks /\ v = [u EXCEPT !.pending = @ \ {e.id}]
    BY <1>5 DEF Events, AfterEvent
  <2>2. QED
    BY <1>5, <2>1 DEF Models
<1>6. QED
  BY <1>1, <1>2, <1>3, <1>4, <1>5 DEF Events

LEMMA AnsweredFields ==
    ASSUME NEW c \in Commands, CallOK(c), c.at \notin {"none", "handled"},
           NEW msg \in {"sessionCreated", "sendDone", "rpcErr", "done"},
           c.op \in Sends => msg \in ClearsGate
    PROVE  LET d == Answered(c, msg) IN
           d \in Commands /\ d.op = c.op /\ d.at = "answered" /\ CallOK(d)
<1> DEFINE d == Answered(c, msg)
<1>1. d \in Commands /\ d.op = c.op /\ d.at = "answered" /\ d.msg = msg
  BY DEF Answered, Commands
<1> HIDE DEF d
<1>2. CallOK(d)
  BY <1>1 DEF CallOK
<1>3. QED
  BY <1>1, <1>2 DEF d

LEMMA ErrorFields ==
    ASSUME NEW c \in Commands, CallOK(c), c.at \notin {"none", "handled"}
    PROVE  LET d == Answered(c, ErrorMsg(c)) IN
           d \in Commands /\ d.op = c.op /\ d.at = "answered" /\ CallOK(d)
<1>1. ErrorMsg(c) \in {"sessionCreated", "rpcErr"}
  BY DEF ErrorMsg
<1>2. QED
  BY <1>1, AnsweredFields DEF ClearsGate

\* There is a connection, or an unexposed call that is to find one.
HasConn(i) == Safe(calls[i]) \/ client.conn = "open" \/ ui.state = "ready"

\* One call changes; a message under way stays one, and is not over.
OneCall(i) ==
    \E c \in Commands :
        /\ calls' = [calls EXCEPT ![i] = c] /\ CallOK(c)
        /\ calls[i].op \in Sends => c.op \in Sends
        /\ c.at # "handled"
        /\ Safe(c) => HasConn(i)

\* A call that finds no connection.
Panics(i) ==
    /\ client.conn = "none" /\ crash' = "noConnection"
    /\ calls[i].at = "queued" /\ calls'[i].at = "panicked"
    /\ calls'[i].exposed = calls[i].exposed

\* The goroutines of the commands, but for the handling of their result.
LEMMA GoroutineEffect ==
    ASSUME TypeOK, NEW i \in Calls, CallOK(calls[i]), Issue(i) \/ Created(i) \/ Answer(i) \/ Timeout(i)
    PROVE  /\ calls' = calls \/ OneCall(i)
           /\ UNCHANGED <<ui, client, connector, runs, history>>
           /\ crash' = crash \/ Panics(i)
<1> DEFINE c == calls[i]
<1>1. c \in Commands /\ CallOK(c)
  BY DEF TypeOK
<1>2. /\ UNCHANGED <<ui, client, connector, runs, history>>
  BY DEF Issue, Created, Answer, Timeout
<1>10. crash' = crash \/ Issue(i)
  BY DEF Created, Answer, Timeout
<1>3. ASSUME NEW d \in Commands, calls' = [calls EXCEPT ![i] = d], CallOK(d),
             c.op \in Sends => d.op \in Sends, d.at # "handled", Safe(d) => HasConn(i)
      PROVE  OneCall(i)
  BY <1>3 DEF OneCall
<1>4. ASSUME calls' = [calls EXCEPT ![i] = Answered(c, ErrorMsg(c))]
      PROVE  OneCall(i)
  <2>1. c.at \notin {"none", "handled"}
    BY DEF Issue, Created, Answer, Timeout
  <2>2. /\ Answered(c, ErrorMsg(c)) \in Commands /\ CallOK(Answered(c, ErrorMsg(c)))
        /\ Answered(c, ErrorMsg(c)).op = c.op /\ Answered(c, ErrorMsg(c)).at = "answered"
    BY <1>1, <2>1, ErrorFields
  <2>3. QED
    BY <1>3, <1>4, <2>2 DEF Safe
<1>5. CASE Issue(i)
  <2>1. c.at = "queued"
    BY <1>5 DEF Issue
  <2>2. ASSUME NEW at \in {"creating", "sent", "stuck"}, calls' = [calls EXCEPT ![i] = Written(c, at)],
               at = "sent" => c.op \notin {"createFirst", "new"}
        PROVE  OneCall(i)
    <3> DEFINE d == Written(c, at)
    <3>1. d \in Commands /\ d.at = at /\ d.op = c.op
      BY <1>1 DEF Commands, Written
    <3> HIDE DEF d
    <3>2. CallOK(d)
      BY <1>1, <3>1, <2>1, <2>2 DEF CallOK, Sends
    <3>3. QED
      BY <1>3, <2>2, <3>1, <3>2 DEF Safe, d
  <2>3. ASSUME client.conn = "none", crash' = "noConnection",
               calls' = [calls EXCEPT ![i].at = "panicked"]
        PROVE  OneCall(i) /\ Panics(i)
    <3> DEFINE d == [c EXCEPT !.at = "panicked"]
    <3>1. d \in Commands /\ d.at = "panicked" /\ d.op = c.op /\ d.exposed = c.exposed
      BY <1>1 DEF Commands
    <3>2. calls' = [calls EXCEPT ![i] = d] /\ calls \in [Calls -> Commands]
      BY <2>3 DEF TypeOK
    <3> HIDE DEF d
    <3>3. CallOK(d)
      BY <1>1, <3>1, <2>1 DEF CallOK, Sends
    <3>4. calls'[i] = d
      BY <3>2
    <3>5. Panics(i)
      BY <2>1, <2>3, <3>1, <3>4 DEF Panics
    <3>6. QED
      BY <1>3, <3>1, <3>2, <3>3, <3>5 DEF Safe
  <2>4. \/ /\ client.conn = "none" /\ crash' = "noConnection"
           /\ calls' = [calls EXCEPT ![i].at = "panicked"]
        \/ /\ crash' = crash
           /\ \/ calls' = [calls EXCEPT ![i] = Answered(c, ErrorMsg(c))]
              \/ \E at \in {"creating", "sent", "stuck"} :
                    /\ calls' = [calls EXCEPT ![i] = Written(c, at)]
                    /\ at = "sent" => c.op \notin {"createFirst", "new"}
    BY <1>5 DEF Issue
  <2>5. QED
    BY <1>2, <1>4, <2>2, <2>3, <2>4
<1>11. ASSUME NEW msg \in {"sessionCreated", "sendDone", "rpcErr", "done"},
              c.at \notin {"none", "handled"}, c.op \in Sends => msg \in ClearsGate,
              calls' = [calls EXCEPT ![i] = Answered(c, msg)]
       PROVE  OneCall(i)
  <2>1. /\ Answered(c, msg) \in Commands /\ CallOK(Answered(c, msg))
        /\ Answered(c, msg).op = c.op /\ Answered(c, msg).at = "answered"
    BY <1>1, <1>11, AnsweredFields
  <2>2. QED
    BY <1>3, <1>11, <2>1 DEF Safe
<1>6. CASE Created(i)
  <2>1. c.at = "creating" /\ client.conn = "open"
    BY <1>6 DEF Created
  <2>6. crash' = crash
    BY <1>6 DEF Created
  <2>2. CASE calls' = [calls EXCEPT ![i] = Answered(@, "rpcErr")]
    <3>1. calls' = [calls EXCEPT ![i] = Answered(c, "rpcErr")]
      BY <2>2
    <3>2. QED
      BY <1>2, <1>3, <1>11, <2>1, <2>6, <3>1 DEF ClearsGate
  <2>3. CASE c.op = "new" /\ calls' = [calls EXCEPT ![i] = Answered(@, "sessionCreated")]
    <3>1. calls' = [calls EXCEPT ![i] = Answered(c, "sessionCreated")]
      BY <2>3
    <3>2. QED
      BY <1>2, <1>3, <1>11, <2>1, <2>6, <3>1 DEF ClearsGate
  <2>4. CASE calls' = [calls EXCEPT ![i] = [@ EXCEPT !.op = "sendFirst", !.at = "queued"]]
    <3> DEFINE d == [c EXCEPT !.op = "sendFirst", !.at = "queued"]
    <3>1. d \in Commands /\ d.at = "queued" /\ d.op = "sendFirst"
      BY <1>1 DEF Commands
    <3>2. calls' = [calls EXCEPT ![i] = d]
      BY <2>4
    <3>3. CallOK(d) /\ d.op \in Sends
      BY <3>1 DEF CallOK, Sends
    <3> HIDE DEF d
    <3>4. QED
      BY <1>2, <1>3, <2>1, <2>6, <3>1, <3>2, <3>3 DEF HasConn
  <2>5. QED
    BY <1>6, <2>2, <2>3, <2>4 DEF Created
<1>7. CASE Answer(i)
  <2>1. c.at = "sent" /\ c.op \in {"send", "sendFirst", "rpc"}
    BY <1>1, <1>7 DEF Answer, CallOK
  <2>4. crash' = crash
    BY <1>7 DEF Answer
  <2>2. CASE calls' = [calls EXCEPT ![i] = Answered(c, Success[c.op])]
    <3>1. /\ Success[c.op] \in {"sessionCreated", "sendDone", "rpcErr", "done"}
          /\ c.op \in Sends => Success[c.op] \in ClearsGate
      BY <2>1 DEF Success, Sends, ClearsGate
    <3>2. QED
      BY <1>2, <1>11, <2>1, <2>2, <2>4, <3>1
  <2>3. QED
    BY <1>2, <1>4, <1>7, <2>2, <2>4 DEF Answer
<1>8. CASE Timeout(i)
  <2>1. calls' = [calls EXCEPT ![i] = Answered(c, ErrorMsg(c))]
    BY <1>8 DEF Timeout
  <2>2. crash' = crash
    BY <1>8 DEF Timeout
  <2>3. QED
    BY <1>2, <1>4, <2>1, <2>2
<1>9. QED
  BY <1>5, <1>6, <1>7, <1>8

-----------------------------------------------------------------------------
(* What a step does to the calls, and to the client.                        *)

\* Every call stays what it may be; a message under way stays one, and is not over.
CallsMove ==
    /\ calls' \in [Calls -> Commands]
    /\ \A i \in Calls :
          /\ CallOK(calls'[i])
          /\ Safe(calls'[i]) => HasConn(i)
          /\ calls[i].op \in Sends /\ calls[i].at # "handled" =>
                calls'[i].op \in Sends /\ calls'[i].at # "handled"

LEMMA CallsStay ==
    ASSUME TypeOK, \A i \in Calls : CallOK(calls[i]), UNCHANGED calls
    PROVE  CallsMove
BY DEF TypeOK, CallsMove, HasConn

LEMMA OneCallMoves ==
    ASSUME TypeOK, \A j \in Calls : CallOK(calls[j]), NEW i \in Calls, OneCall(i)
    PROVE  CallsMove
<1>1. PICK c \in Commands :
          /\ calls' = [calls EXCEPT ![i] = c] /\ CallOK(c)
          /\ calls[i].op \in Sends => c.op \in Sends
          /\ c.at # "handled" /\ (Safe(c) => HasConn(i))
  BY DEF OneCall
<1>2. calls \in [Calls -> Commands]
  BY DEF TypeOK
<1>3. calls' \in [Calls -> Commands] /\ calls'[i] = c /\ \A j \in Calls : j # i => calls'[j] = calls[j]
  BY <1>1, <1>2
<1>4. QED
  BY <1>1, <1>3 DEF CallsMove, HasConn

LEMMA StartMoves ==
    ASSUME TypeOK, \A i \in Calls : CallOK(calls[i]),
           NEW op \in Sends \cup {"new", "rpc"}, Start(op)
    PROVE  /\ CallsMove
           /\ \E i \in Calls : calls'[i].op = op /\ calls'[i].at = "queued"
<1> DEFINE c == [NoCall EXCEPT !.op = op, !.at = "queued", !.exposed = ui.state # "ready"]
<1>1. PICK i \in Calls : calls[i].at = "none" /\ calls' = [calls EXCEPT ![i] = c]
  BY DEF Start
<1>2. c \in Commands /\ c.op = op /\ c.at = "queued" /\ (~c.exposed => ui.state = "ready")
  BY DEF NoCall, Commands, Sends
<1> HIDE DEF c
<1>3. CallOK(c)
  BY <1>2 DEF CallOK, Sends
<1>4. calls[i].op \notin Sends
  BY <1>1 DEF CallOK, Sends
<1>5. OneCall(i)
  BY <1>1, <1>2, <1>3, <1>4 DEF OneCall, Safe, HasConn
<1>6. calls'[i] = c
  BY <1>1 DEF TypeOK
<1>7. QED
  BY <1>2, <1>5, <1>6, OneCallMoves

\* The calls, when each of them moves for itself.
LEMMA EachMoves ==
    ASSUME NEW f, calls' = [i \in Calls |-> f[i]],
           \A i \in Calls :
              /\ f[i] \in Commands /\ CallOK(f[i]) /\ (Safe(f[i]) => HasConn(i))
              /\ calls[i].op \in Sends /\ calls[i].at # "handled" =>
                    f[i].op \in Sends /\ f[i].at # "handled"
    PROVE  CallsMove
<1>1. \A i \in Calls : calls'[i] = f[i]
  OBVIOUS
<1>2. calls' \in [Calls -> Commands]
  OBVIOUS
<1>3. QED
  BY <1>1, <1>2 DEF CallsMove

\* The end of a readLoop ends the calls under way.
LEMMA LoopEndsMoves ==
    ASSUME TypeOK, \A i \in Calls : CallOK(calls[i]), NEW twice, LoopEnds(twice)
    PROVE  CallsMove
<1> DEFINE f == [i \in Calls |-> IF InFlight(i) THEN Answered(calls[i], ErrorMsg(calls[i]))
                                                ELSE calls[i]]
<1>1. calls' = [i \in Calls |-> f[i]]
  BY DEF LoopEnds
<1>2. ASSUME NEW i \in Calls
      PROVE  /\ f[i] \in Commands /\ CallOK(f[i]) /\ (Safe(f[i]) => HasConn(i))
             /\ calls[i].op \in Sends /\ calls[i].at # "handled" =>
                   f[i].op \in Sends /\ f[i].at # "handled"
  <2>1. calls[i] \in Commands /\ CallOK(calls[i])
    BY DEF TypeOK
  <2>2. CASE InFlight(i)
    <3>1. calls[i].at \notin {"none", "handled"}
      BY <2>2 DEF InFlight
    <3>2. f[i] = Answered(calls[i], ErrorMsg(calls[i]))
      BY <2>2
    <3> HIDE DEF f
    <3>3. f[i] \in Commands /\ f[i].op = calls[i].op /\ f[i].at = "answered" /\ CallOK(f[i])
      BY <2>1, <3>1, <3>2, ErrorFields
    <3>4. QED
      BY <3>3 DEF Safe
  <2>3. CASE ~InFlight(i)
    <3>1. f[i] = calls[i]
      BY <2>3
    <3> HIDE DEF f
    <3>2. QED
      BY <2>1, <3>1 DEF HasConn
  <2>4. QED
    BY <2>2, <2>3
<1> HIDE DEF f
<1>3. QED
  BY <1>1, <1>2, EachMoves

\* A new client exposes the calls that have not been written.
LEMMA DisconnectedMoves ==
    ASSUME TypeOK, \A i \in Calls : CallOK(calls[i]), Disconnected
    PROVE  CallsMove /\ \A i \in Calls : ~Safe(calls'[i])
<1> DEFINE f == [i \in Calls |-> [calls[i] EXCEPT !.exposed = @ \/ calls[i].at = "queued"]]
<1>1. calls' = [i \in Calls |-> f[i]]
  BY DEF Disconnected
<1>2. ASSUME NEW i \in Calls
      PROVE  /\ f[i] \in Commands /\ CallOK(f[i]) /\ ~Safe(f[i])
             /\ calls[i].op \in Sends /\ calls[i].at # "handled" =>
                   f[i].op \in Sends /\ f[i].at # "handled"
  <2> DEFINE x == calls[i].exposed \/ calls[i].at = "queued"
  <2>1. calls[i] \in Commands /\ CallOK(calls[i])
    BY DEF TypeOK
  <2>2. f[i] = [calls[i] EXCEPT !.exposed = x] /\ x \in BOOLEAN
    BY <2>1 DEF Commands
  <2> HIDE DEF f, x
  <2>3. /\ f[i] \in Commands /\ f[i].op = calls[i].op /\ f[i].at = calls[i].at
        /\ f[i].msg = calls[i].msg /\ f[i].exposed = x
    BY <2>1, <2>2 DEF Commands
  <2>4. CallOK(f[i])
    BY <2>1, <2>3 DEF CallOK
  <2>5. ~Safe(f[i])
    BY <2>3 DEF Safe, x
  <2>6. QED
    BY <2>3, <2>4, <2>5
<1> HIDE DEF f
<1>3. CallsMove
  BY <1>1, <1>2, EachMoves
<1>4. QED
  BY <1>1, <1>2, <1>3

\* Nothing but a lost subscription, or a panic, keeps an event from its place behind the
\* others.
LEMMA EmitFields ==
    ASSUME TypeOK, NEW e \in Events, Emit(e)
    PROVE  /\ client' \in Clients /\ client'.conn = client.conn
           /\ client'.open = client.open /\ client'.subscribed = client.subscribed
           /\ client'.old = client.old /\ client'.joined = client.joined
           /\ \/ client.subscribed /\ client'.events = Append(client.events, e) /\ crash' = crash
              \/ ~client.subscribed /\ client' = client /\ crash' = crash
              \/ client.joined > 0 /\ client' = client /\ crash' = crash
              \/ ~client.open /\ client.subscribed /\ client' = client /\ crash' = "closedChannel"
<1> client \in Clients
  BY DEF TypeOK
<1> DEFINE q == Append(client.events, e)
<1>1. CASE client.subscribed /\ client' = [client EXCEPT !.events = q] /\ crash' = crash
  <2>1. q \in Seq(Events)
    BY DEF Clients
  <2> HIDE DEF q
  <2>2. /\ client' \in Clients /\ client'.events = q /\ client'.conn = client.conn
        /\ client'.open = client.open /\ client'.subscribed = client.subscribed
        /\ client'.old = client.old /\ client'.joined = client.joined
    BY <1>1, <2>1 DEF Clients
  <2>3. QED
    BY <1>1, <2>2 DEF q
<1>2. CASE client.subscribed /\ ~client.open /\ client' = client /\ crash' = "closedChannel"
  BY <1>2
<1>3. CASE (~client.subscribed \/ client.joined > 0) /\ client' = client /\ crash' = crash
  BY <1>3
<1>4. QED
  BY <1>1, <1>2, <1>3 DEF Emit

\* The message of this client that a run is the answer to.
LEMMA RunStartsMoves ==
    ASSUME TypeOK, \A i \in Calls : CallOK(calls[i]), NEW r \in Runs, RunStarts(r)
    PROVE  CallsMove
<1>1. CASE UNCHANGED calls
  BY <1>1, CallsStay
<1>2. CASE ~UNCHANGED calls
  <2>1. PICK i \in Calls : calls[i].at = "sent" /\ calls' = [calls EXCEPT ![i].run = r]
    BY <1>2 DEF RunStarts
  <2> DEFINE c == calls[i]
             d == [c EXCEPT !.run = r]
  <2>2. c \in Commands
    BY DEF TypeOK
  <2>3. d \in Commands /\ d.op = c.op /\ d.at = c.at /\ d.msg = c.msg
    BY <2>2 DEF Commands, Runs
  <2>4. calls' = [calls EXCEPT ![i] = d]
    BY <2>1
  <2> HIDE DEF d
  <2>5. CallOK(d) /\ d.at # "handled" /\ ~Safe(d)
    BY <2>1, <2>3 DEF CallOK, Safe
  <2>6. OneCall(i)
    BY <2>3, <2>4, <2>5 DEF OneCall
  <2>7. QED
    BY <2>6, OneCallMoves
<1>3. QED
  BY <1>1, <1>2

-----------------------------------------------------------------------------
(* Types, and where the calls are.                                          *)

CallsOK == TypeOK /\ \A i \in Calls : CallOK(calls[i])

\* The other conjuncts of TypeOK, for the steps of which CallsMove says what happens to the
\* calls.
LEMMA TypesFrom ==
    ASSUME CallsMove, ui' \in Models, ui'.mode = "perm" => ui'.perm # None, client' \in Clients,
           connector' \in {"dialing", "subscribing", "connected", "failed", "idle", "waiting"},
           runs' \in [Runs -> {"none", "announced", "running", "finished"}],
           crash' \in {None, "noConnection", "closedChannel"},
           announced' \subseteq ChildRuns, reused' \in BOOLEAN
    PROVE  CallsOK'
BY DEF CallsMove, CallsOK, TypeOK

LEMMA LinkTypes ==
    ASSUME CallsOK, Link
    PROVE  CallsOK' /\ CallsMove
<1> USE DEF CallsOK, TypeOK
<1>1. CallsMove /\ UNCHANGED <<runs, crash>> /\ announced' \in {announced, {}} /\ reused' \in {reused, TRUE}
  <2>1. UNCHANGED <<calls, runs, crash>> /\ announced' \in {announced, {}} /\ reused' \in {reused, TRUE}
    BY DEF Link, Connect, DialFails, Subscribe, SubscribeFails, Connected, ConnectFailed, Reconnect, history
  <2>2. QED
    BY <2>1, CallsStay
<1>2. connector' \in {"dialing", "subscribing", "connected", "failed", "idle", "waiting"}
  BY DEF Link, Connect, DialFails, Subscribe, SubscribeFails, Connected, ConnectFailed, Reconnect, Retries
<1>3. client' \in Clients
  <2>1. CASE Connect
    <3> DEFINE n == IF client.conn = "open" THEN client.old + client.joined + 1 ELSE client.old
    <3>1. n \in Nat
      BY DEF Clients
    <3>2. client' = [client EXCEPT !.conn = "open", !.subscribed = FALSE, !.joined = 0, !.old = n]
      BY <2>1 DEF Connect
    <3> HIDE DEF n
    <3>3. QED
      BY <3>1, <3>2 DEF Clients
  <2>2. CASE Subscribe
    BY <2>2 DEF Subscribe, Clients
  <2>3. CASE ~Connect /\ ~Subscribe
    BY <2>3 DEF Link, DialFails, SubscribeFails, Connected, ConnectFailed, Reconnect
  <2>4. QED
    BY <2>1, <2>2, <2>3
<1>4. ui' \in Models /\ (ui'.mode = "perm" => ui'.perm # None)
  <2>1. ui' = ui \/ \E s \in {"connecting", "ready", "disconnected"} : ui' = [ui EXCEPT !.state = s]
    BY DEF Link, Connect, DialFails, Subscribe, SubscribeFails, Connected, ConnectFailed, Reconnect
  <2>2. QED
    BY <2>1 DEF Models
<1>5. QED
  BY <1>1, <1>2, <1>3, <1>4, TypesFrom

\* What a step that loses a connection, or a readLoop, leaves of the client.
LEMMA LossFields ==
    ASSUME CallsOK, Drop \/ OldLoopEnds \/ OldLoopReads \/ CutOff
    PROVE  /\ client' \in Clients
           /\ client'.conn = IF Drop THEN "lost" ELSE client.conn
           /\ client'.open = IF Drop \/ OldLoopEnds THEN FALSE ELSE client.open
           /\ client'.subscribed => client.subscribed /\ ~Drop
           /\ client'.events = client.events \/ (Drop /\ (client.events = <<>> => client'.events = <<>>))
           /\ client'.old <= client.old /\ (client.old = 0 => client'.joined <= client.joined)
<1> client \in Clients
  BY DEF CallsOK, TypeOK
<1>1. CASE Drop
  <2>1. PICK n \in 0..Len(client.events) :
          client' = [client EXCEPT !.conn = "lost", !.open = FALSE, !.subscribed = FALSE,
                                   !.joined = 0, !.events = SubSeq(@, 1, n)]
    BY <1>1 DEF Drop
  <2> DEFINE q == SubSeq(client.events, 1, n)
  <2>2. q \in Seq(Events)
    BY SubSeqProperties DEF Clients
  <2>3. client.events = <<>> => q = <<>>
    BY SubSeqProperties, EmptySeq DEF Clients
  <2>4. client' = [client EXCEPT !.conn = "lost", !.open = FALSE, !.subscribed = FALSE,
                                 !.joined = 0, !.events = q]
    BY <2>1
  <2> HIDE DEF q
  <2>5. /\ client' \in Clients /\ client'.conn = "lost" /\ client'.open = FALSE
        /\ client'.subscribed = FALSE /\ client'.joined = 0 /\ client'.events = q
        /\ client'.old = client.old
    BY <2>2, <2>4 DEF Clients
  <2>6. client.old \in Nat /\ client.joined \in Nat
    BY DEF Clients
  <2>7. client'.old <= client.old /\ client'.joined <= client.joined
    BY <2>5, <2>6
  <2>8. QED
    BY <1>1, <2>3, <2>5, <2>7
<1>2. CASE OldLoopEnds /\ ~Drop
  <2> DEFINE n == client.old - 1
  <2>1. n \in Nat /\ n <= client.old /\ client' = [client EXCEPT !.open = FALSE, !.old = n]
    BY <1>2 DEF OldLoopEnds, Clients
  <2> HIDE DEF n
  <2>2. /\ client' \in Clients /\ client'.conn = client.conn /\ client'.open = FALSE
        /\ client'.subscribed = client.subscribed /\ client'.events = client.events
        /\ client'.old = n /\ client'.joined = client.joined
    BY <2>1 DEF Clients
  <2>3. client.joined \in Nat
    BY DEF Clients
  <2>4. QED
    BY <1>2, <2>1, <2>2, <2>3
<1>3. CASE OldLoopReads /\ ~Drop /\ ~OldLoopEnds
  <2> DEFINE n == client.old - 1
             m == client.joined + 1
  <2>1. /\ n \in Nat /\ n <= client.old /\ m \in Nat /\ client.old # 0
        /\ client' = [client EXCEPT !.old = n, !.joined = m]
    BY <1>3 DEF OldLoopReads, Clients
  <2> HIDE DEF n, m
  <2>2. /\ client' \in Clients /\ client'.conn = client.conn /\ client'.open = client.open
        /\ client'.subscribed = client.subscribed /\ client'.events = client.events
        /\ client'.old = n /\ client'.joined = m
    BY <2>1 DEF Clients
  <2>3. QED
    BY <1>3, <2>1, <2>2
<1>4. CASE CutOff /\ ~Drop /\ ~OldLoopEnds
  <2>1. client' = [client EXCEPT !.subscribed = FALSE]
    BY <1>4 DEF CutOff
  <2>2. /\ client' \in Clients /\ client'.conn = client.conn /\ client'.open = client.open
        /\ client'.subscribed = FALSE /\ client'.events = client.events
        /\ client'.old = client.old /\ client'.joined = client.joined
    BY <2>1 DEF Clients
  <2>3. client.old \in Nat /\ client.joined \in Nat
    BY DEF Clients
  <2>4. client'.old <= client.old /\ client'.joined <= client.joined
    BY <2>2, <2>3
  <2>5. QED
    BY <1>4, <2>2, <2>4
<1>5. QED
  BY <1>1, <1>2, <1>3, <1>4

LEMMA LossTypes ==
    ASSUME CallsOK, crash = None, Loss
    PROVE  CallsOK' /\ CallsMove
<1> USE DEF CallsOK, TypeOK
<1>1. CASE Drop \/ OldLoopEnds
  <2>1. PICK twice \in BOOLEAN : LoopEnds(twice)
    BY <1>1 DEF Drop, OldLoopEnds, Clients
  <2>2. CallsMove
    BY <2>1, LoopEndsMoves
  <2>3. client' \in Clients
    BY <1>1, LossFields
  <2>4. UNCHANGED <<ui, runs, announced>> /\ reused' \in BOOLEAN
    BY <2>1 DEF LoopEnds
  <2>5. connector' \in {connector, "failed"} /\ crash' \in {crash, "closedChannel"}
    BY <2>1 DEF LoopEnds
  <2>6. QED
    BY <2>2, <2>3, <2>4, <2>5, TypesFrom
<1>2. CASE OldLoopReads \/ CutOff
  <2>1. UNCHANGED <<ui, connector, calls, runs, announced, reused>> /\ crash' \in {crash, "closedChannel"}
    BY <1>2 DEF OldLoopReads, CutOff, history
  <2>2. client' \in Clients
    BY <1>2, LossFields
  <2>3. CallsMove
    BY <2>1, CallsStay
  <2>4. QED
    BY <2>1, <2>2, <2>3, TypesFrom
<1>3. CASE Disconnected
  <2>1. UNCHANGED runs /\ announced' = {} /\ reused' \in BOOLEAN /\ connector' = "waiting"
    BY <1>3 DEF Disconnected, history
  <2>2. client' \in Clients
    BY <1>3 DEF Disconnected, NewClient, Clients
  <2>3. ui' \in Models /\ ui'.mode = ui.mode /\ ui'.perm = ui.perm
    BY <1>3, DisconnectFields DEF Disconnected
  <2>4. CallsMove
    BY <1>3, DisconnectedMoves
  <2>5. crash' \in {crash, "closedChannel"}
    BY <1>3 DEF Disconnected
  <2>6. QED
    BY <2>1, <2>2, <2>3, <2>4, <2>5, TypesFrom
<1>4. QED
  BY <1>1, <1>2, <1>3 DEF Loss

\* What a key starts, and what it does to the model.
LEMMA KeysTypes ==
    ASSUME CallsOK, Keys
    PROVE  /\ CallsOK' /\ CallsMove
           /\ UNCHANGED <<client, connector, runs, crash, history>>
           /\ ui'.state = ui.state /\ ui'.current = ui.current /\ ui'.subs = ui.subs
           /\ \/ ui'.awaiting = ui.awaiting
              \/ \E i \in Calls : calls'[i].op \in Sends /\ calls'[i].at # "handled"
           /\ ui'.pending \ {ui'.perm} = ui.pending \ {ui.perm}
<1> USE DEF CallsOK
<1>1. ui \in Models /\ (ui.mode = "perm" => ui.perm # None)
  BY DEF TypeOK
<1>2. UNCHANGED <<client, connector, runs, crash, history>>
  BY DEF Keys, Enter, Command, Abort, Pick
<1>3. CASE Enter
  <2>1. Start(IF ui.session THEN "send" ELSE "createFirst")
    BY <1>3 DEF Enter
  <2>2. PICK op \in Sends : Start(op)
    BY <2>1 DEF Sends
  <2>3. CallsMove /\ \E i \in Calls : calls'[i].op \in Sends /\ calls'[i].at # "handled"
    BY <2>2, StartMoves
  <2>4. ui' = [ui EXCEPT !.awaiting = TRUE]
    BY <1>3 DEF Enter
  <2>5. /\ ui' \in Models /\ ui'.mode = ui.mode /\ ui'.perm = ui.perm /\ ui'.pending = ui.pending
        /\ ui'.state = ui.state /\ ui'.current = ui.current /\ ui'.subs = ui.subs
    BY <1>1, <2>4 DEF Models
  <2>6. CallsOK'
    BY <1>1, <1>2, <2>3, <2>5, TypesFrom DEF TypeOK, history
  <2>7. QED
    BY <1>2, <2>3, <2>5, <2>6
<1>4. CASE Command
  <2>1. UNCHANGED ui /\ CallsMove
    BY <1>4, StartMoves DEF Command
  <2>2. CallsOK'
    BY <1>1, <1>2, <2>1, TypesFrom DEF TypeOK, history
  <2>3. QED
    BY <1>2, <2>1, <2>2
<1>5. CASE Abort \/ Pick
  <2>1. CallsMove
    BY <1>5, StartMoves DEF Abort, Pick
  <2>2. ui' = ui \/ ui' = ExitPermMode(ui)
    BY <1>5 DEF Abort, Pick
  <2>3. /\ ui' \in Models /\ (ui'.mode = "perm" => ui'.perm # None)
        /\ ui'.state = ui.state /\ ui'.current = ui.current /\ ui'.subs = ui.subs
        /\ ui'.awaiting = ui.awaiting
        /\ ui'.pending \ {ui'.perm} = ui.pending \ {ui.perm}
    <3>1. CASE ui' = ui
      BY <1>1, <3>1
    <3>2. CASE ui' = ExitPermMode(ui)
      <4>1. /\ ui'.mode = "input" /\ ui'.perm = None /\ ui'.pending = ui.pending \ {ui.perm}
            /\ ui' \in Models
            /\ ui'.state = ui.state /\ ui'.current = ui.current /\ ui'.subs = ui.subs
            /\ ui'.awaiting = ui.awaiting
        BY <1>1, <3>2, ExitFields
      <4>2. None \notin ui.pending
        BY <1>1 DEF Models
      <4>3. QED
        BY <4>1, <4>2
    <3>3. QED
      BY <2>2, <3>1, <3>2
  <2>4. CallsOK'
    BY <1>1, <1>2, <2>1, <2>3, TypesFrom DEF TypeOK, history
  <2>5. QED
    BY <1>2, <2>1, <2>3, <2>4
<1>6. QED
  BY <1>3, <1>4, <1>5 DEF Keys

\* HandleEvent is a step of the model alone.
LEMMA HandleTypes ==
    ASSUME CallsOK, HandleEvent
    PROVE  /\ CallsOK' /\ CallsMove
           /\ UNCHANGED <<connector, calls, runs, crash, history>>
           /\ ui.state = "ready"
           /\ client.events \in Seq(Events) /\ client.events # <<>>
           /\ Head(client.events) \in Events
           /\ ui' = AfterEvent(ui, Head(client.events))
           /\ client'.events = Tail(client.events) /\ client'.conn = client.conn
           /\ client'.open = client.open /\ client'.subscribed = client.subscribed
           /\ client'.old = client.old /\ client'.joined = client.joined
<1> USE DEF CallsOK
<1>1. ui \in Models /\ client \in Clients
  BY DEF TypeOK
<1> DEFINE q == Tail(client.events)
           e == Head(client.events)
<1>2. client.events \in Seq(Events) /\ client.events # <<>> /\ e \in Events /\ q \in Seq(Events)
  <2>1. client.events \in Seq(Events) /\ client.events # <<>>
    BY <1>1 DEF HandleEvent, Clients
  <2>2. QED
    BY <2>1, HeadTailProperties
<1>3. /\ client' = [client EXCEPT !.events = q] /\ ui' = AfterEvent(ui, e) /\ ui.state = "ready"
      /\ UNCHANGED <<connector, calls, runs, crash, history>>
  BY DEF HandleEvent
<1> HIDE DEF q, e
<1>4. client' \in Clients /\ client'.events = q /\ client'.conn = client.conn
      /\ client'.open = client.open /\ client'.subscribed = client.subscribed
      /\ client'.old = client.old /\ client'.joined = client.joined
  BY <1>1, <1>2, <1>3 DEF Clients
<1>5. (ui.mode = "perm" => ui.perm # None) => (ui'.mode = "perm" => ui'.perm # None)
  BY <1>1, <1>2, <1>3, EventFields
<1>6. CallsMove
  BY <1>3, CallsStay
<1>7. ui' \in Models
  BY <1>1, <1>2, <1>3, EventFields
<1>8. CallsOK'
  BY <1>3, <1>4, <1>5, <1>6, <1>7, TypesFrom DEF TypeOK, history
<1>9. QED
  BY <1>2, <1>3, <1>4, <1>6, <1>8 DEF q, e

\* A step of the server: one event, and the run it is about.
LEMMA ServerTypes ==
    ASSUME CallsOK, crash = None, Server
    PROVE  /\ CallsOK' /\ CallsMove
           /\ UNCHANGED <<ui, connector, reused>>
           /\ \E e \in Events : Emit(e)
<1> USE DEF CallsOK
<1>1. ASSUME NEW e \in Events, Emit(e), CallsMove, UNCHANGED <<ui, connector, reused>>,
             runs' \in [Runs -> {"none", "announced", "running", "finished"}],
             announced' \subseteq ChildRuns
      PROVE  /\ CallsOK' /\ CallsMove
             /\ UNCHANGED <<ui, connector, reused>>
             /\ \E f \in Events : Emit(f)
  <2>1. client' \in Clients
    BY <1>1, EmitFields
  <2>2. crash' \in {None, "noConnection", "closedChannel"}
    BY <1>1, EmitFields
  <2>3. CallsOK'
    BY <1>1, <2>1, <2>2, TypesFrom DEF TypeOK
  <2>4. QED
    BY <1>1, <2>3
<1>2. ASSUME NEW r \in Runs, RunStarts(r) \/ ChildStarts(r) \/ RunFinishes(r)
      PROVE  /\ CallsMove /\ \E t \in {"run.started", "run.finished"} : Emit(Event(t, r))
             /\ UNCHANGED <<ui, connector, announced, reused>>
             /\ \E s \in {"running", "finished"} : runs' = [runs EXCEPT ![r] = s]
  <2>1. CallsMove
    BY <1>2, RunStartsMoves, CallsStay DEF ChildStarts, RunFinishes
  <2>2. QED
    BY <1>2, <2>1 DEF RunStarts, ChildStarts, RunFinishes, history
<1>3. ASSUME NEW r \in Runs, NEW t \in {"run.started", "run.finished"}
      PROVE  Event(t, r) \in Events
  BY DEF Events, Event
<1>4. CASE \E r \in Runs : RunStarts(r) \/ ChildStarts(r) \/ RunFinishes(r)
  <2>1. PICK r \in Runs : RunStarts(r) \/ ChildStarts(r) \/ RunFinishes(r)
    BY <1>4
  <2>2. PICK t \in {"run.started", "run.finished"} : Emit(Event(t, r))
    BY <1>2, <2>1
  <2>3. CallsMove /\ UNCHANGED <<ui, connector, announced, reused>>
        /\ \E s \in {"running", "finished"} : runs' = [runs EXCEPT ![r] = s]
    BY <1>2, <2>1
  <2>4. runs' \in [Runs -> {"none", "announced", "running", "finished"}] /\ announced' \subseteq ChildRuns
    BY <2>3 DEF TypeOK
  <2>5. Event(t, r) \in Events
    BY <1>3
  <2>6. QED
    BY <1>1, <2>2, <2>3, <2>4, <2>5
<1>5. CASE \E r \in Runs : Spawn(r)
  <2>1. PICK r \in Runs : Spawn(r)
    BY <1>5
  <2>2. r \in ChildRuns /\ Emit(Event("subagent.started", r)) /\ UNCHANGED <<ui, connector, calls, reused>>
        /\ runs' = [runs EXCEPT ![r] = "announced"]
        /\ announced' \in {announced, announced \cup {r}}
    BY <2>1 DEF Spawn
  <2>3. Event("subagent.started", r) \in Events
    BY <2>2 DEF Events, Event
  <2>4. runs' \in [Runs -> {"none", "announced", "running", "finished"}] /\ announced' \subseteq ChildRuns
    BY <2>2 DEF TypeOK
  <2>5. CallsMove
    BY <2>2, CallsStay
  <2>6. QED
    BY <1>1, <2>2, <2>3, <2>4, <2>5
<1>6. CASE \E a \in Asks : Ask(a) \/ Decide(a)
  <2>1. PICK a \in Asks : Ask(a) \/ Decide(a)
    BY <1>6
  <2>2. PICK t \in {"permission.requested", "permission.decided"} : Emit(Event(t, a))
    BY <2>1 DEF Ask, Decide
  <2>3. UNCHANGED <<ui, connector, calls, runs, announced, reused>>
    BY <2>1 DEF Ask, Decide, history
  <2>4. Event(t, a) \in Events
    BY DEF Events, Event
  <2>5. CallsMove
    BY <2>3, CallsStay
  <2>6. QED
    BY <1>1, <2>2, <2>3, <2>4, <2>5 DEF TypeOK
<1>7. QED
  BY <1>4, <1>5, <1>6 DEF Server

LEMMA GoroutineTypes ==
    ASSUME CallsOK, crash = None, NEW i \in Calls, Goroutine(i), ~HandleResult(i)
    PROVE  /\ CallsOK' /\ CallsMove
           /\ UNCHANGED <<ui, client, connector, runs, history>>
           /\ crash' = crash \/ Panics(i)
<1> USE DEF CallsOK
<1>1. /\ calls' = calls \/ OneCall(i)
      /\ UNCHANGED <<ui, client, connector, runs, history>>
      /\ crash' = crash \/ Panics(i)
  BY GoroutineEffect DEF Goroutine
<1>2. CallsMove
  BY <1>1, CallsStay, OneCallMoves
<1>4. crash' \in {crash, "noConnection"}
  BY <1>1 DEF Panics
<1>3. CallsOK'
  BY <1>1, <1>2, <1>4, TypesFrom DEF TypeOK, history
<1>5. QED
  BY <1>1, <1>2, <1>3

\* The result of a command is handled: the one step that ends a message of this client.
LEMMA ResultTypes ==
    ASSUME CallsOK, NEW i \in Calls, HandleResult(i)
    PROVE  /\ CallsOK'
           /\ UNCHANGED <<client, connector, runs, crash, history>>
           /\ ui'.state = ui.state /\ ui'.current = ui.current /\ ui'.subs = ui.subs
           /\ ui'.pending = ui.pending /\ ui'.perm = ui.perm
           /\ ui'.awaiting => ui.awaiting /\ calls[i].op \notin Sends
           /\ \A j \in Calls : j # i => calls'[j] = calls[j]
           /\ ~Safe(calls'[i])
<1> USE DEF CallsOK
<1>1. ui \in Models /\ (ui.mode = "perm" => ui.perm # None) /\ calls \in [Calls -> Commands]
      /\ CallOK(calls[i])
  BY DEF TypeOK
<1> DEFINE w == ui.awaiting /\ calls[i].msg \notin ClearsGate
           s == ui.session \/ calls[i].msg = "sessionCreated"
           d == [NoCall EXCEPT !.at = "handled"]
<1>2. w \in BOOLEAN /\ s \in BOOLEAN
  BY <1>1 DEF Models
<1>3. /\ ui' = [ui EXCEPT !.awaiting = w, !.session = s]
      /\ calls' = [calls EXCEPT ![i] = d]
      /\ UNCHANGED <<client, connector, runs, crash, history>>
      /\ calls[i].at = "answered"
  BY DEF HandleResult
<1>4. d \in Commands /\ CallOK(d) /\ ~Safe(d)
  BY DEF NoCall, Commands, CallOK, Safe
<1>5. w => ui.awaiting /\ calls[i].op \notin Sends
  BY <1>1, <1>3 DEF CallOK
<1> HIDE DEF w, s, d
<1>6. /\ ui' \in Models /\ ui'.mode = ui.mode /\ ui'.perm = ui.perm /\ ui'.pending = ui.pending
      /\ ui'.state = ui.state /\ ui'.current = ui.current /\ ui'.subs = ui.subs
      /\ ui'.awaiting = w
  BY <1>1, <1>2, <1>3 DEF Models
<1>7. /\ calls' \in [Calls -> Commands] /\ \A j \in Calls : CallOK(calls'[j])
      /\ \A j \in Calls : j # i => calls'[j] = calls[j]
      /\ ~Safe(calls'[i])
  BY <1>1, <1>3, <1>4
<1>8. CallsOK'
  BY <1>1, <1>3, <1>6, <1>7 DEF TypeOK, history
<1>9. QED
  BY <1>3, <1>5, <1>6, <1>7, <1>8

LEMMA TypesStep ==
    ASSUME CallsOK, Next
    PROVE  CallsOK'
BY LinkTypes, LossTypes, KeysTypes, HandleTypes, ServerTypes, GoroutineTypes, ResultTypes DEF Next

-----------------------------------------------------------------------------
(* The gate.                                                                *)

LEMMA GateStep ==
    ASSUME CallsOK, GateTruth, Next
    PROVE  GateTruth'
<1>1. ASSUME CallsMove, ui'.awaiting => ui.awaiting
      PROVE  GateTruth'
  BY <1>1 DEF GateTruth, CallsMove, Sends
<1>2. CASE Link
  <2>1. ui' = ui \/ \E s \in {"connecting", "ready", "disconnected"} : ui' = [ui EXCEPT !.state = s]
    BY <1>2 DEF Link, Connect, DialFails, Subscribe, SubscribeFails, Connected, ConnectFailed, Reconnect
  <2>2. ui'.awaiting => ui.awaiting
    BY <2>1 DEF CallsOK, TypeOK, Models
  <2>3. QED
    BY <1>1, <1>2, <2>2, LinkTypes
<1>3. CASE Loss
  <2>1. CallsMove
    BY <1>3, LossTypes DEF Next
  <2>2. ui'.awaiting => ui.awaiting
    BY <1>3, DisconnectFields
    DEF Loss, Drop, OldLoopEnds, LoopEnds, OldLoopReads, CutOff, Disconnected, CallsOK, TypeOK
  <2>3. QED
    BY <1>1, <2>1, <2>2
<1>4. CASE Keys
  <2>1. CASE ui'.awaiting = ui.awaiting
    BY <1>1, <1>4, <2>1, KeysTypes
  <2>2. CASE \E i \in Calls : calls'[i].op \in Sends /\ calls'[i].at # "handled"
    BY <2>2 DEF GateTruth, Sends
  <2>3. QED
    BY <1>4, <2>1, <2>2, KeysTypes
<1>5. CASE HandleEvent
  <2>1. CallsMove /\ ui' = AfterEvent(ui, Head(client.events)) /\ Head(client.events) \in Events
    BY <1>5, HandleTypes
  <2>2. ui'.awaiting = ui.awaiting
    BY <2>1, EventFields DEF CallsOK, TypeOK
  <2>3. QED
    BY <1>1, <2>1, <2>2
<1>6. CASE Server
  BY <1>1, <1>6, ServerTypes DEF Next
<1>7. ASSUME NEW i \in Calls, Goroutine(i)
      PROVE  GateTruth'
  <2>1. CASE ~HandleResult(i)
    BY <1>1, <1>7, <2>1, GoroutineTypes DEF Next
  <2>2. CASE HandleResult(i)
    <3>1. /\ ui'.awaiting => ui.awaiting /\ calls[i].op \notin Sends
          /\ \A j \in Calls : j # i => calls'[j] = calls[j]
      BY <2>2, ResultTypes
    <3>2. QED
      BY <3>1 DEF GateTruth, Sends
  <2>3. QED
    BY <2>1, <2>2
<1>8. QED
  BY <1>2, <1>3, <1>4, <1>5, <1>6, <1>7 DEF Next

-----------------------------------------------------------------------------
(* The connection, and the ways to panic.                                   *)

\* No step leaves an unexposed call without a client to write to.
LEMMA ExposedStep ==
    ASSUME CallsOK, crash = None, LinkOK, ExposedOK, Next
    PROVE  ExposedOK'
<1>1. client \in Clients
  BY DEF CallsOK, TypeOK
<1>2. CASE Disconnected
  BY <1>2, DisconnectedMoves DEF ExposedOK, CallsOK
<1>3. CASE ~Disconnected
  <2>1. client'.conn = client.conn \/ client'.conn # "none"
    <3>1. CASE Link
      BY <1>1, <3>1 DEF Link, Connect, DialFails, Subscribe, SubscribeFails, Connected, ConnectFailed,
                        Reconnect, Clients
    <3>2. CASE Loss
      BY <1>3, <3>2, LossFields DEF Loss
    <3>3. CASE Server
      BY <3>3, ServerTypes, EmitFields DEF CallsOK
    <3>4. CASE Keys \/ HandleEvent
      BY <3>4, KeysTypes, HandleTypes
    <3>5. ASSUME NEW i \in Calls, Goroutine(i)
          PROVE  client' = client
      BY <3>5, GoroutineTypes, ResultTypes
    <3>6. QED
      BY <3>1, <3>2, <3>3, <3>4, <3>5 DEF Next
  <2>2. ASSUME NEW i \in Calls, Safe(calls'[i])
        PROVE  HasConn(i)
    <3>1. CASE CallsMove
      BY <2>2, <3>1 DEF CallsMove
    <3>2. ASSUME NEW j \in Calls, HandleResult(j)
          PROVE  HasConn(i)
      BY <2>2, <3>2, ResultTypes DEF HasConn
    <3>3. CallsMove \/ \E j \in Calls : HandleResult(j)
      BY LinkTypes, LossTypes, KeysTypes, HandleTypes, ServerTypes, GoroutineTypes DEF Next
    <3>4. QED
      BY <3>1, <3>2, <3>3
  <2>3. ASSUME NEW i \in Calls, HasConn(i)
        PROVE  client.conn # "none"
    BY <2>3 DEF HasConn, ExposedOK, LinkOK
  <2>4. QED
    BY <2>1, <2>2, <2>3 DEF ExposedOK
<1>4. QED
  BY <1>2, <1>3

\* Enough for a step that leaves the connector and the client's connection alone.
LEMMA LinkFrom ==
    ASSUME LinkOK, UNCHANGED <<connector, reused>>, ui'.state = ui.state,
           client'.conn = client.conn, client'.open = client.open,
           client'.old = client.old, client'.joined = client.joined,
           client'.subscribed => client.subscribed,
           connector \notin {"connected", "idle"} => client'.events = <<>>,
           ui'.current = ui.current \/ connector = "idle"
    PROVE  LinkOK'
BY DEF LinkOK

LEMMA LinkStep ==
    ASSUME CallsOK, crash = None, LinkOK, ExposedOK, Next
    PROVE  (crash' = None => LinkOK') /\ PanicsExplained'
<1> USE DEF CallsOK
<1>1. client \in Clients /\ ui \in Models
  BY DEF TypeOK
<1>2. CASE UNCHANGED crash /\ LinkOK'
  BY <1>2 DEF PanicsExplained
<1>12. CASE crash' = "closedChannel" /\ reused'
  BY <1>12 DEF PanicsExplained
<1>3. CASE Link
  <2>1. UNCHANGED crash /\ (UNCHANGED reused \/ SubscribeFails)
    BY <1>3 DEF Link, Connect, DialFails, Subscribe, SubscribeFails, Connected, ConnectFailed, Reconnect, history
  <2>2. CASE Connect
    <3>1. /\ connector = "dialing" /\ connector' = "subscribing" /\ ui' = ui
          /\ client' = [client EXCEPT !.conn = "open", !.subscribed = FALSE, !.joined = 0,
                           !.old = IF client.conn = "open" THEN @ + client.joined + 1 ELSE @]
          /\ reused' = reused
      BY <2>2 DEF Connect, history
    <3>2. client'.conn = "open" /\ client'.events = client.events /\ client'.open = client.open
          /\ client'.subscribed = FALSE /\ client'.joined = 0
          /\ (client.conn # "open" => client'.old = client.old)
      BY <1>1, <3>1 DEF Clients
    <3>3. LinkOK'
      BY <2>1, <3>1, <3>2 DEF LinkOK
    <3>4. QED
      BY <1>2, <2>1, <3>3
  <2>3. CASE DialFails
    <3>1. LinkOK'
      BY <2>3 DEF DialFails, LinkOK, history
    <3>2. QED
      BY <1>2, <2>1, <3>1
  <2>8. CASE SubscribeFails
    <3>1. LinkOK'
      BY <2>8 DEF SubscribeFails, LinkOK
    <3>2. QED
      BY <1>2, <2>1, <3>1
  <2>4. CASE Subscribe
    <3>1. /\ connector = "subscribing" /\ connector' = "connected" /\ ui' = ui
          /\ client' = [client EXCEPT !.subscribed = TRUE] /\ client.conn = "open" /\ reused' = reused
      BY <2>4 DEF Subscribe
    <3>2. client'.conn = "open" /\ client'.open = client.open
          /\ client'.old = client.old /\ client'.joined = client.joined
      BY <1>1, <3>1 DEF Clients
    <3>3. LinkOK'
      BY <2>1, <3>1, <3>2 DEF LinkOK
    <3>4. QED
      BY <1>2, <2>1, <3>3
  <2>5. ASSUME NEW from \in {"connected", "failed", "waiting"},
               NEW to \in {"idle", "waiting", "dialing"},
               NEW s \in {"ready", "disconnected", "connecting"},
               connector = from, connector' = to, ui' = [ui EXCEPT !.state = s],
               from = "connected" <=> to = "idle", s = "ready" <=> to = "idle",
               UNCHANGED <<client, reused>>
        PROVE  LinkOK'
    <3>1. ui'.state = s /\ ui'.current = ui.current
      BY <1>1, <2>5 DEF Models
    <3>2. QED
      BY <2>5, <3>1 DEF LinkOK
  <2>6. CASE Connected \/ ConnectFailed \/ Reconnect
    <3>1. LinkOK'
      BY <2>5, <2>6 DEF Connected, ConnectFailed, Reconnect, Retries, history
    <3>2. QED
      BY <1>2, <2>1, <3>1
  <2>7. QED
    BY <1>3, <2>2, <2>3, <2>4, <2>6, <2>8 DEF Link
<1>4. CASE Drop
  <2>1. /\ client'.conn = "lost" /\ client'.open = FALSE /\ ~client'.subscribed
        /\ client'.old <= client.old /\ (client.old = 0 => client'.joined <= client.joined)
        /\ client.events = <<>> => client'.events = <<>>
        /\ client' \in Clients
    BY <1>4, LossFields
  <2>2. /\ client.conn = "open" /\ ui' = ui
        /\ crash' = IF ~client.open \/ client.joined > 0 THEN "closedChannel" ELSE crash
        /\ connector' = IF connector = "subscribing" THEN "failed" ELSE connector
        /\ reused' = (reused \/ connector = "subscribing")
    BY <1>4 DEF Drop, LoopEnds
  <2>3. ~reused => client'.old = 0 /\ client'.joined = 0
    BY <1>1, <2>1 DEF LinkOK, Clients
  <2>4. LinkOK'
    BY <2>1, <2>2, <2>3 DEF LinkOK
  <2>5. ~client.open \/ client.joined > 0 => reused'
    <3>1. client.joined > 0 => client.joined # 0
      BY <1>1 DEF Clients
    <3>2. QED
      BY <2>2, <3>1 DEF LinkOK
  <2>6. QED
    BY <1>2, <1>12, <2>2, <2>4, <2>5
<1>5. CASE OldLoopEnds
  <2>1. /\ client'.conn = client.conn \/ client'.conn = "lost"
        /\ client'.subscribed => client.subscribed
        /\ client'.events = client.events \/ (client.events = <<>> => client'.events = <<>>)
    BY <1>5, LossFields
  <2>2. /\ ui' = ui /\ crash' \in {crash, "closedChannel"}
        /\ connector' = IF connector = "subscribing" THEN "failed" ELSE connector
        /\ reused' = (reused \/ connector = "subscribing")
        /\ client' = [client EXCEPT !.open = FALSE, !.old = @ - 1] /\ client.old > 0
    BY <1>5 DEF OldLoopEnds, LoopEnds
  <2>3. client'.conn = client.conn
    BY <1>1, <2>2 DEF Clients
  <2>4. reused
    BY <2>2 DEF LinkOK
  <2>5. LinkOK'
    BY <2>1, <2>2, <2>3, <2>4 DEF LinkOK
  <2>6. QED
    BY <1>2, <1>12, <2>2, <2>4, <2>5
<1>13. CASE OldLoopReads \/ CutOff
  <2>1. /\ client'.conn = client.conn \/ client'.conn = "lost"
        /\ client'.subscribed => client.subscribed
        /\ client'.events = client.events \/ (client.events = <<>> => client'.events = <<>>)
    BY <1>13, LossFields
  <2>2. /\ UNCHANGED <<ui, connector, reused>> /\ crash' \in {crash, "closedChannel"}
        /\ client' = [client EXCEPT !.subscribed = FALSE]
              \/ client' = [client EXCEPT !.old = @ - 1, !.joined = @ + 1]
    BY <1>13 DEF OldLoopReads, CutOff, history
  <2>3. client'.conn = client.conn /\ client'.open = client.open
    BY <1>1, <2>2 DEF Clients
  <2>4. CASE reused
    <3>1. LinkOK'
      BY <2>1, <2>2, <2>3, <2>4 DEF LinkOK
    <3>2. QED
      BY <1>2, <1>12, <2>2, <2>4, <3>1
  <2>5. CASE ~reused
    <3>1. client.old = 0
      BY <2>5 DEF LinkOK
    <3>2. CutOff
      BY <1>13, <3>1 DEF OldLoopReads
    <3>3. client' = [client EXCEPT !.subscribed = FALSE] /\ crash' = crash
      BY <3>2 DEF CutOff
    <3>4. client'.old = client.old /\ client'.joined = client.joined
      BY <1>1, <3>3 DEF Clients
    <3>5. LinkOK'
      BY <2>1, <2>2, <2>3, <3>4 DEF LinkOK
    <3>6. QED
      BY <1>2, <3>3, <3>5
  <2>6. QED
    BY <2>4, <2>5
<1>6. CASE Disconnected
  <2>1. /\ client' = NewClient /\ connector' = "waiting" /\ reused' = (reused /\ client.conn = "open")
        /\ crash' = IF client.conn = "open" THEN "closedChannel" ELSE crash
        /\ ~client.open /\ ui' = AfterDisconnect(ui)
    BY <1>6 DEF Disconnected
  <2>2. ui'.state = "disconnected" /\ ui'.current = None
    BY <1>1, <2>1, DisconnectFields
  <2>3. LinkOK'
    BY <2>1, <2>2 DEF LinkOK, NewClient
  <2>4. client.conn = "open" => reused'
    BY <2>1 DEF LinkOK
  <2>5. QED
    BY <1>2, <1>12, <2>1, <2>3, <2>4
<1>7. CASE Keys
  <2>1. LinkOK'
    BY <1>7, KeysTypes, LinkFrom DEF LinkOK, history
  <2>2. QED
    BY <1>2, <1>7, <2>1, KeysTypes
<1>8. CASE HandleEvent
  <2>1. /\ UNCHANGED <<connector, crash, reused>> /\ ui.state = "ready"
        /\ Head(client.events) \in Events /\ ui' = AfterEvent(ui, Head(client.events))
        /\ client'.conn = client.conn
        /\ client'.open = client.open /\ client'.subscribed = client.subscribed
        /\ client'.old = client.old /\ client'.joined = client.joined
    BY <1>8, HandleTypes DEF history
  <2>2. ui'.state = ui.state
    BY <1>1, <2>1, EventFields
  <2>3. LinkOK'
    BY <2>1, <2>2, LinkFrom DEF LinkOK
  <2>4. QED
    BY <1>2, <2>1, <2>3
<1>9. CASE Server
  <2>1. UNCHANGED <<ui, connector, reused>> /\ \E e \in Events : Emit(e)
    BY <1>9, ServerTypes
  <2>2. /\ client'.conn = client.conn
        /\ client'.open = client.open /\ client'.subscribed = client.subscribed
        /\ client'.old = client.old /\ client'.joined = client.joined
        /\ \/ client.subscribed /\ crash' = crash
           \/ client' = client /\ crash' = crash
           \/ ~client.open /\ client.subscribed /\ client' = client /\ crash' = "closedChannel"
    BY <2>1, EmitFields
  <2>3. LinkOK'
    BY <2>1, <2>2, LinkFrom DEF LinkOK
  <2>4. CASE crash' = "closedChannel" /\ ~client.open /\ client.subscribed
    BY <1>12, <2>1, <2>4 DEF LinkOK
  <2>5. QED
    BY <1>2, <2>2, <2>3, <2>4
<1>10. ASSUME NEW i \in Calls, Goroutine(i)
       PROVE  (crash' = None => LinkOK') /\ PanicsExplained'
  <2>1. CASE HandleResult(i)
    <3>1. /\ UNCHANGED <<client, connector, crash, reused>>
          /\ ui'.state = ui.state /\ ui'.current = ui.current
      BY <2>1, ResultTypes DEF history
    <3>2. LinkOK'
      BY <3>1, LinkFrom DEF LinkOK
    <3>3. QED
      BY <1>2, <3>1, <3>2
  <2>2. CASE ~HandleResult(i)
    <3>1. /\ UNCHANGED <<ui, client, connector, reused>>
          /\ crash' = crash \/ Panics(i)
      BY <1>10, <2>2, GoroutineTypes DEF history
    <3>2. LinkOK'
      BY <3>1 DEF LinkOK
    <3>3. CASE Panics(i)
      <4>1. calls'[i].at = "panicked" /\ crash' = "noConnection" /\ calls'[i].exposed = calls[i].exposed
            /\ ~Safe(calls[i]) /\ calls[i].at = "queued"
        BY <3>3 DEF Panics, ExposedOK
      <4>2. calls'[i].exposed
        BY <4>1 DEF Safe
      <4>3. QED
        BY <4>1, <4>2 DEF PanicsExplained
    <3>4. QED
      BY <1>2, <3>1, <3>2, <3>3
  <2>3. QED
    BY <2>1, <2>2
<1>11. QED
  BY <1>3, <1>4, <1>5, <1>6, <1>7, <1>8, <1>9, <1>10, <1>13 DEF Next, Loss

-----------------------------------------------------------------------------
(* What the events on their way say.                                        *)

LEMMA AppendedEvents ==
    ASSUME NEW s \in Seq(Events), NEW e \in Events, NEW t, t = Append(s, e)
    PROVE  /\ \A k \in DOMAIN s : k \in Nat /\ k \in DOMAIN t /\ t[k] = s[k] /\ k < Len(s) + 1
           /\ Len(s) + 1 \in DOMAIN t /\ t[Len(s) + 1] = e
           /\ \A k \in DOMAIN t : k \in DOMAIN s \/ k = Len(s) + 1
OBVIOUS

LEMMA TailEvents ==
    ASSUME NEW s \in Seq(Events), s # <<>>, NEW t, t = Tail(s)
    PROVE  /\ \A k \in DOMAIN t : k \in Nat /\ k + 1 \in DOMAIN s /\ t[k] = s[k + 1]
           /\ \A k \in DOMAIN s : k = 1 \/ (k - 1 \in DOMAIN t /\ t[k - 1] = s[k] /\ k \in Nat)
           /\ 1 \in DOMAIN s /\ s[1] = Head(s)
OBVIOUS

LEMMA PrefixEvents ==
    ASSUME NEW s \in Seq(Events), NEW n \in 0..Len(s), NEW t, t = SubSeq(s, 1, n)
    PROVE  /\ \A k \in DOMAIN t : k \in DOMAIN s /\ t[k] = s[k] /\ k \in Nat
           /\ \A k \in DOMAIN t : \A j \in DOMAIN s : j < k => j \in DOMAIN t
<1>1. Len(t) = n /\ \A k \in 1..n : t[k] = s[k]
  BY SubSeqProperties
<1>2. t \in Seq(Events)
  BY SubSeqProperties
<1>3. QED
  BY <1>1, <1>2

\* Nothing that the events speak of has changed.
LEMMA RunFrame ==
    ASSUME NEW r \in Runs, RunOK(r), client'.events = client.events,
           client'.subscribed => client.subscribed, UNCHANGED <<runs, announced>>,
           ui'.current = ui.current, ui'.subs = ui.subs
    PROVE  RunOK(r)'
BY DEF RunOK, NewsOf, AnnouncedOK, CurrentOK, FinishOnItsWay, Sent

\* The connection is lost, with the last events on it.
LEMMA RunDrop ==
    ASSUME CallsOK, NEW r \in Runs, RunOK(r), Drop
    PROVE  RunOK(r)'
<1>1. PICK n \in 0..Len(client.events) :
        client' = [client EXCEPT !.conn = "lost", !.open = FALSE, !.subscribed = FALSE,
                                 !.joined = 0, !.events = SubSeq(@, 1, n)]
  BY DEF Drop
<1> DEFINE s == client.events
           t == SubSeq(s, 1, n)
<1>2. client' = [client EXCEPT !.conn = "lost", !.open = FALSE, !.subscribed = FALSE,
                               !.joined = 0, !.events = t]
  BY <1>1
<1>3. s \in Seq(Events)
  BY DEF CallsOK, TypeOK, Clients
<1>4. /\ \A k \in DOMAIN t : k \in DOMAIN s /\ t[k] = s[k] /\ k \in Nat
      /\ \A k \in DOMAIN t : \A j \in DOMAIN s : j < k => j \in DOMAIN t
  BY <1>3, PrefixEvents
<1> HIDE DEF t
<1>5. client'.subscribed = FALSE /\ client'.events = t
  BY <1>2 DEF CallsOK, TypeOK, Clients
<1>6. UNCHANGED <<ui, runs, announced>>
  BY DEF Drop, LoopEnds
<1>7. NewsOf(r)'
  <2>1. ASSUME NEW k \in DOMAIN t, t[k] = Event("run.started", r), r \in announced, r \notin ui.subs
        PROVE  \E j \in DOMAIN t : j < k /\ t[j] = Event("subagent.started", r)
    <3>1. k \in DOMAIN s /\ s[k] = Event("run.started", r)
      BY <1>4, <2>1
    <3>2. PICK j \in DOMAIN s : j < k /\ s[j] = Event("subagent.started", r)
      BY <2>1, <3>1 DEF RunOK, NewsOf, Sent
    <3>3. QED
      BY <1>4, <3>2
  <2>2. ASSUME NEW k \in DOMAIN t
        PROVE  /\ t[k] = Event("run.started", r) => runs[r] \in {"running", "finished"}
               /\ t[k] = Event("run.finished", r) => runs[r] = "finished"
    BY <1>4 DEF RunOK, NewsOf, Sent
  <2>3. QED
    BY <1>5, <1>6, <2>1, <2>2 DEF NewsOf, Sent
<1>8. AnnouncedOK(r)'
  BY <1>5, <1>6 DEF RunOK, AnnouncedOK
<1>9. CurrentOK(r)'
  BY <1>5, <1>6 DEF RunOK, CurrentOK
<1>10. QED
  BY <1>7, <1>8, <1>9 DEF RunOK

\* Update handles the first event.
LEMMA RunHandle ==
    ASSUME CallsOK, NEW r \in Runs, RunOK(r), HandleEvent
    PROVE  RunOK(r)'
<1> DEFINE s == client.events
           t == Tail(s)
           e == Head(s)
<1>1. /\ s \in Seq(Events) /\ s # <<>> /\ e \in Events /\ ui' = AfterEvent(ui, e)
      /\ client'.events = t /\ client'.subscribed = client.subscribed
      /\ UNCHANGED <<runs, announced>>
  BY HandleTypes DEF history
<1>2. /\ \A k \in DOMAIN t : k \in Nat /\ k + 1 \in DOMAIN s /\ t[k] = s[k + 1]
      /\ \A k \in DOMAIN s : k = 1 \/ (k - 1 \in DOMAIN t /\ t[k - 1] = s[k] /\ k \in Nat)
      /\ 1 \in DOMAIN s /\ s[1] = e
  BY <1>1, TailEvents
<1>3. /\ ui'.subs = IF e.type = "subagent.started" THEN ui.subs \cup {e.id} ELSE ui.subs
      /\ \/ ui'.current = ui.current /\ (e.type = "run.finished" => ui.current # e.id)
         \/ ui'.current = None /\ e.type = "run.finished"
         \/ ui'.current = e.id /\ e.type = "run.started" /\ e.id \notin ui.subs
  BY <1>1, EventFields DEF CallsOK, TypeOK
<1>4. /\ e = Event("subagent.started", r) => e.type = "subagent.started" /\ e.id = r
      /\ e = Event("run.finished", r) => e.type = "run.finished" /\ e.id = r
  BY DEF Event
<1>5. e.type = "run.started" /\ e.id = r => e = Event("run.started", r)
  BY <1>1 DEF Event, Events
<1> HIDE DEF t, e
<1>6. NewsOf(r)'
  <2>1. ASSUME NEW k \in DOMAIN t, t[k] = Event("run.started", r)
        PROVE  /\ runs[r] \in {"running", "finished"}
               /\ \/ runs[r] = "running" \/ ~client.subscribed
                  \/ \E j \in DOMAIN t : k < j /\ t[j] = Event("run.finished", r)
               /\ r \in announced =>
                     r \in ui'.subs \/ \E j \in DOMAIN t : j < k /\ t[j] = Event("subagent.started", r)
    <3>1. k + 1 \in DOMAIN s /\ s[k + 1] = Event("run.started", r) /\ k \in Nat
      BY <1>2, <2>1
    <3>2. runs[r] \in {"running", "finished"}
      BY <3>1 DEF RunOK, NewsOf, Sent
    <3>3. \/ runs[r] = "running" \/ ~client.subscribed
          \/ \E j \in DOMAIN t : k < j /\ t[j] = Event("run.finished", r)
      <4>1. CASE \E j \in DOMAIN s : k + 1 < j /\ s[j] = Event("run.finished", r)
        <5>1. PICK j \in DOMAIN s : k + 1 < j /\ s[j] = Event("run.finished", r)
          BY <4>1
        <5>2. j - 1 \in DOMAIN t /\ t[j - 1] = s[j] /\ j \in Nat /\ j \in Int
          BY <1>2, <3>1, <5>1
        <5>3. QED
          BY <3>1, <5>1, <5>2
      <4>2. QED
        BY <3>1, <4>1 DEF RunOK, NewsOf, Sent
    <3>4. ASSUME r \in announced, r \notin ui'.subs
          PROVE  \E j \in DOMAIN t : j < k /\ t[j] = Event("subagent.started", r)
      <4>1. r \notin ui.subs
        BY <1>3, <3>4
      <4>2. PICK j \in DOMAIN s : j < k + 1 /\ s[j] = Event("subagent.started", r)
        BY <3>1, <3>4, <4>1 DEF RunOK, NewsOf, Sent
      <4>3. j # 1
        BY <1>2, <1>3, <1>4, <3>4, <4>2
      <4>4. j - 1 \in DOMAIN t /\ t[j - 1] = s[j] /\ j \in Nat
        BY <1>2, <4>3
      <4>5. QED
        BY <3>1, <4>2, <4>4
    <3>5. QED
      BY <3>2, <3>3, <3>4
  <2>2. ASSUME NEW k \in DOMAIN t, t[k] = Event("run.finished", r)
        PROVE  runs[r] = "finished"
    BY <1>2, <2>2 DEF RunOK, NewsOf, Sent
  <2>3. QED
    BY <1>1, <2>1, <2>2 DEF NewsOf, Sent
<1>7. AnnouncedOK(r)'
  <2>1. ASSUME r \in announced, client.subscribed, r \notin ui'.subs
        PROVE  \E j \in DOMAIN t : t[j] = Event("subagent.started", r)
    <3>1. r \notin ui.subs
      BY <1>3, <2>1
    <3>2. PICK j \in DOMAIN s : s[j] = Event("subagent.started", r)
      BY <2>1, <3>1 DEF RunOK, AnnouncedOK, Sent
    <3>3. j # 1
      BY <1>2, <1>3, <1>4, <2>1, <3>2
    <3>4. QED
      BY <1>2, <3>2, <3>3
  <2>2. QED
    BY <1>1, <2>1 DEF RunOK, AnnouncedOK, Sent
<1>8. CurrentOK(r)'
  <2>1. CASE ui'.current = r /\ ui.current = r /\ (e.type = "run.finished" => ui.current # e.id)
    <3>1. ASSUME FinishOnItsWay(r)
          PROVE  \E j \in DOMAIN t : t[j] = Event("run.finished", r)
      <4>1. PICK j \in DOMAIN s : s[j] = Event("run.finished", r)
        BY <3>1 DEF FinishOnItsWay
      <4>2. j # 1
        BY <1>2, <1>4, <2>1, <4>1
      <4>3. QED
        BY <1>2, <4>1, <4>2
    <3>2. QED
      BY <1>1, <2>1, <3>1 DEF RunOK, CurrentOK, FinishOnItsWay
  <2>2. CASE ui'.current = r /\ e.id = r /\ e.type = "run.started" /\ r \notin ui.subs
    <3>1. s[1] = Event("run.started", r)
      BY <1>2, <1>5, <2>2
    <3>2. r \notin announced
      <4>1. ~ \E j \in DOMAIN s : j < 1
        BY <1>1
      <4>2. QED
        BY <1>2, <2>2, <3>1, <4>1 DEF RunOK, NewsOf, Sent
    <3>3. ASSUME runs[r] # "running", client.subscribed
          PROVE  runs[r] = "finished" /\ \E j \in DOMAIN t : t[j] = Event("run.finished", r)
      <4>1. runs[r] = "finished" /\ \E j \in DOMAIN s : 1 < j /\ s[j] = Event("run.finished", r)
        BY <1>2, <3>1, <3>3 DEF RunOK, NewsOf, Sent
      <4>2. PICK j \in DOMAIN s : 1 < j /\ s[j] = Event("run.finished", r)
        BY <4>1
      <4>3. j # 1
        BY <4>2
      <4>4. QED
        BY <1>2, <4>1, <4>2, <4>3
    <3>4. runs[r] \in {"running", "finished"}
      BY <1>2, <3>1 DEF RunOK, NewsOf, Sent
    <3>5. QED
      BY <1>1, <3>2, <3>3, <3>4 DEF CurrentOK, FinishOnItsWay
  <2>3. CASE ui'.current # r
    BY <2>3 DEF CurrentOK
  <2>4. r # None
    BY DEF Runs
  <2>5. QED
    BY <1>3, <2>1, <2>2, <2>3, <2>4
<1>9. QED
  BY <1>6, <1>7, <1>8 DEF RunOK

\* An event goes out, if the client is subscribed, behind the others.
LEMMA EmitEvents ==
    ASSUME CallsOK, client.joined = 0, crash = None, crash' = None, NEW e \in Events, Emit(e)
    PROVE  LET s == client.events
               t == client'.events IN
           /\ client'.subscribed = client.subscribed
           /\ \A k \in DOMAIN s : k \in Nat /\ k \in DOMAIN t /\ t[k] = s[k]
           /\ \A k \in DOMAIN t : k \in DOMAIN s \/ (t[k] = e /\ \A j \in DOMAIN s : j < k)
           /\ client.subscribed => \E k \in DOMAIN t : t[k] = e /\ \A j \in DOMAIN s : j < k
<1> DEFINE s == client.events
           t == client'.events
<1>1. s \in Seq(Events)
  BY DEF CallsOK, TypeOK, Clients
<1>2. "closedChannel" # None
  OBVIOUS
<1>3. CASE client.subscribed /\ t = Append(s, e)
  <2>1. client'.subscribed = client.subscribed
    BY EmitFields DEF CallsOK
  <2>2. /\ \A k \in DOMAIN s : k \in Nat /\ k \in DOMAIN t /\ t[k] = s[k] /\ k < Len(s) + 1
        /\ Len(s) + 1 \in DOMAIN t /\ t[Len(s) + 1] = e
        /\ \A k \in DOMAIN t : k \in DOMAIN s \/ k = Len(s) + 1
    BY <1>1, <1>3, AppendedEvents
  <2> HIDE DEF s, t
  <2>3. QED
    BY <1>3, <2>1, <2>2 DEF s, t
<1>4. CASE ~client.subscribed /\ client' = client
  BY <1>1, <1>4
<1>5. ~(client.joined > 0)
  OBVIOUS
<1>6. QED
  BY <1>2, <1>3, <1>4, <1>5, EmitFields DEF CallsOK

\* An event about something else.
LEMMA RunOther ==
    ASSUME CallsOK, client.joined = 0, crash = None, crash' = None, NEW e \in Events, Emit(e), UNCHANGED ui,
           NEW r \in Runs, RunOK(r), runs'[r] = runs[r], r \in announced' => r \in announced,
           e # Event("run.started", r), e # Event("run.finished", r)
    PROVE  RunOK(r)'
<1> DEFINE s == client.events
           t == client'.events
<1>1. /\ client'.subscribed = client.subscribed
      /\ \A k \in DOMAIN s : k \in Nat /\ k \in DOMAIN t /\ t[k] = s[k]
      /\ \A k \in DOMAIN t : k \in DOMAIN s \/ (t[k] = e /\ \A j \in DOMAIN s : j < k)
  BY EmitEvents
<1>2. NewsOf(r)'
  <2>1. ASSUME NEW k \in DOMAIN t, t[k] = Event("run.started", r)
        PROVE  /\ runs[r] \in {"running", "finished"}
               /\ \/ runs[r] = "running" \/ ~client.subscribed
                  \/ \E j \in DOMAIN t : k < j /\ t[j] = Event("run.finished", r)
               /\ r \in announced =>
                     r \in ui.subs \/ \E j \in DOMAIN t : j < k /\ t[j] = Event("subagent.started", r)
    <3>1. k \in DOMAIN s /\ s[k] = Event("run.started", r)
      BY <1>1, <2>1
    <3>2. QED
      BY <1>1, <3>1 DEF RunOK, NewsOf, Sent
  <2>2. ASSUME NEW k \in DOMAIN t, t[k] = Event("run.finished", r)
        PROVE  runs[r] = "finished"
    BY <1>1, <2>2 DEF RunOK, NewsOf, Sent
  <2>3. QED
    BY <1>1, <2>1, <2>2 DEF NewsOf, Sent
<1>3. AnnouncedOK(r)'
  BY <1>1 DEF RunOK, AnnouncedOK, Sent
<1>4. CurrentOK(r)'
  BY <1>1 DEF RunOK, CurrentOK, FinishOnItsWay
<1>5. QED
  BY <1>2, <1>3, <1>4 DEF RunOK

\* A run starts: nothing on its way speaks of its loop yet.
LEMMA RunBegins ==
    ASSUME CallsOK, client.joined = 0, crash = None, crash' = None, NEW r \in Runs, RunOK(r),
           RunStarts(r) \/ ChildStarts(r)
    PROVE  RunOK(r)'
<1> DEFINE s == client.events
           t == client'.events
           e == Event("run.started", r)
<1>1. /\ runs[r] \in {"none", "announced"} /\ runs' = [runs EXCEPT ![r] = "running"]
      /\ Emit(e) /\ UNCHANGED <<ui, announced>>
  BY DEF RunStarts, ChildStarts, history
<1>2. e \in Events /\ e # Event("run.finished", r) /\ runs'[r] = "running"
  BY <1>1 DEF Events, Event, CallsOK, TypeOK
<1>3. /\ client'.subscribed = client.subscribed
      /\ \A k \in DOMAIN s : k \in Nat /\ k \in DOMAIN t /\ t[k] = s[k]
      /\ \A k \in DOMAIN t : k \in DOMAIN s \/ (t[k] = e /\ \A j \in DOMAIN s : j < k)
      /\ client.subscribed => \E k \in DOMAIN t : t[k] = e /\ \A j \in DOMAIN s : j < k
  BY <1>1, <1>2, EmitEvents
<1>4. \A k \in DOMAIN s : s[k] # e /\ s[k] # Event("run.finished", r)
  BY <1>1 DEF RunOK, NewsOf, Sent
<1>5. \A k \in DOMAIN t : k \in DOMAIN s => t[k] # e
  BY <1>3, <1>4
<1>6. \A k \in DOMAIN t : t[k] # Event("run.finished", r)
  BY <1>2, <1>3, <1>4
<1>7. NewsOf(r)'
  <2>1. ASSUME NEW k \in DOMAIN t, t[k] = e, r \in announced, r \notin ui.subs
        PROVE  \E j \in DOMAIN t : j < k /\ t[j] = Event("subagent.started", r)
    <3>1. \A j \in DOMAIN s : j < k
      BY <1>3, <1>5, <2>1
    <3>2. client.subscribed
      <4>1. k \notin DOMAIN s
        BY <1>5, <2>1
      <4>2. CASE ~client.subscribed
        <5>1. client' = client
          BY <1>1, <1>2, <4>2, EmitFields DEF CallsOK
        <5>2. QED
          BY <4>1, <5>1
      <4>3. QED
        BY <4>2
    <3>3. QED
      BY <1>3, <2>1, <3>1, <3>2 DEF RunOK, AnnouncedOK, Sent
  <2> HIDE DEF e
  <2>2. QED
    BY <1>1, <1>2, <1>6, <2>1 DEF NewsOf, Sent, e
<1>8. AnnouncedOK(r)'
  BY <1>1, <1>2, <1>3 DEF RunOK, AnnouncedOK, Sent
<1>9. CurrentOK(r)'
  BY <1>1, <1>2 DEF RunOK, CurrentOK
<1>10. QED
  BY <1>7, <1>8, <1>9 DEF RunOK

\* A sub-agent is announced.
LEMMA RunSpawns ==
    ASSUME CallsOK, client.joined = 0, crash = None, crash' = None, NEW r \in Runs, RunOK(r), Spawn(r)
    PROVE  RunOK(r)'
<1> DEFINE s == client.events
           t == client'.events
           e == Event("subagent.started", r)
<1>1. /\ r \in ChildRuns /\ runs[r] = "none" /\ runs' = [runs EXCEPT ![r] = "announced"]
      /\ Emit(e) /\ UNCHANGED ui
      /\ announced' = IF client.subscribed THEN announced \cup {r} ELSE announced
  BY DEF Spawn
<1>2. /\ e \in Events /\ e # Event("run.finished", r) /\ e # Event("run.started", r)
      /\ runs'[r] = "announced"
  BY <1>1 DEF Events, Event, CallsOK, TypeOK
<1>3. /\ client'.subscribed = client.subscribed
      /\ \A k \in DOMAIN s : k \in Nat /\ k \in DOMAIN t /\ t[k] = s[k]
      /\ \A k \in DOMAIN t : k \in DOMAIN s \/ (t[k] = e /\ \A j \in DOMAIN s : j < k)
      /\ client.subscribed => \E k \in DOMAIN t : t[k] = e /\ \A j \in DOMAIN s : j < k
  BY <1>1, <1>2, EmitEvents
<1>4. \A k \in DOMAIN s : s[k] # Event("run.started", r) /\ s[k] # Event("run.finished", r)
  BY <1>1 DEF RunOK, NewsOf, Sent
<1>5. \A k \in DOMAIN t : t[k] # Event("run.started", r) /\ t[k] # Event("run.finished", r)
  BY <1>2, <1>3, <1>4
<1>6. NewsOf(r)'
  BY <1>5 DEF NewsOf, Sent
<1>7. AnnouncedOK(r)'
  BY <1>2, <1>3 DEF AnnouncedOK, Sent
<1>8. ui.current # r
  BY <1>1 DEF RunOK, CurrentOK
<1>9. QED
  BY <1>1, <1>6, <1>7, <1>8 DEF RunOK, CurrentOK

\* A run finishes: the news is the last on its way.
LEMMA RunEnds ==
    ASSUME CallsOK, client.joined = 0, crash = None, crash' = None, NEW r \in Runs, RunOK(r), RunFinishes(r)
    PROVE  RunOK(r)'
<1> DEFINE s == client.events
           t == client'.events
           e == Event("run.finished", r)
<1>1. /\ runs[r] = "running" /\ runs' = [runs EXCEPT ![r] = "finished"]
      /\ Emit(e) /\ UNCHANGED <<ui, announced>>
  BY DEF RunFinishes, history
<1>2. e \in Events /\ e # Event("run.started", r) /\ runs'[r] = "finished"
  BY <1>1 DEF Events, Event, CallsOK, TypeOK
<1>3. /\ client'.subscribed = client.subscribed
      /\ \A k \in DOMAIN s : k \in Nat /\ k \in DOMAIN t /\ t[k] = s[k]
      /\ \A k \in DOMAIN t : k \in DOMAIN s \/ (t[k] = e /\ \A j \in DOMAIN s : j < k)
      /\ client.subscribed => \E k \in DOMAIN t : t[k] = e /\ \A j \in DOMAIN s : j < k
  BY <1>1, <1>2, EmitEvents
<1>4. NewsOf(r)'
  <2>1. ASSUME NEW k \in DOMAIN t, t[k] = Event("run.started", r)
        PROVE  /\ \/ ~client.subscribed
                  \/ \E j \in DOMAIN t : k < j /\ t[j] = e
               /\ r \in announced =>
                     r \in ui.subs \/ \E j \in DOMAIN t : j < k /\ t[j] = Event("subagent.started", r)
    <3>1. k \in DOMAIN s /\ s[k] = Event("run.started", r)
      BY <1>2, <1>3, <2>1
    <3>2. QED
      BY <1>3, <3>1 DEF RunOK, NewsOf, Sent
  <2>2. QED
    BY <1>1, <1>2, <1>3, <2>1 DEF NewsOf, Sent
<1>5. AnnouncedOK(r)'
  BY <1>1, <1>2, <1>3 DEF RunOK, AnnouncedOK, Sent
<1>6. CurrentOK(r)'
  BY <1>1, <1>2, <1>3 DEF RunOK, CurrentOK, FinishOnItsWay
<1>7. QED
  BY <1>4, <1>5, <1>6 DEF RunOK

LEMMA EventsStep ==
    ASSUME CallsOK, LinkOK, EventsOK, Next
    PROVE  EventsOK'
<1> USE DEF EventsOK
<1>1. crash = None
  BY DEF Next
<1> SUFFICES ASSUME crash' = None, ~reused', NEW r \in Runs
             PROVE  RunOK(r)'
  OBVIOUS
<1>12. r # None /\ client \in Clients /\ ui \in Models
  BY DEF Runs, CallsOK, TypeOK, TuiAssumption
<1>6. CASE Disconnected
  <2>1. client' = NewClient /\ ui' = AfterDisconnect(ui) /\ announced' = {} /\ UNCHANGED runs
    BY <1>6 DEF Disconnected
  <2>2. ui'.current = None
    BY <1>12, <2>1, DisconnectFields
  <2>3. client'.events = <<>> /\ client'.subscribed = FALSE
    BY <2>1 DEF NewClient
  <2>4. QED
    BY <1>12, <2>1, <2>2, <2>3 DEF RunOK, NewsOf, AnnouncedOK, CurrentOK
<1>13. CASE reused
  <2>1. ~Link
    BY <1>13 DEF Link, Connect, DialFails, Subscribe, SubscribeFails, Connected, ConnectFailed, Reconnect,
                 history
  <2>2. Loss => Disconnected
    BY <1>13 DEF Loss, Drop, OldLoopEnds, OldLoopReads, CutOff, LoopEnds, history
  <2>3. ~Keys /\ ~HandleEvent
    BY <1>13 DEF Keys, Enter, Command, Abort, Pick, HandleEvent, history
  <2>4. ~Server
    BY <1>1, <1>13, ServerTypes
  <2>5. \A i \in Calls : ~Goroutine(i)
    BY <1>13 DEF Goroutine, Issue, Created, Answer, Timeout, HandleResult, history
  <2>6. QED
    BY <1>6, <2>1, <2>2, <2>3, <2>4, <2>5 DEF Next
<1> SUFFICES ASSUME ~reused
             PROVE  RunOK(r)'
  BY <1>13
<1>14. RunOK(r) /\ client.old = 0 /\ client.joined = 0
  BY <1>1 DEF LinkOK
<1>2. RunOK(r) /\ r # None /\ client \in Clients /\ ui \in Models /\ client.joined = 0
  BY <1>12, <1>14
<1>3. CASE Link
  <2>1. CASE Subscribe
    <3>1. client' = [client EXCEPT !.subscribed = TRUE] /\ connector = "subscribing"
          /\ announced' = {} /\ UNCHANGED ui
      BY <2>1 DEF Subscribe
    <3>2. client'.events = <<>> /\ ui'.current = None
      BY <1>2, <3>1 DEF LinkOK, Clients
    <3>3. QED
      BY <1>2, <3>1, <3>2 DEF RunOK, NewsOf, AnnouncedOK, CurrentOK
  <2>2. CASE ~Subscribe
    <3>1. /\ UNCHANGED <<runs, announced>>
          /\ client' = client \/ Connect
          /\ ui' = ui \/ \E s \in {"connecting", "ready", "disconnected"} : ui' = [ui EXCEPT !.state = s]
      BY <1>3, <2>2
      DEF Link, Connect, DialFails, SubscribeFails, Connected, ConnectFailed, Reconnect, history
    <3>2. /\ client'.events = client.events /\ (client'.subscribed => client.subscribed)
          /\ ui'.current = ui.current /\ ui'.subs = ui.subs
      BY <1>2, <3>1 DEF Clients, Models, Connect
    <3>3. QED
      BY <1>2, <3>1, <3>2, RunFrame
  <2>3. QED
    BY <2>1, <2>2
<1>4. CASE Drop
  BY <1>2, <1>4, RunDrop
<1>5. CASE CutOff
  <2>1. client' = [client EXCEPT !.subscribed = FALSE] /\ UNCHANGED <<ui, runs, announced>>
    BY <1>5 DEF CutOff, history
  <2>2. client'.events = client.events /\ client'.subscribed = FALSE
    BY <1>2, <2>1 DEF Clients
  <2>3. QED
    BY <1>2, <2>1, <2>2, RunFrame
<1>15. ~OldLoopEnds /\ ~OldLoopReads
  BY <1>14 DEF OldLoopEnds, OldLoopReads
<1>7. CASE Keys
  BY <1>2, <1>7, KeysTypes, RunFrame DEF history
<1>8. CASE HandleEvent
  BY <1>2, <1>8, RunHandle
<1>9. CASE Server
  <2>1. UNCHANGED ui
    BY <1>1, <1>9, ServerTypes
  <2>2. CASE RunStarts(r) \/ ChildStarts(r)
    BY <1>1, <1>2, <2>2, RunBegins
  <2>3. CASE Spawn(r)
    BY <1>1, <1>2, <2>3, RunSpawns
  <2>4. CASE RunFinishes(r)
    BY <1>1, <1>2, <2>4, RunEnds
  <2>5. ASSUME NEW q \in Runs, q # r, RunStarts(q) \/ ChildStarts(q) \/ RunFinishes(q)
        PROVE  RunOK(r)'
    <3>1. PICK t \in {"run.started", "run.finished"} : Emit(Event(t, q))
      BY <2>5 DEF RunStarts, ChildStarts, RunFinishes
    <3>2. runs'[r] = runs[r] /\ announced' = announced
      BY <2>5 DEF RunStarts, ChildStarts, RunFinishes, history, CallsOK, TypeOK
    <3> DEFINE e == Event(t, q)
    <3>3. e \in Events /\ e # Event("run.started", r) /\ e # Event("run.finished", r)
      BY <2>5 DEF Events, Event
    <3> HIDE DEF e
    <3>4. Emit(e)
      BY <3>1 DEF e
    <3>5. QED
      BY <1>1, <1>2, <2>1, <3>2, <3>3, <3>4, RunOther
  <2>6. ASSUME NEW q \in Runs, q # r, Spawn(q)
        PROVE  RunOK(r)'
    <3> DEFINE e == Event("subagent.started", q)
    <3>1. /\ Emit(e) /\ q \in ChildRuns /\ runs'[r] = runs[r]
          /\ announced' \in {announced, announced \cup {q}}
      BY <2>6 DEF Spawn, CallsOK, TypeOK
    <3>2. e \in Events /\ e # Event("run.started", r) /\ e # Event("run.finished", r)
      BY <3>1 DEF Events, Event
    <3> HIDE DEF e
    <3>3. QED
      BY <1>1, <1>2, <2>1, <2>6, <3>1, <3>2, RunOther
  <2>7. ASSUME NEW a \in Asks, Ask(a) \/ Decide(a)
        PROVE  RunOK(r)'
    <3>1. PICK t \in {"permission.requested", "permission.decided"} : Emit(Event(t, a))
      BY <2>7 DEF Ask, Decide
    <3>2. UNCHANGED <<runs, announced>>
      BY <2>7 DEF Ask, Decide, history
    <3> DEFINE e == Event(t, a)
    <3>3. e \in Events /\ e # Event("run.started", r) /\ e # Event("run.finished", r)
      BY DEF Events, Event
    <3> HIDE DEF e
    <3>4. Emit(e)
      BY <3>1 DEF e
    <3>5. QED
      BY <1>1, <1>2, <2>1, <3>2, <3>3, <3>4, RunOther
  <2>8. QED
    BY <1>9, <2>2, <2>3, <2>4, <2>5, <2>6, <2>7 DEF Server
<1>10. ASSUME NEW i \in Calls, Goroutine(i)
       PROVE  RunOK(r)'
  <2>1. /\ UNCHANGED <<client, runs, announced>>
        /\ ui'.current = ui.current /\ ui'.subs = ui.subs
    BY <1>1, <1>10, GoroutineTypes, ResultTypes DEF history
  <2>2. QED
    BY <1>2, <2>1, RunFrame
<1>11. QED
  BY <1>3, <1>4, <1>5, <1>6, <1>7, <1>8, <1>9, <1>10, <1>15 DEF Next, Loss

-----------------------------------------------------------------------------
(* The theorems.                                                            *)

LEMMA IInvInit == Init => IInv
<1> SUFFICES ASSUME Init
             PROVE  IInv
  OBVIOUS
<1> USE DEF Init
<1>1. NoCall \in Commands /\ CallOK(NoCall)
  BY DEF NoCall, Commands, CallOK, Sends
<1>2. client \in Clients /\ client.events = <<>> /\ ui.current = None /\ ui \in Models
      /\ ui.mode = "input"
  BY DEF NewClient, Clients, Models
<1>3. TypeOK /\ \A i \in Calls : CallOK(calls[i])
  BY <1>1, <1>2 DEF TypeOK
<1>4. GateTruth
  BY DEF GateTruth
<1>5. LinkOK
  BY DEF LinkOK, NewClient
<1>6. EventsOK
  BY <1>2 DEF EventsOK, RunOK, NewsOf, AnnouncedOK, CurrentOK, Runs
<1>7. PanicsExplained /\ ExposedOK
  BY DEF PanicsExplained, ExposedOK, Safe, NoCall
<1>8. QED
  BY <1>3, <1>4, <1>5, <1>6, <1>7 DEF IInv

LEMMA IInvStep == IInv /\ [Next]_vars => IInv'
<1> SUFFICES ASSUME IInv, [Next]_vars
             PROVE  IInv'
  OBVIOUS
<1>1. CASE Next
  <2>1. CallsOK /\ crash = None
    BY <1>1 DEF IInv, CallsOK, Next
  <2>2. CallsOK'
    BY <1>1, <2>1, TypesStep
  <2>3. GateTruth'
    BY <1>1, <2>1, GateStep DEF IInv
  <2>4. (crash' = None => LinkOK') /\ PanicsExplained'
    BY <1>1, <2>1, LinkStep DEF IInv
  <2>5. EventsOK'
    BY <1>1, <2>1, EventsStep DEF IInv
  <2>6. ExposedOK'
    BY <1>1, <2>1, ExposedStep DEF IInv
  <2>7. QED
    BY <2>2, <2>3, <2>4, <2>5, <2>6 DEF IInv, CallsOK
<1>2. CASE UNCHANGED vars
  BY <1>2 DEF vars, IInv, TypeOK, GateTruth, LinkOK, EventsOK, RunOK, NewsOf, AnnouncedOK, CurrentOK,
              FinishOnItsWay, Sent, PanicsExplained, ExposedOK
<1>3. QED
  BY <1>1, <1>2

\* The invariant that the others follow from holds in every reachable state: what model.go,
\* the WebSocket client and the goroutines of the commands know of each other fits together.
THEOREM InductiveInvariant == Spec => []IInv
BY IInvInit, IInvStep, PTL DEF Spec

\* Every variable keeps its shape, and the mode of the permission dialog always has a
\* request to show.
THEOREM TypeCorrect == Spec => []TypeOK
<1>1. IInv => TypeOK
  BY DEF IInv
<1>2. QED
  BY <1>1, InductiveInvariant, PTL

\* Esc is never aimed at a run that is over and forgotten, or at a sub-agent announced on
\* this connection; and the gate that lets handleEvent adopt a run is open only while a
\* message of this client is under way, in whatever order results and events come.
THEOREM TargetAlwaysSound == Spec => []TargetSound
<1>1. IInv => TargetSound
  <2> SUFFICES ASSUME IInv
               PROVE  TargetSound
    OBVIOUS
  <2>1. GateTruth
    BY DEF IInv
  <2>2. AbortTarget
    BY DEF IInv, TypeOK, Models, EventsOK, RunOK, CurrentOK, AbortTarget
  <2>3. QED
    BY <2>1, <2>2 DEF TargetSound
<1>2. QED
  BY <1>1, InductiveInvariant, PTL

\* The client panics in no other way than these: at a call whose key was pressed while the
\* status line did not say ready, or whose connection was lost before it was written; or
\* with a client of which a Subscribe has failed and that connectCmd has used again.
THEOREM PanicsAlwaysExplained == Spec => []PanicsExplained
<1>1. IInv => PanicsExplained
  BY DEF IInv
<1>2. QED
  BY <1>1, InductiveInvariant, PTL

\* No step of Update takes a pending request from the screen, but one that puts a later
\* request in its place.
THEOREM RequestsStayShown == Spec => NeverHidden
<1> DEFINE Shown == \/ ui'.pending \ {ui'.perm} \subseteq ui.pending \ {ui.perm}
                    \/ ui'.perm \notin {ui.perm, None}
<1>1. IInv /\ [Next]_vars => [Shown]_ui
  <2> SUFFICES ASSUME IInv, Next
               PROVE  Shown \/ UNCHANGED ui
    BY DEF vars
  <2>1. CallsOK /\ crash = None /\ ui \in Models
    BY DEF IInv, CallsOK, Next, TypeOK
  <2>2. CASE Link
    <3>1. ui' = ui \/ \E s \in {"connecting", "ready", "disconnected"} : ui' = [ui EXCEPT !.state = s]
      BY <2>2 DEF Link, Connect, DialFails, Subscribe, SubscribeFails, Connected, ConnectFailed, Reconnect
    <3>2. QED
      BY <2>1, <3>1 DEF Models
  <2>3. CASE Disconnected
    BY <2>1, <2>3, DisconnectFields DEF Disconnected
  <2>4. CASE Keys
    BY <2>1, <2>4, KeysTypes
  <2>5. CASE HandleEvent
    <3>1. Head(client.events) \in Events /\ ui' = AfterEvent(ui, Head(client.events))
      BY <2>1, <2>5, HandleTypes
    <3> DEFINE e == Head(client.events)
    <3>2. \/ ui'.pending = ui.pending /\ ui'.perm = ui.perm
          \/ ui'.pending = ui.pending \cup {e.id} /\ ui'.perm = e.id /\ e.id \in Asks
          \/ ui'.pending = ui.pending \ {e.id} /\ ui'.perm = ui.perm
      BY <2>1, <3>1, EventFields
    <3>3. QED
      BY <3>2
  <2>6. CASE (Loss /\ ~Disconnected) \/ Server
    BY <2>1, <2>6, ServerTypes DEF Loss, Drop, OldLoopEnds, OldLoopReads, CutOff, LoopEnds
  <2>7. ASSUME NEW i \in Calls, Goroutine(i)
        PROVE  Shown \/ UNCHANGED ui
    <3>1. UNCHANGED ui \/ (ui'.pending = ui.pending /\ ui'.perm = ui.perm)
      BY <2>1, <2>7, GoroutineTypes, ResultTypes
    <3>2. QED
      BY <3>1
  <2>8. QED
    BY <2>2, <2>3, <2>4, <2>5, <2>6, <2>7 DEF Next
<1>2. QED
  BY <1>1, InductiveInvariant, PTL DEF Spec, NeverHidden
=============================================================================
