---------------------------- MODULE EventStream ----------------------------
(***************************************************************************)
(* The event stream of one WebSocket connection (internal/transport): the   *)
(* subscriptions made on it, each with its buffered channel and writer      *)
(* goroutine, the replay of a run's trace, the broadcasts, and the clean-up *)
(* deferred by handleWSConn. Every event is of the subscribed run and       *)
(* matches its topics; the bus calls the trace writer before the server.    *)
(***************************************************************************)
EXTENDS Naturals, SequencesExt

CONSTANTS
    BufSize,        \* subscriberBufSize
    Traced,         \* the events already in the run's trace
    TooLong,        \* the events whose line in the trace is longer than the scanner takes
    MaxEvents,      \* bound on the events of the run
    MaxSubs         \* bound on the event.subscribe requests of the connection

ASSUME StreamAssumption ==
    /\ BufSize \in Nat \ {0} /\ MaxSubs \in Nat
    /\ Traced \in Nat /\ MaxEvents \in Nat /\ Traced <= MaxEvents /\ TooLong \subseteq Nat

VARIABLES
    traced,         \* events 1..traced are in events.jsonl
    publishing,     \* the events traced and not yet broadcast
    sub,            \* sub[k]: the subscriber of the k-th request, and its handler
    entry,          \* the request whose subscriber is in s.subscribers, or 0
    peer,           \* the client is there
    connOpen,       \* the connection has not been closed by the server
    reader,         \* handleWSConn: reading, draining (wg.Wait), or finished
    sent,           \* sent[k]: what the writer of k has written
    due             \* history: the events broadcast while k was active

vars == <<traced, publishing, sub, entry, peer, connOpen, reader, sent, due>>
traceVars == <<traced, publishing>>

Subs == 1..MaxSubs
Events == 1..MaxEvents
Item(kind, e) == [kind |-> kind, ev |-> e]

NoSub == [at |-> "none", next |-> 1, replay |-> FALSE, buf |-> <<>>, open |-> FALSE,
          active |-> FALSE, detached |-> FALSE, writer |-> "none"]

Init ==
    /\ traced = Traced
    /\ publishing = {}
    /\ sub = [k \in Subs |-> NoSub]
    /\ entry = 0
    /\ peer = TRUE
    /\ connOpen = TRUE
    /\ reader = "reading"
    /\ sent = [k \in Subs |-> <<>>]
    /\ due = [k \in Subs |-> <<>>]

-----------------------------------------------------------------------------
\* Bus.Publish, first handler: the trace writer.
Publish ==
    /\ traced < MaxEvents
    /\ traced' = traced + 1
    /\ publishing' = publishing \cup {traced'}
    /\ UNCHANGED <<sub, entry, peer, connOpen, reader, sent, due>>

\* Mutant: an event that does not fit is dropped and the subscriber kept.
DropEvent(k) == UNCHANGED <<sub, entry>>

\* Mutant: the channel is closed and the subscriber kept.
CloseOnly(k) == sub' = [sub EXCEPT ![k].open = FALSE] /\ UNCHANGED entry

\* The buffer is full: the subscriber is removed and its channel closed.
CutOff(k) == sub' = [sub EXCEPT ![k].open = FALSE] /\ entry' = 0

\* Mutant: one more than the channel holds.
OneTooMany(k) == Len(sub[k].buf) <= BufSize

\* The channel of k has room.
Fits(k) == Len(sub[k].buf) < BufSize

Listening == {k \in Subs : k = entry /\ sub[k].active}

\* broadcastEvent, under s.mu.
Broadcast(e) ==
    /\ e \in publishing
    /\ publishing' = publishing \ {e}
    /\ \/ /\ Listening = {}
          /\ UNCHANGED <<sub, entry, due>>
       \/ \E k \in Listening :
             /\ due' = [due EXCEPT ![k] = Append(@, e)]
             /\ \/ /\ Fits(k)
                   /\ sub' = [sub EXCEPT ![k].buf = Append(@, Item("live", e))]
                   /\ UNCHANGED entry
                \/ /\ ~Fits(k)
                   /\ CutOff(k)
    /\ UNCHANGED <<traced, peer, connOpen, reader, sent>>

-----------------------------------------------------------------------------
(* event.subscribe, in a goroutine of its own.                              *)

\* Mutant: a new subscription is active from the start.
ActiveAtOnce == TRUE

StartsActive == FALSE

\* The request is read; the goroutines of two of them start in any order.
ReadRequest(k) ==
    /\ reader = "reading" /\ peer /\ connOpen
    /\ sub[k].at = "none" /\ \A j \in 1..(k - 1) : sub[j].at # "none"
    /\ \E replay \in BOOLEAN :
          sub' = [sub EXCEPT ![k].at = "requested", ![k].replay = replay]
    /\ UNCHANGED <<traceVars, entry, peer, connOpen, reader, sent, due>>

\* registerSubscriber: an earlier subscription of the connection is detached.
Subscribe(k) ==
    /\ sub[k].at = "requested"
    /\ sub' = [j \in Subs |->
                 IF j = k
                 THEN [sub[j] EXCEPT !.at = IF sub[j].replay THEN "replaying" ELSE "replayed",
                                     !.open = TRUE, !.writer = "running", !.active = StartsActive]
                 ELSE IF j = entry THEN [sub[j] EXCEPT !.detached = TRUE, !.open = FALSE]
                 ELSE sub[j]]
    /\ entry' = k
    /\ UNCHANGED <<traceVars, peer, connOpen, reader, sent, due>>

\* safeSend: the send blocks while the buffer is full, and fails once the channel
\* is closed.
ReplaySend(k) ==
    /\ sub[k].at = "replaying" /\ sub[k].next <= traced /\ sub[k].next \notin TooLong
    /\ \/ /\ sub[k].open /\ Fits(k)
          /\ sub' = [sub EXCEPT ![k].buf = Append(@, Item("replay", sub[k].next)),
                                ![k].next = @ + 1]
       \/ /\ ~sub[k].open
          /\ sub' = [sub EXCEPT ![k].at = "replayed"]
    /\ UNCHANGED <<traceVars, entry, peer, connOpen, reader, sent, due>>

\* The end of events.jsonl, as it is now, or a line of more than 4 MB, which ends the scan
\* without an error. (Each line is one Write of a whole record: none fails to parse.)
ReplayEnds(k) ==
    /\ sub[k].at = "replaying"
    /\ sub[k].next > traced \/ sub[k].next \in TooLong
    /\ sub' = [sub EXCEPT ![k].at = "replayed"]
    /\ UNCHANGED <<traceVars, entry, peer, connOpen, reader, sent, due>>

\* activateSubscriber, and the response.
Activate(k) ==
    /\ sub[k].at = "replayed"
    /\ sub' = [sub EXCEPT ![k].at = "answered", ![k].active = TRUE]
    /\ UNCHANGED <<traceVars, entry, peer, connOpen, reader, sent, due>>

-----------------------------------------------------------------------------
(* writeLoop                                                                *)
Write(k) ==
    /\ sub[k].writer = "running" /\ sub[k].buf # <<>>
    /\ peer /\ connOpen
    /\ sent' = [sent EXCEPT ![k] = Append(@, Head(sub[k].buf))]
    /\ sub' = [sub EXCEPT ![k].buf = Tail(@)]
    /\ UNCHANGED <<traceVars, entry, peer, connOpen, reader, due>>

\* Mutant: the connection is left open.
LeavesOpen(k) == connOpen

StillOpen(k) == connOpen /\ sub[k].detached

\* A write fails, by its deadline or because the peer is gone; or the channel is
\* closed and drained. A writer that was not replaced closes the connection.
WriterExits(k) ==
    /\ sub[k].writer = "running"
    /\ sub[k].buf # <<>> \/ ~sub[k].open
    /\ sub' = [sub EXCEPT ![k].writer = "gone", ![k].buf = IF @ = <<>> THEN @ ELSE Tail(@)]
    /\ connOpen' = StillOpen(k)
    /\ UNCHANGED <<traceVars, entry, peer, reader, sent, due>>

-----------------------------------------------------------------------------
(* handleWSConn                                                             *)
PeerLeaves ==
    /\ peer
    /\ peer' = FALSE
    /\ UNCHANGED <<traceVars, sub, entry, connOpen, reader, sent, due>>

StopReading ==
    /\ reader = "reading"
    /\ reader' = "draining"
    /\ UNCHANGED <<traceVars, sub, entry, peer, connOpen, sent, due>>

\* NextReader fails, at the latest by its deadline.
ReadFails == (~peer \/ ~connOpen) /\ StopReading

\* The core stops, or the rate limit is exceeded.
ReaderStops == peer /\ connOpen /\ StopReading

Idle(k) == sub[k].at \in {"none", "answered"}

\* Mutant: the subscriber is not removed.
KeepSubscriber == UNCHANGED <<sub, entry>>

RemoveSubscriber ==
    /\ sub' = [k \in Subs |-> IF k = entry THEN [sub[k] EXCEPT !.open = FALSE] ELSE sub[k]]
    /\ entry' = 0

\* The deferred function: every request has ended, the subscriber is removed and the
\* connection closed.
CleanUp ==
    /\ reader = "draining"
    /\ \A k \in Subs : Idle(k)
    /\ RemoveSubscriber
    /\ connOpen' = FALSE
    /\ reader' = "finished"
    /\ UNCHANGED <<traceVars, peer, sent, due>>

SubStep(k) == Subscribe(k) \/ ReplaySend(k) \/ ReplayEnds(k) \/ Activate(k)

Next ==
    \/ Publish \/ PeerLeaves \/ ReadFails \/ ReaderStops \/ CleanUp
    \/ \E e \in Events : Broadcast(e)
    \/ \E k \in Subs : ReadRequest(k) \/ SubStep(k) \/ Write(k) \/ WriterExits(k)

Spec == Init /\ [][Next]_vars

\* Goroutines that can run are run; a write ends by its deadline, a read of a closed
\* connection fails. Nobody has to publish, subscribe or leave. (The other requests of
\* the connection, which CleanUp waits for too, are taken to have ended.)
FairSpec ==
    /\ Spec
    /\ WF_vars(ReadFails) /\ WF_vars(CleanUp)
    /\ \A e \in Events : WF_vars(Broadcast(e))
    /\ \A k \in Subs : WF_vars(SubStep(k)) /\ WF_vars(Write(k) \/ WriterExits(k))

-----------------------------------------------------------------------------
(* Properties.                                                              *)
\* What the client has been sent by k, and what it will be.
Received(k) == sent[k] \o sub[k].buf

\* Every variable keeps its shape; no buffer holds more than its size.
Items == [kind : {"replay", "live"}, ev : Events]

Subscribers ==
    [at : {"none", "requested", "replaying", "replayed", "answered"},
     next : 1..(MaxEvents + 1), replay : BOOLEAN, buf : Seq(Items), open : BOOLEAN,
     active : BOOLEAN, detached : BOOLEAN, writer : {"none", "running", "gone"}]

TypeOK ==
    /\ traced \in 0..MaxEvents /\ publishing \subseteq Events
    /\ sub \in [Subs -> Subscribers]
    /\ \A k \in Subs : Len(sub[k].buf) <= BufSize
    /\ entry \in 0..MaxSubs /\ peer \in BOOLEAN /\ connOpen \in BOOLEAN
    /\ reader \in {"reading", "draining", "finished"}
    /\ sent \in [Subs -> Seq(Items)] /\ due \in [Subs -> Seq(Events)]

\* A channel is open exactly while its subscriber is in the map: a broadcast never
\* sends to a closed channel, and none of the three places that close one closes it
\* twice; each would panic.
ChannelsSafe == \A k \in Subs : sub[k].open <=> entry = k

\* "replayed events come before live ones", whatever writes and writers fail.
InOrder(items) ==
    \A i, j \in 1..Len(items) : i < j /\ items[i].kind = "live" => items[j].kind = "live"

ReplayBeforeLive == \A k \in Subs : InOrder(Received(k))

\* An event is lost only with its subscription: while a subscriber is in the map and its
\* writer runs it has got a beginning of the trace, without a gap, and after it, in order,
\* every event broadcast since it was activated.
Gapless(items, live) ==
    \E n \in 0..Len(items) :
        /\ \A i \in 1..n : items[i] = Item("replay", i)
        /\ Len(items) = n + Len(live)
        /\ \A i \in 1..Len(live) : items[n + i] = Item("live", live[i])

NoSilentLoss ==
    \A k \in Subs : entry = k /\ sub[k].writer = "running" => Gapless(Received(k), due[k])

\* A slow consumer is disconnected: a subscription that was cut off, and not replaced by
\* another, ends with the connection closed.
SlowConsumerCut ==
    \A k \in Subs : (sub[k].writer # "none" /\ ~sub[k].open /\ ~sub[k].detached) ~> ~connOpen

\* A connection whose client is gone, or that is no longer read, is cleaned up:
\* handleWSConn returns, no subscriber is left in the map and no writer is running.
ConnectionEnds ==
    (~peer \/ reader = "draining")
        ~> (reader = "finished" /\ entry = 0 /\ \A k \in Subs : sub[k].writer # "running")

\* A page that is reloaded during a run gets the run's events back by the replay: what has
\* been published is replayed, on its way, or delivered live.
ReplayThenLiveComplete ==
    \A k \in Subs : entry = k /\ sub[k].active /\ sub[k].replay /\ sub[k].writer = "running" =>
        \A e \in (1..traced) \ publishing :
            \E i \in ToSet(Received(k)) : i.ev = e
=============================================================================
