------------------------------ MODULE Channels ------------------------------
(***************************************************************************)
(* The channel manager (internal/channel/manager.go) with one Telegram       *)
(* channel: the long poll and its offset, the receive channel, the read      *)
(* loop, and one queue and worker per sender; what the platform keeps until  *)
(* it is confirmed; and the core's shutdown, which waits for none of them.   *)
(***************************************************************************)
EXTENDS Naturals, SequencesExt

CONSTANTS
    Senders,
    SenderOf,       \* SenderOf[u]: who sent update u
    Texts,          \* the updates that carry text
    Routed,         \* the senders for whom the router finds an agent
    RecvSize,       \* tgRecvBufSize
    QueueSize,      \* senderQueueSize
    MaxUpdates,     \* bound on the updates of the platform
    MaxLives        \* bound on the starts of the process

Updates == 1..MaxUpdates

ASSUME ChannelAssumption ==
    /\ MaxUpdates \in Nat /\ MaxLives \in Nat \ {0} /\ RecvSize \in Nat /\ QueueSize \in Nat
    /\ SenderOf \in [Updates -> Senders] /\ Texts \subseteq Updates /\ Routed \subseteq Senders

VARIABLES
    arrived,        \* updates 1..arrived have come to the platform
    confirmed,      \* the platform has forgotten 1..confirmed
    process,        \* up, stopping (ctx is cancelled), or down
    poll,           \* the poll goroutine: where it is, its offset, what it has to deliver
    recv,           \* the receive channel
    reader,         \* readLoop and dispatch: where they are, the message in hand
    queue, worker,  \* of each sender
    lives,
    fetched,        \* history: the updates fetched in this life
    handled,        \* history: what each sender's worker has processed in this life
    done, again,    \* history: updates processed ever; more than once
    abandoned,      \* history: in the memory of a process that ended
    unsettled       \* history: processed and not confirmed when a process ended

vars == <<arrived, confirmed, process, poll, recv, reader, queue, worker, lives, fetched,
          handled, done, again, abandoned, unsettled>>
platform == <<arrived, confirmed>>
past == <<lives, fetched, handled, done, again, abandoned, unsettled>>

Nothing == 0
Of(s) == {u \in Texts : SenderOf[u] = s}
Held(m) == IF m = Nothing THEN <<>> ELSE <<m>>

\* Mutant: one more than the channel holds.
OneMore(q, size) == Len(q) <= size

\* A buffered Go channel has room.
Fits(q, size) == Len(q) < size

\* What this life has fetched and not yet processed, of one sender.
InMemory(s) == Of(s) \cap (ToSet(Held(worker[s].msg)) \cup ToSet(queue[s]) \cup ToSet(Held(reader.msg))
                          \cup ToSet(recv.buf) \cup ToSet(poll.batch))

\* Connect and the read loop, of a process that has just started.
NewPoll == [at |-> "asking", offset |-> 0, next |-> 0, batch |-> <<>>]
Idle == [at |-> "none", msg |-> Nothing]

Init ==
    /\ arrived = 0 /\ confirmed = 0
    /\ process = "up" /\ lives = 1
    /\ poll = NewPoll
    /\ recv = [buf |-> <<>>, open |-> TRUE]
    /\ reader = [at |-> "reading", msg |-> Nothing]
    /\ queue = [s \in Senders |-> <<>>]
    /\ worker = [s \in Senders |-> Idle]
    /\ fetched = {} /\ handled = [s \in Senders |-> <<>>]
    /\ done = {} /\ again = {} /\ abandoned = {} /\ unsettled = {}

-----------------------------------------------------------------------------
(* Telegram: pollLoop and pollOnce.                                         *)

Arrive ==
    /\ arrived < MaxUpdates
    /\ arrived' = arrived + 1
    /\ UNCHANGED <<confirmed, process, poll, recv, reader, queue, worker, past>>

\* getUpdates is sent, unless ctx is cancelled.
AskUpdates ==
    /\ process # "down" /\ poll.at = "asking"
    /\ poll' = [poll EXCEPT !.at = IF process = "up" THEN "waiting" ELSE "gone"]
    /\ UNCHANGED <<platform, process, recv, reader, queue, worker, past>>

\* A request confirms everything before its offset.
Confirm == confirmed' = IF poll.offset > confirmed + 1 THEN poll.offset - 1 ELSE confirmed

\* The answer: all that is not confirmed (the limit of 100 is left out).
Answer ==
    /\ process # "down" /\ poll.at = "waiting"
    /\ Confirm
    /\ poll' = [poll EXCEPT !.at = "delivering", !.next = poll.offset,
                            !.batch = [k \in 1..(arrived - confirmed') |-> confirmed' + k]]
    /\ fetched' = fetched \cup (confirmed' + 1)..arrived
    /\ UNCHANGED <<arrived, process, recv, reader, queue, worker, lives, handled, done, again,
                   abandoned, unsettled>>

\* Mutant: a failed poll moves on as well.
MovesOn == poll.offset + 1

SameOffset == poll.offset

\* No usable answer; the platform may have seen the request.
AnswerLost ==
    /\ process # "down" /\ poll.at = "waiting"
    /\ Confirm \/ UNCHANGED confirmed
    /\ poll' = [poll EXCEPT !.at = "asking", !.offset = SameOffset]
    /\ UNCHANGED <<arrived, process, recv, reader, queue, worker, past>>

\* Mutant: the offset is the last update, not the one after it.
AtLast(u) == u

After(u) == u + 1

Advanced(p) == [p EXCEPT !.batch = Tail(@), !.next = IF After(Head(p.batch)) > @
                                                     THEN After(Head(p.batch)) ELSE @]

\* The next update of the batch: one without text is passed over; otherwise the select,
\* whose cases are room in the channel (a closed one is always ready) and ctx.
Deliver ==
    /\ process # "down" /\ poll.at = "delivering" /\ poll.batch # <<>>
    /\ LET u == Head(poll.batch) IN
          \/ /\ u \notin Texts
             /\ poll' = Advanced(poll)
             /\ UNCHANGED <<recv, process>>
          \/ /\ u \in Texts /\ recv.open /\ Fits(recv.buf, RecvSize)
             /\ poll' = Advanced(poll)
             /\ recv' = [recv EXCEPT !.buf = Append(@, u)]
             /\ UNCHANGED process
          \/ /\ u \in Texts /\ process = "stopping"
             /\ poll' = [poll EXCEPT !.at = "gone"]
             /\ UNCHANGED <<recv, process>>
    /\ UNCHANGED <<platform, reader, queue, worker, past>>

\* The batch is delivered: the offset moves on, and after a pause the next poll.
PollDone ==
    /\ process # "down" /\ poll.at = "delivering" /\ poll.batch = <<>>
    /\ poll' = [poll EXCEPT !.at = "asking", !.offset = poll.next]
    /\ UNCHANGED <<platform, process, recv, reader, queue, worker, past>>

-----------------------------------------------------------------------------
(* The manager: readLoop, dispatch, senderLoop, process.                    *)

Receive ==
    /\ process # "down" /\ reader.at = "reading" /\ recv.buf # <<>>
    /\ reader' = [at |-> "dispatching", msg |-> Head(recv.buf)]
    /\ recv' = [recv EXCEPT !.buf = Tail(@)]
    /\ UNCHANGED <<platform, process, poll, queue, worker, past>>

\* The queue and the worker of a sender exist from his first message; a full queue keeps
\* the loop waiting, and with it every other sender.
Dispatch ==
    /\ process # "down" /\ reader.at = "dispatching"
    /\ LET s == SenderOf[reader.msg] IN
          /\ Fits(queue[s], QueueSize)
          /\ queue' = [queue EXCEPT ![s] = Append(@, reader.msg)]
          /\ worker' = IF worker[s].at = "none" THEN [worker EXCEPT ![s].at = "idle"] ELSE worker
    /\ reader' = [at |-> "reading", msg |-> Nothing]
    /\ UNCHANGED <<platform, process, poll, recv, past>>

\* Both loops leave on ctx, the reader also on the closed channel. Its dispatch drops the
\* message it holds and returns to readLoop, whose select may still take another.
Leave ==
    /\ process = "stopping"
    /\ \/ /\ reader.at # "gone"
          /\ reader' = [at |-> IF reader.at = "dispatching" THEN "reading" ELSE "gone",
                        msg |-> Nothing]
          /\ abandoned' = abandoned \cup ToSet(Held(reader.msg))
          /\ UNCHANGED worker
       \/ \E s \in Senders :
             /\ worker[s].at = "idle"
             /\ worker' = [worker EXCEPT ![s].at = "gone"]
             /\ UNCHANGED <<reader, abandoned>>
    /\ UNCHANGED <<platform, process, poll, recv, queue, lives, fetched, handled, done, again,
                   unsettled>>

Take(s) ==
    /\ process # "down" /\ worker[s].at = "idle" /\ queue[s] # <<>>
    /\ worker' = [worker EXCEPT ![s] = [at |-> "processing", msg |-> Head(queue[s])]]
    /\ queue' = [queue EXCEPT ![s] = Tail(@)]
    /\ UNCHANGED <<platform, process, poll, recv, reader, past>>

\* Mutant: the worker returns when it finds no agent.
GoneWithoutAgent(s) == IF s \in Routed THEN "idle" ELSE "gone"

NextMessage(s) == "idle"

\* The end of process: no agent, an error, no output, or a reply that is sent or fails;
\* the worker goes on in every case.
Processed(s) ==
    /\ process # "down" /\ worker[s].at = "processing"
    /\ LET u == worker[s].msg IN
          /\ handled' = [handled EXCEPT ![s] = Append(@, u)]
          /\ done' = done \cup {u}
          /\ again' = IF u \in done THEN again \cup {u} ELSE again
    /\ worker' = [worker EXCEPT ![s] = [at |-> NextMessage(s), msg |-> Nothing]]
    /\ UNCHANGED <<platform, process, poll, recv, reader, queue, lives, fetched, abandoned,
                   unsettled>>

-----------------------------------------------------------------------------
(* The process.                                                             *)

\* The signal: ctx is cancelled.
Cancel ==
    /\ process = "up"
    /\ process' = "stopping"
    /\ UNCHANGED <<platform, poll, recv, reader, queue, worker, past>>

\* Start sees ctx and disconnects: the receive channel is closed, whatever pollOnce does.
Disconnect ==
    /\ process = "stopping" /\ recv.open
    /\ recv' = [recv EXCEPT !.open = FALSE]
    /\ UNCHANGED <<platform, process, poll, reader, queue, worker, past>>

\* Everything in memory is gone.
Ends ==
    /\ process' = "down"
    /\ abandoned' = abandoned \cup UNION {InMemory(s) : s \in Senders}
    /\ unsettled' = unsettled \cup {u \in done : u > confirmed}
    /\ UNCHANGED <<platform, poll, recv, reader, queue, worker, lives, fetched, handled, done, again>>

\* pollOnce's select takes the case of the closed channel, and the process panics.
SendOnClosed ==
    /\ process = "stopping" /\ ~recv.open
    /\ poll.at = "delivering" /\ poll.batch # <<>> /\ Head(poll.batch) \in Texts
    /\ Ends

\* Killed at any moment, or App.Run has returned without waiting for the manager.
Exit ==
    /\ process # "down"
    /\ Ends

\* A new process: new queues, and an offset of zero.
Restart ==
    /\ process = "down" /\ lives < MaxLives
    /\ process' = "up" /\ lives' = lives + 1
    /\ poll' = NewPoll
    /\ recv' = [buf |-> <<>>, open |-> TRUE]
    /\ reader' = [at |-> "reading", msg |-> Nothing]
    /\ queue' = [s \in Senders |-> <<>>]
    /\ worker' = [s \in Senders |-> Idle]
    /\ fetched' = {} /\ handled' = [s \in Senders |-> <<>>]
    /\ UNCHANGED <<platform, done, again, abandoned, unsettled>>

Next ==
    \/ Arrive \/ AskUpdates \/ Answer \/ AnswerLost \/ Deliver \/ PollDone
    \/ Receive \/ Dispatch \/ Leave \/ \E s \in Senders : Take(s) \/ Processed(s)
    \/ Cancel \/ Disconnect \/ SendOnClosed \/ Exit \/ Restart

Spec == Init /\ [][Next]_vars

\* The goroutines run, and every handler and Send returns.
FairSpec ==
    /\ Spec
    /\ WF_vars(Deliver) /\ WF_vars(Receive) /\ WF_vars(Dispatch)
    /\ \A s \in Senders : WF_vars(Take(s)) /\ WF_vars(Processed(s))

-----------------------------------------------------------------------------
\* Every variable keeps its shape, no buffer holds more than its size, and the offset never
\* runs ahead of what has arrived.
TypeOK ==
    /\ arrived \in 0..MaxUpdates /\ confirmed \in 0..arrived
    /\ process \in {"up", "stopping", "down"} /\ lives \in 1..MaxLives
    /\ poll \in [at : {"asking", "waiting", "delivering", "gone"}, offset : Nat, next : Nat,
                 batch : Seq(Updates)]
    /\ poll.offset <= arrived + 1 /\ poll.next <= arrived + 1
    /\ recv \in [buf : Seq(Texts), open : BOOLEAN] /\ Len(recv.buf) <= RecvSize
    /\ reader \in [at : {"reading", "dispatching", "gone"}, msg : Texts \cup {Nothing}]
    /\ queue \in [Senders -> Seq(Texts)] /\ \A s \in Senders : Len(queue[s]) <= QueueSize
    /\ worker \in [Senders -> [at : {"none", "idle", "processing", "gone"},
                               msg : Texts \cup {Nothing}]]
    /\ fetched \subseteq 1..arrived /\ handled \in [Senders -> Seq(Texts)]
    /\ done \subseteq Texts /\ again \subseteq done
    /\ abandoned \subseteq Texts /\ unsettled \subseteq done

\* The queues, from the one nearest to the worker on, hold rising numbers and none
\* overtakes another: their concatenation is sorted and has nothing twice.
InOrder(queues) ==
    \A a, b \in DOMAIN queues : \A i \in DOMAIN queues[a], j \in DOMAIN queues[b] :
        a < b \/ (a = b /\ i < j) => queues[a][i] < queues[b][j]

\* "nothing twice and nothing left out", "one sender's messages in order", "a full queue
\* loses nothing": while the process is up, what was fetched from a sender is, in order
\* and each once, what has been processed and what is on its way to his worker.
Conserved ==
    process = "up" =>
        \A s \in Senders :
            /\ InOrder(<<handled[s], Held(worker[s].msg), queue[s],
                        Held(reader.msg), recv.buf, poll.batch>>)
            /\ ToSet(handled[s]) \cup InMemory(s) = fetched \cap Of(s)

\* What restarts do to that: a message the platform has forgotten was processed, or is in
\* memory, or was in the memory of a process that ended; and one is processed twice only
\* if its process ended before a later poll confirmed it.
RestartsExplained ==
    /\ \A u \in Texts \cap 1..confirmed :
          \/ u \in done \cup abandoned
          \/ process # "down" /\ u \in InMemory(SenderOf[u])
    /\ again \subseteq unsettled

\* No message waits for ever: each that is fetched is processed, unless the process is
\* told to stop, although a full queue holds up all the senders behind it.
EveryMessageProcessed ==
    \A u \in Texts : (u \in fetched /\ process = "up")
                        ~> (u \in ToSet(handled[SenderOf[u]]) \/ process # "up")
=============================================================================
