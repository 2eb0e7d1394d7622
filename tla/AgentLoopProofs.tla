-------------------------- MODULE AgentLoopProofs --------------------------
(***************************************************************************)
(* Proofs about AgentLoop, for any step limit, any number of parallel tool  *)
(* calls, retries and aborts.                                               *)
(***************************************************************************)
EXTENDS AgentLoop, SequenceTheorems, TLAPS

USE LoopAssumption DEF LoopAssumption, CallIds

-----------------------------------------------------------------------------
(* The inductive invariant.                                                 *)

\* The iteration under way, as Messages has it: what the run was before it, one step more,
\* then with the reply, then with the results of its calls.
Stepped == [before EXCEPT !.step = @ + 1]
Replied == WithReply(Stepped, By, reply.uses)
Acted == Answered(Replied, By, reply.stop)
Judged == Judge(Acted, reply.stop, MaxSteps)

Ready(x) == /\ x.status = "running" /\ x.reason = "none" /\ x.step < MaxSteps
            /\ PairedBut(x.msgs, x.unhandled)

KindOK == reply.stop # "none" /\ [stop |-> reply.stop, uses |-> reply.uses] \in ReplyKinds(MaxUses)

\* What the record of the run says between two iterations.
Outcome ==
    /\ run.status = "running" => Ready(run) /\ reply.stop # "end_turn"
    /\ run.status = "success" => run.reason = "none" /\ reply.stop = "end_turn"
    /\ run.status = "failed" => run.reason # "none" /\ reply.stop # "end_turn"
    /\ run.reason = "exceeded_max_steps" => run.step = MaxSteps /\ reply.stop # "none"
    /\ run.reason = "cancelled" => ctxDone

Between == {"starting", "head", "returned", "finished"}

Progress ==
    /\ pc \in Between => Outcome
    /\ pc = "starting" => run.status = "running"
    /\ pc \in {"returned", "finished"} => run.status # "running"
    /\ pc \notin Between => Ready(before)
    /\ pc = "chat" => run = Stepped /\ reply = NoReply
    /\ pc = "tools" => run = Replied /\ reply.stop = "tool_use" /\ reply.uses > 0
    /\ pc = "judge" => run = Acted /\ KindOK
    /\ pc = "compact" => run = Judged /\ KindOK /\ Compaction
                         /\ reply.stop = "tool_use" /\ run.status = "running"

\* Where a call is, and what it has counted by then.
CallOK(c) ==
    /\ c.at \in {"idle", "started", "asking"} => c.attempt = 0 /\ c.failedEvents = 0
    /\ c.at = "running" => c.attempt >= 1 /\ c.failedEvents = c.attempt - 1
    /\ c.at = "backoff" => c.attempt <= MaxRetries /\ c.failedEvents = c.attempt

CallsOK ==
    /\ \A i \in CallIds : CallOK(calls[i])
    /\ pc = "tools" => \A i \in CallIds : i > reply.uses => calls[i].at = "idle"
    /\ NoStrayCalls

\* What may still be done once the run's context is cancelled.
AbortOK ==
    /\ ~ctxDone => afterAbort.replies = 0 /\ \A i \in CallIds : afterAbort.attempts[i] = 0
    /\ AbortBoundsWork
    /\ afterAbort.replies = 1 /\ pc = "chat" => ~sentLive
    /\ \A i \in CallIds : afterAbort.attempts[i] = 1 =>
          calls[i].at \in {"idle", "running", "done"} /\ (pc = "chat" => ~sentLive)

\* The run id is in the registry, or taken by one abort, or gone.
RegistryOK ==
    /\ cancelling \/ registered \/ pc = "starting" => TRUE \notin Range(aborts)
    /\ registered => ~cancelling /\ pc \notin {"starting", "returned", "finished"}
    /\ pc = "starting" => ~cancelling
    /\ cancelling => Len(aborts) < MaxAborts

IInv == TypeOK /\ Progress /\ CallsOK /\ AbortOK /\ RegistryOK

-----------------------------------------------------------------------------
(* Histories in which every reply with calls is followed by their results,  *)
(* but for the calls in open.                                               *)

\* A message without results can be appended when its calls, if any, are left open.
LEMMA PairedPlain ==
    ASSUME NEW S, NEW msgs \in Seq(S), NEW a \in S, NEW open, NEW more, PairedBut(msgs, open),
           open \subseteq more, a.uses \subseteq more, a.results = {}
    PROVE  PairedBut(Append(msgs, a), more)
<1> DEFINE new == Append(msgs, a)
           n == Len(msgs)
<1>1. n \in Nat /\ Len(new) = n + 1 /\ new[n + 1] = a /\ \A i \in 1..n : new[i] = msgs[i]
  BY AppendProperties, LenProperties
<1> HIDE DEF new
<1>2. ASSUME NEW i \in 1..Len(new)
      PROVE  /\ new[i].uses \ more # {} => i < Len(new) /\ new[i + 1].results = new[i].uses
             /\ new[i].results # {} => i > 1 /\ new[i - 1].uses = new[i].results
  <2>1. CASE i = n + 1
    BY <1>1, <2>1
  <2>2. CASE i # n + 1
    <3>1. i \in 1..n
      BY <1>1, <2>2
    <3>2. /\ new[i].uses \ more # {} => i < n /\ msgs[i + 1].results = new[i].uses
          /\ new[i].results # {} => i > 1 /\ msgs[i - 1].uses = new[i].results
      BY <1>1, <3>1 DEF PairedBut
    <3>3. i < n => new[i + 1] = msgs[i + 1]
      BY <1>1, <3>1
    <3>4. i > 1 => new[i - 1] = msgs[i - 1]
      BY <1>1, <3>1
    <3>5. QED
      BY <1>1, <3>1, <3>2, <3>3, <3>4
  <2>3. QED
    BY <2>1, <2>2
<1>3. PairedBut(new, more)
  BY <1>2 DEF PairedBut
<1>4. QED
  BY <1>3 DEF new

\* A reply and the results of exactly its calls can be appended together.
LEMMA PairedPair ==
    ASSUME NEW S, NEW msgs \in Seq(S), NEW a \in S, NEW b \in S, NEW open,
           PairedBut(msgs, open), a.results = {}, b.uses = {}, a.uses = b.results
    PROVE  PairedBut(Append(Append(msgs, a), b), open)
<1> DEFINE mid == Append(msgs, a)
           new == Append(mid, b)
           n == Len(msgs)
<1>1. /\ n \in Nat /\ mid \in Seq(S) /\ Len(mid) = n + 1 /\ mid[n + 1] = a
      /\ \A i \in 1..n : mid[i] = msgs[i]
  BY AppendProperties, LenProperties
<1> HIDE DEF mid
<1>2. Len(new) = n + 1 + 1 /\ new[n + 1 + 1] = b /\ \A i \in 1..n + 1 : new[i] = mid[i]
  BY <1>1, AppendProperties
<1> HIDE DEF new, n
<1>3. Len(new) = n + 2 /\ new[n + 2] = b /\ new[n + 1] = a /\ \A i \in 1..n : new[i] = msgs[i]
  BY <1>1, <1>2
<1>4. ASSUME NEW i \in 1..Len(new)
      PROVE  /\ new[i].uses \ open # {} => i < Len(new) /\ new[i + 1].results = new[i].uses
             /\ new[i].results # {} => i > 1 /\ new[i - 1].uses = new[i].results
  <2>1. CASE i = n + 2
    <3>1. i - 1 = n + 1 /\ i > 1
      BY <1>1, <2>1
    <3>2. QED
      BY <1>3, <2>1, <3>1
  <2>2. CASE i = n + 1
    <3>1. i + 1 = n + 2 /\ i < Len(new)
      BY <1>1, <1>3, <2>2
    <3>2. QED
      BY <1>3, <2>2, <3>1
  <2>3. CASE i # n + 1 /\ i # n + 2
    <3>1. i \in 1..n
      BY <1>1, <1>3, <2>3
    <3>2. /\ new[i].uses \ open # {} => i < n /\ msgs[i + 1].results = new[i].uses
          /\ new[i].results # {} => i > 1 /\ msgs[i - 1].uses = new[i].results
      BY <1>3, <3>1 DEF PairedBut, n
    <3>3. i < n => new[i + 1] = msgs[i + 1]
      BY <1>1, <1>3, <3>1
    <3>4. i > 1 => new[i - 1] = msgs[i - 1]
      BY <1>1, <1>3, <3>1
    <3>5. QED
      BY <1>1, <1>3, <3>1, <3>2, <3>3, <3>4
  <2>4. QED
    BY <2>1, <2>2, <2>3
<1>5. PairedBut(new, open)
  BY <1>4 DEF PairedBut
<1>6. QED
  BY <1>5 DEF new, mid

LEMMA PairedStarts ==
    ASSUME NEW open
    PROVE  /\ <<Prompt(By)>> \in Histories /\ PairedBut(<<Prompt(By)>>, open)
           /\ Handoff \in Histories /\ PairedBut(Handoff, open)
BY DEF Prompt, Reply, Message, Handoff, Histories, PairedBut, By

-----------------------------------------------------------------------------
(* One turn of the loop, piece by piece.                                    *)

\* What a piece of a turn leaves alone in the record of the run.
SameVerdict(y, x) == y.step = x.step /\ y.status = x.status /\ y.reason = x.reason

LEMMA CallIdsOfStep ==
    ASSUME NEW k \in 1..MaxSteps, NEW n \in 0..MaxUses
    PROVE  UseIds(By, k, n) \in SUBSET Ids /\ (n = 0 => UseIds(By, k, n) = {})
BY DEF UseIds, Ids

LEMMA ReplyAppended ==
    ASSUME NEW x \in Runs, x.step # 0, NEW n \in 0..MaxUses
    PROVE  LET y == WithReply(x, By, n) IN
           /\ y \in Runs /\ SameVerdict(y, x) /\ y.unhandled = x.unhandled
           /\ y.final \in SUBSET Ids /\ (n = 0 => y.final = {})
           /\ y.msgs = Append(x.msgs, Reply(y.final, By))
<1> DEFINE u == UseIds(By, x.step, n)
           h == Append(x.msgs, Reply(u, By))
           y == [x EXCEPT !.msgs = h, !.final = u, !.replied = TRUE]
<1>1. x.step \in 1..MaxSteps /\ x.msgs \in Histories
  BY DEF Runs
<1>2. u \in SUBSET Ids /\ (n = 0 => u = {})
  BY <1>1, CallIdsOfStep
<1> HIDE DEF u
<1>3. h \in Histories
  BY <1>1, <1>2 DEF Histories, Reply, Message, By
<1> HIDE DEF h
<1>4. /\ y \in Runs /\ SameVerdict(y, x) /\ y.final = u /\ y.msgs = h
      /\ y.unhandled = x.unhandled
  BY <1>2, <1>3 DEF Runs, SameVerdict
<1>5. WithReply(x, By, n) = y
  BY DEF WithReply, u, h
<1> HIDE DEF y
<1>6. QED
  BY <1>2, <1>4, <1>5 DEF h

LEMMA ResultsAppended ==
    ASSUME NEW x \in Runs, NEW stop
    PROVE  LET y == Answered(x, By, stop) IN
           /\ y \in Runs /\ SameVerdict(y, x)
           /\ y.msgs = IF stop \in {"tool_use", "max_tokens"} /\ x.final # {}
                       THEN Append(x.msgs, Results(x.final, By)) ELSE x.msgs
           /\ y.unhandled = IF stop = "other" THEN x.unhandled \cup x.final ELSE x.unhandled
<1> DEFINE h == Append(x.msgs, Results(x.final, By))
           o == x.unhandled \cup x.final
           y == [x EXCEPT !.msgs = h]
           z == [x EXCEPT !.unhandled = o]
<1>1. h \in Histories
  BY DEF Runs, Histories, Results, Message, By
<1> HIDE DEF h
<1>2. y \in Runs /\ SameVerdict(y, x) /\ y.msgs = h /\ y.unhandled = x.unhandled
  BY <1>1 DEF Runs, SameVerdict
<1>3. o \in SUBSET Ids
  BY DEF Runs
<1>4. [x EXCEPT !.unhandled = @ \cup x.final] = z
  BY DEF Runs
<1> HIDE DEF o
<1>5. z \in Runs /\ SameVerdict(z, x) /\ z.msgs = x.msgs /\ z.unhandled = o
  BY <1>3 DEF Runs, SameVerdict
<1> HIDE DEF z
<1>6. /\ stop \in {"tool_use", "max_tokens"} /\ x.final # {} => Answered(x, By, stop) = y
      /\ stop = "other" => Answered(x, By, stop) = z
      /\ ~(stop \in {"tool_use", "max_tokens"} /\ x.final # {}) /\ stop # "other" =>
            Answered(x, By, stop) = x
  BY <1>4 DEF Answered, h
<1> HIDE DEF y
<1>7. CASE stop = "other"
  BY <1>5, <1>6, <1>7 DEF o
<1>8. CASE stop \in {"tool_use", "max_tokens"} /\ x.final # {}
  BY <1>2, <1>6, <1>8 DEF h
<1>9. CASE ~(stop \in {"tool_use", "max_tokens"} /\ x.final # {}) /\ stop # "other"
  BY <1>6, <1>9 DEF SameVerdict
<1>10. QED
  BY <1>7, <1>8, <1>9

LEMMA FailedFields ==
    ASSUME NEW x \in Runs, NEW why \in {"cancelled", "llm_error", "exceeded_max_steps"}
    PROVE  LET y == MarkFailed(x, why) IN
           /\ y \in Runs /\ y.msgs = x.msgs /\ y.step = x.step /\ y.unhandled = x.unhandled
           /\ y.status = "failed" /\ y.reason = why
BY DEF MarkFailed, Runs

\* end_turn first, then the step limit.
LEMMA JudgeFields ==
    ASSUME NEW x \in Runs, NEW stop
    PROVE  LET y == Judge(x, stop, MaxSteps) IN
           /\ y \in Runs /\ y.msgs = x.msgs /\ y.step = x.step /\ y.unhandled = x.unhandled
           /\ stop = "end_turn" => y.status = "success" /\ y.reason = x.reason
           /\ stop # "end_turn" /\ x.step >= MaxSteps =>
                 y.status = "failed" /\ y.reason = "exceeded_max_steps"
           /\ stop # "end_turn" /\ ~(x.step >= MaxSteps) => y = x
<1>1. CASE stop = "end_turn"
  <2> DEFINE y == [x EXCEPT !.status = "success"]
  <2>1. /\ y \in Runs /\ y.msgs = x.msgs /\ y.step = x.step /\ y.unhandled = x.unhandled
        /\ y.status = "success" /\ y.reason = x.reason
    BY DEF Runs
  <2>2. Judge(x, stop, MaxSteps) = y
    BY <1>1 DEF Judge
  <2>3. QED
    BY <1>1, <2>1, <2>2
<1>2. CASE stop # "end_turn" /\ x.step >= MaxSteps
  <2>1. Judge(x, stop, MaxSteps) = MarkFailed(x, "exceeded_max_steps")
    BY <1>2 DEF Judge
  <2>2. QED
    BY <1>2, <2>1, FailedFields
<1>3. CASE stop # "end_turn" /\ ~(x.step >= MaxSteps)
  BY <1>3 DEF Judge
<1>4. QED
  BY <1>1, <1>2, <1>3

\* The step is counted.
LEMMA SteppedFields ==
    ASSUME NEW x \in Runs, x.step < MaxSteps
    PROVE  LET y == [x EXCEPT !.step = @ + 1] IN
           /\ y \in Runs /\ y.step = x.step + 1 /\ y.step # 0 /\ y.msgs = x.msgs
           /\ y.status = x.status /\ y.reason = x.reason /\ y.unhandled = x.unhandled
<1> DEFINE n == x.step + 1
           y == [x EXCEPT !.step = n]
<1>1. n \in 0..MaxSteps /\ n # 0
  BY DEF Runs
<1> HIDE DEF n
<1>2. /\ y \in Runs /\ y.step = n /\ y.msgs = x.msgs /\ y.unhandled = x.unhandled
      /\ y.status = x.status /\ y.reason = x.reason
  BY <1>1 DEF Runs
<1>3. QED
  BY <1>1, <1>2 DEF n

\* A whole turn on a run that goes on: a history that was paired is paired again, but for the
\* calls nothing answers, unless the turn ended the run; its outcome fits the stop reason.
LEMMA TurnFields ==
    ASSUME NEW x \in Runs, x.step # 0, x.status = "running", x.reason = "none",
           PairedBut(x.msgs, x.unhandled),
           NEW stop, NEW n \in 0..MaxUses, [stop |-> stop, uses |-> n] \in ReplyKinds(MaxUses)
    PROVE  LET y == Answered(WithReply(x, By, n), By, stop)
               z == Judge(y, stop, MaxSteps) IN
           /\ y \in Runs /\ y.step = x.step /\ y.status = "running" /\ y.reason = "none"
           /\ z \in Runs /\ z.step = x.step
           /\ z.status = "running" => z.reason = "none" /\ stop # "end_turn" /\ z.step < MaxSteps
                                      /\ PairedBut(z.msgs, z.unhandled)
           /\ z.status = "success" => z.reason = "none" /\ stop = "end_turn"
           /\ z.status = "failed" => z.reason = "exceeded_max_steps" /\ stop # "end_turn"
                                     /\ z.step = MaxSteps
<1> DEFINE w == WithReply(x, By, n)
           y == Answered(w, By, stop)
           z == Judge(y, stop, MaxSteps)
<1>1. /\ w \in Runs /\ SameVerdict(w, x) /\ w.final \in SUBSET Ids /\ (n = 0 => w.final = {})
      /\ w.unhandled = x.unhandled /\ w.msgs = Append(x.msgs, Reply(w.final, By))
  BY ReplyAppended
<1> HIDE DEF w
<1>2. /\ y \in Runs /\ SameVerdict(y, w)
      /\ y.msgs = IF stop \in {"tool_use", "max_tokens"} /\ w.final # {}
                  THEN Append(w.msgs, Results(w.final, By)) ELSE w.msgs
      /\ y.unhandled = IF stop = "other" THEN w.unhandled \cup w.final ELSE w.unhandled
  BY <1>1, ResultsAppended
<1> HIDE DEF y
<1>3. /\ z \in Runs /\ z.msgs = y.msgs /\ z.step = y.step /\ z.unhandled = y.unhandled
      /\ stop = "end_turn" => z.status = "success" /\ z.reason = y.reason
      /\ stop # "end_turn" /\ y.step >= MaxSteps =>
            z.status = "failed" /\ z.reason = "exceeded_max_steps"
      /\ stop # "end_turn" /\ ~(y.step >= MaxSteps) => z = y
  BY <1>2, JudgeFields
<1> HIDE DEF z
<1>4. y.step = x.step /\ y.status = "running" /\ y.reason = "none"
  BY <1>1, <1>2 DEF SameVerdict
<1>5. x.step \in 0..MaxSteps
  BY DEF Runs
<1>6. stop # "end_turn" => PairedBut(y.msgs, y.unhandled)
  <2> SUFFICES ASSUME stop # "end_turn"
               PROVE  PairedBut(y.msgs, y.unhandled)
    OBVIOUS
  <2> DEFINE M == [role : {"user", "assistant"}, uses : SUBSET Ids, results : SUBSET Ids,
                   by : {By, "summary"}]
             a == Reply(w.final, By)
             b == Results(w.final, By)
  <2>1. x.msgs \in Seq(M)
    BY DEF Runs, Histories
  <2>2. /\ a \in M /\ a.uses = w.final /\ a.results = {}
        /\ b \in M /\ b.uses = {} /\ b.results = w.final
    BY <1>1 DEF Reply, Results, Message, By
  <2> HIDE DEF M
  <2>3. CASE stop \in {"tool_use", "max_tokens"} /\ w.final # {}
    <3> HIDE DEF a, b
    <3>1. PairedBut(Append(Append(x.msgs, a), b), x.unhandled)
      BY <2>1, <2>2, PairedPair
    <3>2. y.msgs = Append(Append(x.msgs, a), b) /\ y.unhandled = x.unhandled
      BY <1>1, <1>2, <2>3 DEF a, b
    <3>3. QED
      BY <3>1, <3>2
  <2>4. CASE ~(stop \in {"tool_use", "max_tokens"} /\ w.final # {})
    <3>1. stop = "other" \/ w.final = {}
      BY <2>4 DEF ReplyKinds
    <3>2. /\ y.msgs = Append(x.msgs, a) /\ x.unhandled \subseteq y.unhandled
          /\ w.final \subseteq y.unhandled
      BY <1>1, <1>2, <2>4, <3>1
    <3> HIDE DEF a, b
    <3>3. QED
      BY <2>1, <2>2, <3>2, PairedPlain
  <2>5. QED
    BY <2>3, <2>4
<1>7. QED
  BY <1>1, <1>2, <1>3, <1>4, <1>5, <1>6 DEF w, y, z

LEMMA CompactedFields ==
    ASSUME NEW x \in Runs
    PROVE  LET y == Compacted(x) IN
           /\ y \in Runs /\ PairedBut(y.msgs, y.unhandled) /\ y.step = x.step
           /\ y.status = x.status /\ y.reason = x.reason
BY PairedStarts DEF Compacted, Runs

-----------------------------------------------------------------------------
(* What the goroutine of a call can do to the record of its call.           *)

\* The call goes on without a new attempt, or starts one.
Moves(i, c) ==
    /\ c.at \in {"asking", "backoff", "done"}
    /\ c.at = "asking" => calls[i].at = "started"
    /\ c.at = "backoff" => ~ctxDone
    /\ afterAbort' = afterAbort

Attempts(i, c) ==
    /\ c.at = "running" /\ calls[i].at \in {"asking", "backoff"}
    /\ afterAbort' = [afterAbort EXCEPT !.attempts[i] = @ + IF ctxDone THEN 1 ELSE 0]

LEMMA CallEffect ==
    ASSUME TypeOK, CallsOK, NEW i \in CallIds, CallStep(i)
    PROVE  /\ pc = "tools" /\ calls[i].at \in Busy
           /\ UNCHANGED <<pc, run, reply, registered, ctxDone, cancelling, aborts, sentLive, before>>
           /\ \E c \in Calls : /\ calls' = [calls EXCEPT ![i] = c] /\ CallOK(c)
                               /\ Moves(i, c) \/ Attempts(i, c)
<1> DEFINE c == calls[i]
<1>1. /\ c \in Calls /\ c.attempt \in 0..(MaxRetries + 1) /\ c.failedEvents \in 0..(MaxRetries + 1)
      /\ c.granted \in BOOLEAN /\ c.at \in {"idle", "done"} \cup Busy /\ CallOK(c)
  BY DEF TypeOK, CallsOK, Calls
<1>2. CallStep(i) => c.at \in Busy
  BY DEF CallStep, Reject, Ask, Refused, Granted, ToolSucceeds, ToolFailsAndRetries,
         ToolFailsForGood, EndBackoff, Busy
<1>3. pc = "tools" /\ c.at \in Busy
  BY <1>2 DEF CallsOK, NoStrayCalls
<1>4. UNCHANGED <<pc, run, reply, registered, ctxDone, cancelling, aborts, sentLive, before>>
  BY DEF CallStep, Reject, Ask, Refused, Granted, ToolSucceeds, ToolFailsAndRetries,
         ToolFailsForGood, EndBackoff, Fails, Attempt, SetCall, abortVars
<1>5. ASSUME NEW d \in Calls, calls' = [calls EXCEPT ![i] = d], CallOK(d),
             Moves(i, d) \/ Attempts(i, d)
      PROVE  \E e \in Calls : /\ calls' = [calls EXCEPT ![i] = e] /\ CallOK(e)
                              /\ Moves(i, e) \/ Attempts(i, e)
  BY <1>5
<1>6. CASE Reject(i) \/ Refused(i) \/ ToolFailsForGood(i)
  <2> DEFINE d == [c EXCEPT !.at = "done", !.failedEvents = c.failedEvents + 1]
  <2>1. c.failedEvents + 1 \in 0..(MaxRetries + 1)
    BY <1>1, <1>6 DEF CallOK, Reject, Refused, ToolFailsForGood
  <2>2. d \in Calls /\ d.at = "done"
    BY <1>1, <2>1 DEF Calls
  <2>3. calls' = [calls EXCEPT ![i] = d] /\ afterAbort' = afterAbort
    BY <1>6 DEF Reject, Refused, ToolFailsForGood, Fails, SetCall
  <2> HIDE DEF d
  <2>4. QED
    BY <1>3, <1>4, <1>5, <2>2, <2>3 DEF Moves, CallOK
<1>7. CASE Ask(i)
  <2> DEFINE d == [c EXCEPT !.at = "asking"]
  <2>1. d \in Calls /\ d.at = "asking" /\ d.attempt = c.attempt /\ d.failedEvents = c.failedEvents
    BY <1>1 DEF Calls, Busy
  <2>2. calls' = [calls EXCEPT ![i] = d] /\ afterAbort' = afterAbort /\ c.at = "started"
    BY <1>7 DEF Ask, SetCall
  <2> HIDE DEF d
  <2>3. QED
    BY <1>1, <1>3, <1>4, <1>5, <2>1, <2>2 DEF Moves, CallOK
<1>8. CASE ToolSucceeds(i)
  <2> DEFINE d == [c EXCEPT !.at = "done"]
  <2>1. d \in Calls /\ d.at = "done"
    BY <1>1 DEF Calls
  <2>2. calls' = [calls EXCEPT ![i] = d] /\ afterAbort' = afterAbort
    BY <1>8 DEF ToolSucceeds, SetCall
  <2> HIDE DEF d
  <2>3. QED
    BY <1>3, <1>4, <1>5, <2>1, <2>2 DEF Moves, CallOK
<1>9. CASE ToolFailsAndRetries(i)
  <2> DEFINE d == [c EXCEPT !.at = "backoff", !.failedEvents = c.failedEvents + 1]
  <2>1. ~ctxDone /\ c.attempt <= MaxRetries /\ c.failedEvents + 1 = c.attempt
    BY <1>1, <1>9 DEF CallOK, ToolFailsAndRetries, MayRetry
  <2>2. /\ d \in Calls /\ d.at = "backoff" /\ d.attempt = c.attempt
        /\ d.failedEvents = c.failedEvents + 1
    BY <1>1, <2>1 DEF Calls, Busy
  <2>3. calls' = [calls EXCEPT ![i] = d] /\ afterAbort' = afterAbort
    BY <1>9 DEF ToolFailsAndRetries, SetCall
  <2> HIDE DEF d
  <2>4. QED
    BY <1>3, <1>4, <1>5, <2>1, <2>2, <2>3 DEF Moves, CallOK
<1>10. ASSUME NEW g \in BOOLEAN, Attempt(i, g), c.at \in {"asking", "backoff"}
       PROVE  \E e \in Calls : /\ calls' = [calls EXCEPT ![i] = e] /\ CallOK(e)
                               /\ Moves(i, e) \/ Attempts(i, e)
  <2> DEFINE n == c.attempt + 1
             d == [c EXCEPT !.at = "running", !.attempt = n, !.granted = g]
  <2>1. n \in 0..(MaxRetries + 1) /\ n >= 1 /\ c.failedEvents = n - 1
    <3>1. c.attempt \in Nat /\ c.attempt <= MaxRetries /\ c.failedEvents = c.attempt
      BY <1>1, <1>10 DEF CallOK
    <3> HIDE DEF c
    <3>2. QED
      BY <3>1
  <2> HIDE DEF n
  <2>2. d \in Calls /\ d.at = "running" /\ d.attempt = n /\ d.failedEvents = c.failedEvents
    BY <1>1, <2>1 DEF Calls, Busy
  <2>3. calls' = [calls EXCEPT ![i] = d] /\ Attempts(i, d)
    BY <1>10, <2>2 DEF Attempt, SetCall, Attempts, n
  <2> HIDE DEF d
  <2>4. QED
    BY <1>5, <2>1, <2>2, <2>3 DEF CallOK
<1>11. CASE Granted(i) \/ EndBackoff(i)
  BY <1>1, <1>3, <1>4, <1>10, <1>11 DEF Granted, EndBackoff
<1>12. QED
  BY <1>6, <1>7, <1>8, <1>9, <1>11 DEF CallStep

-----------------------------------------------------------------------------
(* The type invariant and the counters of the calls.                        *)

LEMMA FreshFields ==
    /\ Fresh(<<Prompt(By)>>) \in Runs /\ Ready(Fresh(<<Prompt(By)>>))
    /\ Fresh(<<Prompt(By)>>).status = "running" /\ Fresh(<<Prompt(By)>>).reason = "none"
BY PairedStarts DEF Fresh, Runs, Ready

LEMMA StartingCalls ==
    /\ Idle \in Calls /\ Idle.at = "idle" /\ CallOK(Idle)
    /\ [Idle EXCEPT !.at = "started"] \in Calls /\ [Idle EXCEPT !.at = "started"].at = "started"
    /\ CallOK([Idle EXCEPT !.at = "started"])
<1>1. Idle \in Calls /\ Idle.at = "idle" /\ Idle.attempt = 0 /\ Idle.failedEvents = 0
  BY DEF Idle, Calls
<1>2. LET c == [Idle EXCEPT !.at = "started"] IN
      c \in Calls /\ c.at = "started" /\ c.attempt = 0 /\ c.failedEvents = 0
  BY <1>1 DEF Calls, Busy
<1>3. QED
  BY <1>1, <1>2 DEF CallOK

LEMMA IInvInit == Init => IInv
<1> SUFFICES ASSUME Init PROVE IInv
  OBVIOUS
<1>1. aborts \in Seq(BOOLEAN) /\ Len(aborts) = 0 /\ Range(aborts) = {}
  BY DEF Init, Range
<1>2. Len(aborts) <= MaxAborts /\ Len(aborts) + 0 <= MaxAborts
  BY <1>1
<1>3. pc = "starting" /\ registered = FALSE /\ ctxDone = FALSE /\ sentLive = TRUE /\ cancelling = FALSE
  BY DEF Init
<1>4. NoReply \in Replies /\ NoReply.stop = "none"
  BY DEF NoReply, Replies
<1>5. TypeOK
  <2>1. calls \in [CallIds -> Calls] /\ run \in Runs /\ before \in Runs /\ reply \in Replies
    BY <1>4, FreshFields, StartingCalls DEF Init
  <2>2. afterAbort \in [replies : Nat, attempts : [CallIds -> Nat]]
    BY DEF Init
  <2>3. QED
    BY <1>2, <1>3, <1>1, <2>1, <2>2 DEF TypeOK
<1>6. Progress
  BY <1>4, FreshFields DEF Init, Progress, Outcome, Between
<1>7. CallsOK
  BY StartingCalls DEF Init, CallsOK, NoStrayCalls, Busy
<1>8. AbortOK /\ RegistryOK
  <2>1. afterAbort.replies = 0 /\ \A i \in CallIds : afterAbort.attempts[i] = 0
    BY DEF Init
  <2>2. AbortOK
    BY <2>1 DEF AbortOK, AbortBoundsWork
  <2>3. RegistryOK
    BY <1>2, <1>1, <1>3 DEF RegistryOK
  <2>4. QED
    BY <2>2, <2>3
<1>9. QED
  BY <1>5, <1>6, <1>7, <1>8 DEF IInv

\* What a reply makes of the run and of its calls.
LEMMA ReplyFields ==
    ASSUME TypeOK, Progress, ChatReturns
    PROVE  /\ pc = "chat" /\ sentLive /\ reply' \in Replies /\ KindOK' /\ run' \in Runs
           /\ \/ /\ pc' = "tools" /\ run' = Replied' /\ reply'.stop = "tool_use" /\ reply'.uses > 0
                 /\ calls' \in [CallIds -> Calls]
                 /\ \A i \in CallIds :
                       CallOK(calls'[i]) /\ calls'[i].at = IF i <= reply'.uses THEN "started" ELSE "idle"
              \/ /\ pc' = "judge" /\ run' = Acted' /\ calls' = calls
           /\ UNCHANGED <<registered, ctxDone, cancelling, aborts, sentLive, before>>
           /\ afterAbort' = [afterAbort EXCEPT !.replies = @ + IF ctxDone THEN 1 ELSE 0]
<1>1. /\ pc = "chat" /\ sentLive /\ UNCHANGED <<registered, ctxDone, cancelling, aborts, sentLive, before>>
      /\ afterAbort' = [afterAbort EXCEPT !.replies = @ + IF ctxDone THEN 1 ELSE 0]
  BY DEF ChatReturns, abortVars
<1>2. PICK k \in ReplyKinds(MaxUses), full \in BOOLEAN :
          /\ reply' = [stop |-> k.stop, uses |-> k.uses, full |-> full]
          /\ LET x == WithReply(run, By, k.uses) IN
             \/ /\ k.stop = "tool_use" /\ k.uses > 0
                /\ run' = x
                /\ calls' = [i \in CallIds |-> IF i <= k.uses THEN [Idle EXCEPT !.at = "started"] ELSE Idle]
                /\ pc' = "tools"
             \/ /\ ~(k.stop = "tool_use" /\ k.uses > 0)
                /\ run' = Answered(x, By, k.stop)
                /\ pc' = "judge"
                /\ UNCHANGED calls
  BY DEF ChatReturns
<1>3. /\ k.uses \in 0..MaxUses /\ k.stop \in {"tool_use", "max_tokens", "end_turn", "other"}
      /\ [stop |-> k.stop, uses |-> k.uses] = k
  BY DEF ReplyKinds
<1>4. reply' \in Replies /\ reply'.stop = k.stop /\ reply'.uses = k.uses /\ KindOK'
  BY <1>2, <1>3 DEF Replies, KindOK
<1>5. /\ run = Stepped /\ Ready(before) /\ Stepped' = Stepped /\ before \in Runs
  BY <1>1 DEF Progress, Between, Stepped, TypeOK
<1>6. run \in Runs /\ run.step # 0
  BY <1>5, SteppedFields DEF Stepped, Ready
<1>7. WithReply(run, By, k.uses) = Replied' /\ Answered(WithReply(run, By, k.uses), By, k.stop) = Acted'
  BY <1>4, <1>5 DEF Replied, Acted
<1>8. Replied' \in Runs /\ Acted' \in Runs
  BY <1>3, <1>6, <1>7, ReplyAppended, ResultsAppended
<1>9. CASE pc' = "tools"
  <2>1. calls' = [i \in CallIds |-> IF i <= k.uses THEN [Idle EXCEPT !.at = "started"] ELSE Idle]
        /\ run' = WithReply(run, By, k.uses) /\ k.stop = "tool_use" /\ k.uses > 0
    BY <1>2, <1>9
  <2>2. /\ calls' \in [CallIds -> Calls]
        /\ \A i \in CallIds :
              CallOK(calls'[i]) /\ calls'[i].at = IF i <= k.uses THEN "started" ELSE "idle"
    BY <2>1, StartingCalls
  <2>3. QED
    BY <1>1, <1>4, <1>7, <1>8, <1>9, <2>1, <2>2
<1>10. CASE pc' # "tools"
  BY <1>1, <1>2, <1>4, <1>7, <1>8, <1>10
<1>11. QED
  BY <1>9, <1>10

LEMMA AttemptCounted ==
    ASSUME TypeOK, NEW i \in CallIds, NEW c, Attempts(i, c)
    PROVE  /\ afterAbort' \in [replies : Nat, attempts : [CallIds -> Nat]]
           /\ afterAbort'.replies = afterAbort.replies
           /\ afterAbort'.attempts[i] = afterAbort.attempts[i] + (IF ctxDone THEN 1 ELSE 0)
           /\ \A j \in CallIds \ {i} : afterAbort'.attempts[j] = afterAbort.attempts[j]
<1> DEFINE n == IF ctxDone THEN 1 ELSE 0
           f == [afterAbort.attempts EXCEPT ![i] = @ + n]
<1>1. n \in Nat /\ afterAbort.attempts \in [CallIds -> Nat] /\ afterAbort.replies \in Nat
  BY DEF TypeOK
<1>2. afterAbort' = [afterAbort EXCEPT !.attempts = f]
  BY DEF Attempts
<1> HIDE DEF n
<1>3. /\ f \in [CallIds -> Nat] /\ f[i] = afterAbort.attempts[i] + n
      /\ \A j \in CallIds \ {i} : f[j] = afterAbort.attempts[j]
  BY <1>1
<1> HIDE DEF f
<1>4. QED
  BY <1>1, <1>2, <1>3 DEF TypeOK, n

LEMMA TypeStep == IInv /\ [Next]_vars => TypeOK'
<1> SUFFICES ASSUME TypeOK, Progress, CallsOK, RegistryOK, [Next]_vars
             PROVE  TypeOK'
  BY DEF IInv
<1>1. CASE Register \/ Return \/ Finish \/ Shutdown \/ UNCHANGED vars
  BY <1>1 DEF Register, Return, Finish, Shutdown, DoneLeaves, TypeOK, abortVars, vars
<1>2. CASE Abort
  <2>1. Len(aborts') <= MaxAborts /\ aborts' \in Seq(BOOLEAN)
    <3>1. CASE aborts' = aborts
      BY <3>1 DEF TypeOK
    <3>2. CASE aborts' = Append(aborts, FALSE)
      <4>1. Len(aborts) < MaxAborts
        BY <1>2 DEF Abort, TypeOK
      <4>2. aborts' \in Seq(BOOLEAN) /\ Len(aborts') = Len(aborts) + 1 /\ Len(aborts) \in Nat
        BY <3>2, AppendProperties, LenProperties DEF TypeOK
      <4>3. QED
        BY <4>1, <4>2
    <3>3. QED
      BY <1>2, <3>1, <3>2 DEF Abort
  <2>2. QED
    BY <1>2, <2>1 DEF Abort, TypeOK
<1>3. CASE AbortCancels
  <2>1. Len(aborts') <= MaxAborts /\ aborts' \in Seq(BOOLEAN)
    <3>1. Len(aborts) < MaxAborts
      BY <1>3 DEF AbortCancels, RegistryOK, TypeOK
    <3>2. aborts' \in Seq(BOOLEAN) /\ Len(aborts') = Len(aborts) + 1 /\ Len(aborts) \in Nat
      BY <1>3, AppendProperties, LenProperties DEF AbortCancels, TypeOK
    <3>3. QED
      BY <3>1, <3>2
  <2>2. QED
    BY <1>3, <2>1 DEF AbortCancels, TypeOK
<1>4. CASE Request
  <2>1. run' \in Runs /\ before' \in Runs
    BY <1>4, SteppedFields DEF Request, GoesOn, TypeOK
  <2>2. reply' \in Replies
    BY <1>4 DEF Request, NoReply, Replies
  <2>3. calls' \in [CallIds -> Calls]
    BY <1>4, StartingCalls DEF Request
  <2>4. QED
    BY <1>4, <2>1, <2>2, <2>3 DEF Request, TypeOK, abortVars
<1>5. CASE ChatFails
  <2>1. run' \in Runs
    BY <1>5, FailedFields DEF ChatFails, TypeOK
  <2>2. QED
    BY <1>5, <2>1 DEF ChatFails, TypeOK, abortVars
<1>6. CASE ChatReturns
  <2>1. afterAbort' \in [replies : Nat, attempts : [CallIds -> Nat]]
    BY <1>6, ReplyFields DEF TypeOK
  <2>2. calls' \in [CallIds -> Calls]
    BY <1>6, ReplyFields DEF TypeOK
  <2>3. QED
    BY <1>6, <2>1, <2>2, ReplyFields DEF TypeOK
<1>7. CASE Gather
  <2>1. run' \in Runs
    BY <1>7, ResultsAppended DEF Gather, TypeOK
  <2>2. QED
    BY <1>7, <2>1 DEF Gather, TypeOK, abortVars
<1>8. CASE EndIteration
  <2>1. run' \in Runs
    BY <1>8, JudgeFields DEF EndIteration, TypeOK
  <2>2. QED
    BY <1>8, <2>1 DEF EndIteration, TypeOK, abortVars
<1>9. CASE Compact
  <2>1. run' \in Runs
    BY <1>9, CompactedFields DEF Compact, TypeOK
  <2>2. QED
    BY <1>9, <2>1 DEF Compact, TypeOK, abortVars
<1>10. ASSUME NEW i \in CallIds, CallStep(i) PROVE TypeOK'
  <2>1. PICK c \in Calls : calls' = [calls EXCEPT ![i] = c] /\ (Moves(i, c) \/ Attempts(i, c))
    BY <1>10, CallEffect
  <2>2. calls' \in [CallIds -> Calls]
    BY <2>1 DEF TypeOK
  <2>3. afterAbort' \in [replies : Nat, attempts : [CallIds -> Nat]]
    BY <2>1, AttemptCounted DEF TypeOK, Moves
  <2>4. QED
    BY <1>10, <2>2, <2>3, CallEffect DEF TypeOK
<1>11. QED
  BY <1>1, <1>2, <1>3, <1>4, <1>5, <1>6, <1>7, <1>8, <1>9, <1>10 DEF Next, LoopStep

LEMMA CallsStep == IInv /\ [Next]_vars => CallsOK'
<1> SUFFICES ASSUME TypeOK, Progress, CallsOK, [Next]_vars
             PROVE  CallsOK'
  BY DEF IInv
<1>1. ASSUME calls' = calls, reply' = reply, pc # "tools", pc' # "tools" PROVE CallsOK'
  BY <1>1 DEF CallsOK, NoStrayCalls
<1>2. ASSUME UNCHANGED <<pc, calls, reply>> PROVE CallsOK'
  BY <1>2 DEF CallsOK, NoStrayCalls
<1>3. CASE Register \/ ChatFails \/ EndIteration \/ Compact \/ Return \/ Finish
  BY <1>1, <1>3 DEF Register, ChatFails, EndIteration, Compact, Return, Finish
<1>4. CASE Abort \/ AbortCancels \/ Shutdown \/ UNCHANGED vars
  BY <1>2, <1>4 DEF Abort, AbortCancels, Shutdown, vars
<1>5. CASE Request
  BY <1>5, StartingCalls DEF Request, CallsOK, NoStrayCalls, Busy
<1>6. CASE ChatReturns
  <2>1. CASE pc' = "tools"
    <3>1. reply'.uses \in Nat
      BY <1>6, ReplyFields DEF Replies
    <3>2. \A i \in CallIds : CallOK(calls'[i]) /\ (i > reply'.uses => calls'[i].at = "idle")
      BY <1>6, <2>1, <3>1, ReplyFields
    <3>3. QED
      BY <2>1, <3>2 DEF CallsOK, NoStrayCalls
  <2>2. CASE pc' # "tools"
    BY <1>6, <2>2, ReplyFields DEF CallsOK, NoStrayCalls
  <2>3. QED
    BY <2>1, <2>2
<1>7. CASE Gather
  <2>1. ASSUME NEW i \in CallIds PROVE calls[i].at \notin Busy
    <3>1. CASE i > reply.uses
      BY <1>7, <3>1 DEF Gather, CallsOK, Busy
    <3>2. CASE ~(i > reply.uses)
      <4>1. i \in 1..reply.uses
        BY <3>2 DEF TypeOK, Replies
      <4>2. QED
        BY <1>7, <4>1 DEF Gather, AllDone, Busy
    <3>3. QED
      BY <3>1, <3>2
  <2>2. QED
    BY <1>7, <2>1 DEF Gather, CallsOK, NoStrayCalls
<1>8. ASSUME NEW i \in CallIds, CallStep(i) PROVE CallsOK'
  <2>1. /\ pc = "tools" /\ pc' = "tools" /\ reply' = reply /\ calls[i].at \in Busy
    BY <1>8, CallEffect
  <2>2. PICK c \in Calls : calls' = [calls EXCEPT ![i] = c] /\ CallOK(c)
    BY <1>8, CallEffect
  <2>3. calls'[i] = c /\ \A j \in CallIds \ {i} : calls'[j] = calls[j]
    BY <2>2 DEF TypeOK
  <2>4. ~(i > reply.uses)
    BY <2>1 DEF CallsOK, Busy
  <2>5. QED
    BY <2>1, <2>2, <2>3, <2>4 DEF CallsOK, NoStrayCalls
<1>9. QED
  BY <1>3, <1>4, <1>5, <1>6, <1>7, <1>8 DEF Next, LoopStep

-----------------------------------------------------------------------------
(* The run between and within its iterations.                               *)

\* What the iteration under way makes of the run once it is judged.
LEMMA JudgedFields ==
    ASSUME TypeOK, KindOK, Ready(before)
    PROVE  /\ Judged \in Runs
           /\ Judged.status = "running" => Ready(Judged) /\ reply.stop # "end_turn"
           /\ Judged.status = "success" => Judged.reason = "none" /\ reply.stop = "end_turn"
           /\ Judged.status = "failed" => /\ Judged.reason = "exceeded_max_steps"
                                          /\ reply.stop # "end_turn" /\ Judged.step = MaxSteps
<1>1. /\ Stepped \in Runs /\ Stepped.step # 0 /\ Stepped.status = "running"
      /\ Stepped.reason = "none" /\ PairedBut(Stepped.msgs, Stepped.unhandled)
  BY SteppedFields DEF TypeOK, Ready, Stepped
<1>2. reply.uses \in 0..MaxUses /\ [stop |-> reply.stop, uses |-> reply.uses] \in ReplyKinds(MaxUses)
  BY DEF TypeOK, Replies, KindOK
<1> HIDE DEF Stepped
<1>3. QED
  BY <1>1, <1>2, TurnFields DEF Judged, Acted, Replied, Ready

\* A run that fails, however, ends its iteration with a true reason.
LEMMA OutcomeOfJudged ==
    ASSUME TypeOK, KindOK, Ready(before), run' = Judged, reply' = reply
    PROVE  Outcome'
<1>1. Judged.status \in {"running", "success", "failed"}
  BY JudgedFields DEF Runs
<1>2. CASE Judged.status = "running"
  <2>1. Ready(Judged) /\ reply.stop # "end_turn"
    BY <1>2, JudgedFields
  <2>2. QED
    BY <1>2, <2>1 DEF Outcome, Ready
<1>3. CASE Judged.status = "success"
  BY <1>3, JudgedFields DEF Outcome
<1>4. CASE Judged.status = "failed"
  BY <1>4, JudgedFields DEF Outcome, KindOK
<1>5. QED
  BY <1>1, <1>2, <1>3, <1>4

LEMMA ProgressStep == IInv /\ [Next]_vars => Progress'
<1> SUFFICES ASSUME TypeOK, Progress, CallsOK, [Next]_vars
             PROVE  Progress'
  BY DEF IInv
<1>1. ASSUME UNCHANGED <<pc, run, reply, before>>, ctxDone => ctxDone' PROVE Progress'
  <2>1. /\ Stepped' = Stepped /\ Replied' = Replied /\ Acted' = Acted /\ Judged' = Judged
        /\ Outcome => Outcome'
    BY <1>1 DEF Stepped, Replied, Acted, Judged, Outcome
  <2>2. QED
    BY <1>1, <2>1 DEF Progress, KindOK
<1>2. CASE Abort \/ AbortCancels \/ Shutdown \/ UNCHANGED vars
  <2>1. UNCHANGED <<pc, run, reply, before>>
    BY <1>2 DEF Abort, AbortCancels, Shutdown, vars
  <2>2. ctxDone => ctxDone'
    BY <1>2 DEF Abort, AbortCancels, Shutdown, vars
  <2>3. QED
    BY <1>1, <2>1, <2>2
<1>3. ASSUME NEW i \in CallIds, CallStep(i) PROVE Progress'
  BY <1>1, <1>3, CallEffect
<1>4. CASE Register \/ Finish
  <2>1. UNCHANGED <<run, reply, ctxDone>> /\ pc \in Between /\ pc' \in {"head", "finished"}
        /\ (pc' = "finished" => pc = "returned")
    BY <1>4 DEF Register, Finish, abortVars, Between
  <2>2. QED
    BY <2>1 DEF Progress, Outcome, Between
<1>5. CASE Return
  <2>1. UNCHANGED <<run, reply, ctxDone>> /\ pc = "head" /\ pc' = "returned" /\ ~GoesOn
    BY <1>5 DEF Return
  <2>2. run.status # "running"
    BY <2>1 DEF Progress, Outcome, Between, Ready, GoesOn
  <2>3. QED
    BY <2>1, <2>2 DEF Progress, Outcome, Between
<1>6. CASE Request
  <2>1. Ready(run)
    BY <1>6 DEF Request, GoesOn, Progress, Outcome, Between
  <2>2. run' = Stepped' /\ before' = run /\ reply' = NoReply /\ pc' = "chat"
    BY <1>6 DEF Request, Stepped
  <2>3. QED
    BY <2>1, <2>2 DEF Progress, Between, Ready
<1>7. CASE ChatFails
  <2>1. /\ pc = "chat" /\ pc' = "head" /\ reply' = reply /\ ctxDone' = ctxDone
        /\ run' = MarkFailed(run, IF ctxDone THEN "cancelled" ELSE "llm_error")
    BY <1>7 DEF ChatFails, abortVars
  <2>2. reply.stop = "none"
    BY <2>1 DEF Progress, NoReply
  <2>3. run'.status = "failed" /\ run'.reason = IF ctxDone THEN "cancelled" ELSE "llm_error"
    BY <2>1, FailedFields DEF TypeOK
  <2>4. QED
    BY <2>1, <2>2, <2>3 DEF Progress, Outcome, Between
<1>8. CASE ChatReturns
  <2>1. Ready(before)
    BY <1>8 DEF ChatReturns, Progress, Between
  <2>2. QED
    BY <1>8, <2>1, ReplyFields DEF Progress, Between
<1>9. CASE Gather
  <2>1. /\ pc = "tools" /\ pc' = "judge" /\ UNCHANGED <<reply, before>>
        /\ run' = Answered(run, By, reply.stop)
    BY <1>9 DEF Gather
  <2>2. Ready(before) /\ run' = Acted'
    BY <2>1 DEF Progress, Between, Acted, Replied, Stepped
  <2>3. KindOK'
    BY <2>1 DEF Progress, KindOK, ReplyKinds, TypeOK, Replies
  <2>4. QED
    BY <2>1, <2>2, <2>3 DEF Progress, Between
<1>10. CASE EndIteration
  <2>1. /\ pc = "judge" /\ UNCHANGED <<reply, before>> /\ run' = Judged
        /\ pc' = IF Compacts(Judged) THEN "compact" ELSE "head"
    BY <1>10 DEF EndIteration, Progress, Judged
  <2>2. Ready(before) /\ KindOK
    BY <2>1 DEF Progress, Between
  <2>3. CASE Compacts(Judged)
    <3>1. Judged' = Judged /\ KindOK'
      BY <2>1, <2>2 DEF Judged, Acted, Replied, Stepped, KindOK
    <3>2. QED
      BY <2>1, <2>2, <2>3, <3>1 DEF Progress, Between, Compacts
  <2>4. CASE ~Compacts(Judged)
    BY <2>1, <2>2, <2>4, OutcomeOfJudged DEF Progress, Between
  <2>5. QED
    BY <2>3, <2>4
<1>11. CASE Compact
  <2>1. /\ pc = "compact" /\ pc' = "head" /\ UNCHANGED <<reply, ctxDone>>
        /\ run' = run \/ run' = Compacted(run)
    BY <1>11 DEF Compact, abortVars
  <2>2. Ready(before) /\ KindOK /\ run = Judged /\ run.status = "running"
    BY <2>1 DEF Progress, Between
  <2>3. Ready(run) /\ reply.stop # "end_turn"
    BY <2>2, JudgedFields
  <2>4. Ready(run') /\ run'.status = "running"
    BY <2>1, <2>2, <2>3, CompactedFields DEF TypeOK, Ready
  <2>5. QED
    BY <2>1, <2>3, <2>4 DEF Progress, Between, Outcome, Ready
<1>12. QED
  BY <1>2, <1>3, <1>4, <1>5, <1>6, <1>7, <1>8, <1>9, <1>10, <1>11 DEF Next, LoopStep

-----------------------------------------------------------------------------
(* The work after a cancellation, and the registry.                         *)

LEMMA AbortStep == IInv /\ [Next]_vars => AbortOK'
<1> SUFFICES ASSUME TypeOK, CallsOK, AbortOK, Progress, [Next]_vars
             PROVE  AbortOK'
  BY DEF IInv
<1> USE DEF AbortOK, AbortBoundsWork
<1>0. afterAbort.replies \in Nat /\ \A i \in CallIds : afterAbort.attempts[i] \in Nat
  BY DEF TypeOK
<1>1. CASE Register \/ ChatFails \/ Gather \/ Compact \/ Return \/ Finish
  <2>1. UNCHANGED <<calls, ctxDone, afterAbort>> /\ pc' # "chat"
    BY <1>1 DEF Register, ChatFails, Gather, Compact, Return, Finish, abortVars
  <2>2. QED
    BY <2>1
<1>2. CASE Abort \/ UNCHANGED vars
  <2>1. UNCHANGED <<pc, calls, ctxDone, sentLive, afterAbort>>
    BY <1>2 DEF Abort, vars
  <2>2. QED
    BY <2>1
<1>3. CASE AbortCancels \/ Shutdown
  <2>1. UNCHANGED <<pc, calls, sentLive, afterAbort>> /\ ctxDone'
    BY <1>3 DEF AbortCancels, Shutdown
  <2>2. QED
    BY <2>1
<1>4. CASE EndIteration
  <2>1. UNCHANGED <<calls, ctxDone, afterAbort>> /\ pc' # "chat"
    BY <1>4 DEF EndIteration, abortVars
  <2>2. QED
    BY <2>1
<1>5. CASE Request
  <2>1. UNCHANGED <<ctxDone, afterAbort>> /\ (ctxDone => ~sentLive')
        /\ \A i \in CallIds : calls'[i].at = "idle"
    BY <1>5, StartingCalls DEF Request, abortVars
  <2>2. QED
    BY <1>0, <2>1
<1>6. CASE ChatReturns
  <2>1. afterAbort.replies = 0 /\ \A i \in CallIds : afterAbort.attempts[i] = 0
    <3>1. pc = "chat" /\ sentLive
      BY <1>6 DEF ChatReturns
    <3>2. QED
      BY <1>0, <3>1
  <2>2. ctxDone' = ctxDone /\ pc' # "chat"
        /\ afterAbort' = [afterAbort EXCEPT !.replies = @ + IF ctxDone THEN 1 ELSE 0]
    BY <1>6, ReplyFields
  <2>3. /\ afterAbort'.replies = IF ctxDone THEN 1 ELSE 0
        /\ \A i \in CallIds : afterAbort'.attempts[i] = 0
    BY <2>1, <2>2 DEF TypeOK
  <2>4. QED
    BY <2>2, <2>3
<1>7. ASSUME NEW i \in CallIds, CallStep(i) PROVE AbortOK'
  <2>1. pc' = "tools" /\ calls[i].at \in Busy /\ ctxDone' = ctxDone
    BY <1>7, CallEffect
  <2>2. PICK c \in Calls : calls' = [calls EXCEPT ![i] = c] /\ (Moves(i, c) \/ Attempts(i, c))
    BY <1>7, CallEffect
  <2>3. calls'[i] = c /\ \A j \in CallIds \ {i} : calls'[j] = calls[j]
    BY <2>2 DEF TypeOK
  <2>4. CASE Moves(i, c)
    <3>1. afterAbort' = afterAbort
      BY <2>4 DEF Moves
    <3>2. afterAbort.attempts[i] = 1 => c.at = "done"
      BY <2>1, <2>4 DEF Moves, Busy
    <3>3. QED
      BY <2>1, <2>3, <3>1, <3>2
  <2>5. CASE Attempts(i, c)
    <3>1. c.at = "running" /\ calls[i].at \in {"asking", "backoff"}
      BY <2>5 DEF Attempts
    <3>2. afterAbort.attempts[i] = 0
      BY <1>0, <3>1
    <3>3. /\ afterAbort'.replies = afterAbort.replies
          /\ afterAbort'.attempts[i] = IF ctxDone THEN 1 ELSE 0
          /\ \A j \in CallIds \ {i} : afterAbort'.attempts[j] = afterAbort.attempts[j]
      BY <2>5, <3>2, AttemptCounted
    <3>4. QED
      BY <2>1, <2>3, <3>1, <3>3
  <2>6. QED
    BY <2>2, <2>4, <2>5
<1>8. QED
  BY <1>1, <1>2, <1>3, <1>4, <1>5, <1>6, <1>7 DEF Next, LoopStep

\* The answers of agent.abort grow by one.
LEMMA AnswerAdded ==
    ASSUME aborts \in Seq(BOOLEAN), NEW b \in BOOLEAN, aborts' = Append(aborts, b)
    PROVE  /\ Len(aborts') = Len(aborts) + 1 /\ Len(aborts) \in Nat
           /\ aborts'[Len(aborts')] = b
           /\ TRUE \in Range(aborts') => TRUE \in Range(aborts) \/ b
<1>1. /\ Len(aborts) \in Nat /\ Len(aborts') = Len(aborts) + 1 /\ aborts'[Len(aborts) + 1] = b
      /\ \A i \in 1..Len(aborts) : aborts'[i] = aborts[i]
      /\ DOMAIN aborts = 1..Len(aborts) /\ DOMAIN aborts' = 1..(Len(aborts) + 1)
  BY AppendProperties, LenProperties
<1>2. ASSUME NEW i \in DOMAIN aborts', aborts'[i] = TRUE PROVE TRUE \in Range(aborts) \/ b
  <2>1. CASE i = Len(aborts) + 1
    BY <1>1, <1>2, <2>1
  <2>2. CASE i # Len(aborts) + 1
    <3>1. i \in 1..Len(aborts)
      BY <1>1, <2>2
    <3>2. aborts[i] = TRUE /\ i \in DOMAIN aborts
      BY <1>1, <1>2, <3>1
    <3>3. QED
      BY <3>2 DEF Range
  <2>3. QED
    BY <2>1, <2>2
<1>3. QED
  BY <1>1, <1>2 DEF Range

LEMMA RegistryStep == IInv /\ [Next]_vars => RegistryOK'
<1> SUFFICES ASSUME TypeOK, CallsOK, RegistryOK, Progress, [Next]_vars
             PROVE  RegistryOK'
  BY DEF IInv
<1> USE DEF RegistryOK
<1>0. aborts \in Seq(BOOLEAN) /\ Len(aborts) \in Nat
  BY LenProperties DEF TypeOK
<1>1. CASE Register
  BY <1>1 DEF Register
<1>2. CASE Abort
  <2>1. CASE registered
    <3>1. /\ UNCHANGED <<aborts, pc>> /\ cancelling' /\ ~registered'
          /\ Len(aborts) + (IF cancelling THEN 1 ELSE 0) < MaxAborts
      BY <1>2, <2>1 DEF Abort
    <3>2. TRUE \notin Range(aborts) /\ pc # "starting" /\ ~cancelling
      BY <2>1
    <3>3. Len(aborts) < MaxAborts
      BY <1>0, <3>1, <3>2
    <3>4. QED
      BY <2>1, <3>1, <3>2, <3>3
  <2>2. CASE ~registered
    <3>1. /\ aborts' = Append(aborts, FALSE) /\ UNCHANGED <<cancelling, registered, pc>>
          /\ cancelling => Len(aborts) + 1 < MaxAborts
      BY <1>2, <2>2 DEF Abort
    <3>2. /\ Len(aborts') = Len(aborts) + 1
          /\ TRUE \in Range(aborts') => TRUE \in Range(aborts)
      BY <1>0, <3>1, AnswerAdded
    <3>3. QED
      BY <1>0, <2>2, <3>1, <3>2
  <2>3. QED
    BY <2>1, <2>2
<1>3. CASE AbortCancels
  <2>1. /\ cancelling /\ ~cancelling' /\ aborts' = Append(aborts, TRUE) /\ UNCHANGED <<registered, pc>>
    BY <1>3 DEF AbortCancels, TypeOK
  <2>2. ~registered /\ pc # "starting"
    BY <2>1
  <2>3. Len(aborts') = Len(aborts) + 1
    BY <1>0, <2>1, AnswerAdded
  <2>4. QED
    BY <2>1, <2>2, <2>3
<1>4. CASE Shutdown \/ UNCHANGED vars
  <2>1. UNCHANGED <<pc, registered, cancelling, aborts>>
    BY <1>4 DEF Shutdown, vars
  <2>2. QED
    BY <2>1
<1>5. CASE Request \/ ChatFails \/ Gather \/ EndIteration \/ Compact
  <2>1. /\ UNCHANGED <<registered, cancelling, aborts>> /\ pc # "starting"
        /\ pc' \notin {"starting", "returned", "finished"}
    BY <1>5 DEF Request, ChatFails, Gather, EndIteration, Compact, abortVars
  <2>2. QED
    BY <2>1
<1>6. CASE ChatReturns
  <2>1. UNCHANGED <<registered, cancelling, aborts>> /\ pc = "chat" /\ pc' \in {"tools", "judge"}
    BY <1>6, ReplyFields
  <2>2. QED
    BY <2>1
<1>7. CASE Return \/ Finish
  <2>1. /\ UNCHANGED <<cancelling, aborts>> /\ ~registered' /\ pc # "starting" /\ pc' # "starting"
    BY <1>7 DEF Return, Finish, DoneLeaves, abortVars
  <2>2. QED
    BY <2>1
<1>8. ASSUME NEW i \in CallIds, CallStep(i) PROVE RegistryOK'
  BY <1>8, CallEffect
<1>9. QED
  BY <1>1, <1>2, <1>3, <1>4, <1>5, <1>6, <1>7, <1>8 DEF Next, LoopStep

\* The inductive invariant holds in every reachable state.
THEOREM InductiveInvariant == Spec => []IInv
<1>1. IInv /\ [Next]_vars => IInv'
  BY TypeStep, ProgressStep, CallsStep, AbortStep, RegistryStep DEF IInv
<1>2. QED
  BY <1>1, IInvInit, PTL DEF Spec

\* Every variable keeps its type: no run passes its step limit, no call is tried more than
\* MaxRetries + 1 times, no message is anything but a prompt, a reply or results.
THEOREM TypeCorrect == Spec => []TypeOK
<1>1. IInv => TypeOK
  BY DEF IInv
<1>2. QED
  BY <1>1, InductiveInvariant, PTL

\* In every request to the model each reply's tool calls are answered by the message after it,
\* and no result is without its call, whatever the step limit, the number of calls and the
\* order they end in; the calls of a reply with a stop reason the loop has no case for are
\* the only exception.
THEOREM RequestsAlwaysPaired == Spec => []RequestsPaired
<1>1. IInv => RequestsPaired
  <2> SUFFICES ASSUME IInv, pc = "chat"
               PROVE  PairedBut(run.msgs, run.unhandled)
    BY DEF RequestsPaired
  <2>1. run = Stepped /\ Ready(before)
    BY DEF IInv, Progress, Between
  <2>2. QED
    BY <2>1, SteppedFields DEF IInv, TypeOK, Ready, Stepped
<1>2. QED
  BY <1>1, InductiveInvariant, PTL

\* No goroutine of a tool call outlives the reply it belongs to.
THEOREM CallsNeverStray == Spec => []NoStrayCalls
<1>1. IInv => NoStrayCalls
  BY DEF IInv, CallsOK
<1>2. QED
  BY <1>1, InductiveInvariant, PTL

\* After a cancellation at most one more reply comes in, and each of its calls starts at most
\* one more attempt, for any number of calls, retries and aborts.
THEOREM AbortAlwaysBounds == Spec => []AbortBoundsWork
<1>1. IInv => AbortBoundsWork
  BY DEF IInv, AbortOK
<1>2. QED
  BY <1>1, InductiveInvariant, PTL

\* run.finished never reports a status or a reason that did not happen.
THEOREM FinishedTellsTruth == Spec => []EndsTruthfully
<1>1. IInv => EndsTruthfully
  <2> SUFFICES ASSUME IInv, pc = "finished"
               PROVE  /\ run.reason = "cancelled" => ctxDone
                      /\ run.status = "success" <=> run.reason = "none"
                      /\ run.status = "success" <=> reply.stop = "end_turn"
                      /\ run.reason = "exceeded_max_steps" => run.step = MaxSteps /\ reply.stop # "none"
    BY DEF EndsTruthfully
  <2>1. Outcome /\ run.status # "running" /\ run.status \in {"running", "success", "failed"}
    BY DEF IInv, Progress, Between, TypeOK, Runs
  <2>2. QED
    BY <2>1 DEF Outcome
<1>2. QED
  BY <1>1, InductiveInvariant, PTL

\* agent.abort answers true at most once, with the run cancelled by then, and never takes the
\* cancel function of a run whose loop has returned.
THEOREM AbortAnswersTrue == Spec => AbortAnswers
<1> DEFINE A == /\ ~cancelling /\ cancelling' => pc \notin {"returned", "finished"}
                /\ aborts' # aborts /\ aborts'[Len(aborts')] => TRUE \notin Range(aborts) /\ ctxDone'
<1>1. IInv /\ [Next]_vars => [A]_vars
  <2> SUFFICES ASSUME TypeOK, CallsOK, RegistryOK, Next
               PROVE  A
    BY DEF IInv
  <2>1. ASSUME UNCHANGED <<cancelling, aborts>> PROVE A
    BY <2>1
  <2>2. CASE LoopStep
    <3>1. UNCHANGED <<cancelling, aborts>>
      BY <2>2 DEF LoopStep, Register, Request, ChatFails, ChatReturns, Gather, EndIteration,
                  Compact, Return, Finish, abortVars
    <3>2. QED
      BY <2>1, <3>1
  <2>3. CASE Shutdown \/ \E i \in CallIds : CallStep(i)
    <3>1. UNCHANGED <<cancelling, aborts>>
      BY <2>3, CallEffect DEF Shutdown
    <3>2. QED
      BY <2>1, <3>1
  <2>4. CASE Abort
    <3>1. CASE registered
      <4>1. aborts' = aborts /\ pc \notin {"returned", "finished"}
        BY <2>4, <3>1 DEF Abort, RegistryOK
      <4>2. QED
        BY <4>1
    <3>2. CASE ~registered
      <4>1. cancelling' = cancelling /\ aborts' = Append(aborts, FALSE)
        BY <2>4, <3>2 DEF Abort
      <4>2. aborts'[Len(aborts')] = FALSE
        BY <4>1, AnswerAdded DEF TypeOK
      <4>3. QED
        BY <4>1, <4>2
    <3>3. QED
      BY <3>1, <3>2
  <2>5. CASE AbortCancels
    <3>1. cancelling /\ ctxDone' /\ TRUE \notin Range(aborts)
      BY <2>5 DEF AbortCancels, RegistryOK
    <3>2. QED
      BY <3>1
  <2>6. QED
    BY <2>2, <2>3, <2>4, <2>5 DEF Next
<1>2. QED
  BY <1>1, InductiveInvariant, PTL DEF Spec, AbortAnswers

-----------------------------------------------------------------------------
(* The refinement of RunSteps.                                              *)

\* The instance has the same conversation operators.
LEMMA SameIterations ==
    ASSUME NEW x
    PROVE  Steps!Iterations(x, By, MaxSteps, MaxUses, Compaction)
             = Iterations(x, By, MaxSteps, MaxUses, Compaction)
BY DEF Steps!Iterations, Iterations, Steps!MarkFailed, MarkFailed, Steps!Judge, Judge,
       Steps!Answered, Answered, Steps!WithReply, WithReply, Steps!Compacted, Compacted,
       Steps!ReplyKinds, ReplyKinds, Steps!Reply, Reply, Steps!Results, Results,
       Steps!Message, Message, Steps!UseIds, UseIds, Steps!Handoff, Handoff, Steps!Prompt, Prompt

LEMMA FailureIterates ==
    ASSUME NEW why \in {"cancelled", "llm_error"}
    PROVE  MarkFailed(Stepped, why) \in Iterations(before, By, MaxSteps, MaxUses, Compaction)
BY DEF Iterations, Stepped

LEMMA JudgedIterates ==
    ASSUME KindOK
    PROVE  Judged \in Iterations(before, By, MaxSteps, MaxUses, Compaction)
BY DEF Iterations, Judged, Acted, Replied, Stepped, KindOK

LEMMA CompactedIterates ==
    ASSUME KindOK, Compaction, reply.stop = "tool_use", Judged.status = "running"
    PROVE  Compacted(Judged) \in Iterations(before, By, MaxSteps, MaxUses, Compaction)
BY DEF Iterations, Judged, Acted, Replied, Stepped, KindOK

LEMMA StepsInit == Init => Steps!Init
BY DEF Init, Settled, Steps!Init, Steps!Fresh, Fresh, Steps!Prompt, Prompt, Steps!Message, Message

\* An iteration of the run before it is one of RunSteps.
LEMMA IterationMaps ==
    ASSUME Settled = before, Ready(before),
           Settled' \in Iterations(before, By, MaxSteps, MaxUses, Compaction)
    PROVE  Steps!Iterate
BY SameIterations DEF Steps!Iterate, Ready

LEMMA StepsStep == IInv /\ [Next]_vars => [Steps!Iterate]_Settled
<1> SUFFICES ASSUME TypeOK, Progress, CallsOK, Next, Settled' # Settled
             PROVE  Steps!Iterate
  BY DEF IInv, Settled, vars
<1>1. ASSUME UNCHANGED <<pc, run, before>> PROVE FALSE
  BY <1>1 DEF Settled
<1>2. CASE Abort \/ AbortCancels \/ Shutdown
  BY <1>1, <1>2 DEF Abort, AbortCancels, Shutdown
<1>3. ASSUME NEW i \in CallIds, CallStep(i) PROVE FALSE
  BY <1>1, <1>3, CallEffect
<1>4. CASE Register \/ Return \/ Finish
  BY <1>4 DEF Register, Return, Finish, Settled
<1>5. CASE Request
  BY <1>5 DEF Request, Settled
<1>6. CASE ChatReturns
  BY <1>6, ReplyFields DEF Settled
<1>7. CASE Gather
  BY <1>7 DEF Gather, Settled
<1>8. CASE ChatFails
  <2>1. Settled = before /\ Settled' = run' /\ run = Stepped /\ Ready(before)
    BY <1>8 DEF ChatFails, Settled, Progress, Between
  <2>2. run' = MarkFailed(Stepped, IF ctxDone THEN "cancelled" ELSE "llm_error")
    BY <1>8, <2>1 DEF ChatFails
  <2>3. QED
    BY <2>1, <2>2, FailureIterates, IterationMaps
<1>9. CASE EndIteration
  <2>1. Settled = before /\ run' = Judged /\ KindOK /\ Ready(before)
        /\ (pc' = "head" => Settled' = run') /\ (pc' # "head" => Settled' = before)
    BY <1>9 DEF EndIteration, Settled, Progress, Between, Judged
  <2>2. QED
    BY <2>1, JudgedIterates, IterationMaps
<1>10. CASE Compact
  <2>1. /\ Settled = before /\ Settled' = run' /\ run = Judged /\ KindOK /\ Ready(before)
        /\ Compaction /\ reply.stop = "tool_use" /\ run.status = "running"
        /\ run' = run \/ run' = Compacted(run)
    BY <1>10 DEF Compact, Settled, Progress, Between
  <2>2. QED
    BY <2>1, JudgedIterates, CompactedIterates, IterationMaps
<1>11. QED
  BY <1>2, <1>3, <1>4, <1>5, <1>6, <1>7, <1>8, <1>9, <1>10 DEF Next, LoopStep

\* The loop with its goroutines, retries, compactions and aborts implements RunSteps: between
\* two iterations its record changes by whole iterations only, and not once it is decided.
THEOREM RunStepsRefined == Spec => ImplementsRunSteps
<1>1. QED
  BY StepsInit, StepsStep, InductiveInvariant, PTL DEF Spec, ImplementsRunSteps, Steps!Spec
=============================================================================
