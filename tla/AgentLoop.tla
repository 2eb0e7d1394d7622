----------------------------- MODULE AgentLoop -----------------------------
(***************************************************************************)
(* One run: runWithCancellation (internal/transport/handler.go), the ReAct  *)
(* loop of internal/loop with its parallel tool goroutines, the Invoker of  *)
(* internal/tools with its retries, and the registry behind agent.abort.    *)
(* Any number of goroutines of one reply interleave with each other, with   *)
(* the permission gate's answers and with an abort.                         *)
(***************************************************************************)
EXTENDS Messages, Functions

CONSTANTS
    MaxSteps,       \* execCtx.MaxSteps
    MaxUses,        \* bound on the tool calls of one reply
    MaxRetries,     \* tools.maxRetries: retries after the first attempt
    Compaction,     \* whether a compactor and a threshold are configured
    MaxAborts       \* bound on the agent.abort calls

ASSUME LoopAssumption ==
    /\ MaxSteps \in Nat \ {0} /\ MaxUses \in Nat /\ MaxRetries \in Nat
    /\ MaxAborts \in Nat /\ Compaction \in BOOLEAN

VARIABLES
    pc,             \* where the run's goroutine is
    run,            \* execCtx
    reply,          \* the current reply: stop reason, number of calls, context_pct high
    calls,          \* calls[i]: the goroutine of the i-th tool call
    registered,     \* the run id is in runCanceler.m
    ctxDone,        \* the run's context is cancelled
    sentLive,       \* the request under way was sent before the cancellation
    before,         \* history: run at the start of the iteration
    cancelling,     \* an agent.abort has taken the run's cancel function
    aborts,         \* history: what agent.abort returned so far
    afterAbort      \* history: what was done after the cancellation

vars == <<pc, run, reply, calls, registered, ctxDone, sentLive,
          before, cancelling, aborts, afterAbort>>
abortVars == <<registered, ctxDone, cancelling, aborts>>

CallIds == 1..MaxUses
NoReply == [stop |-> "none", uses |-> 0, full |-> FALSE]
Idle    == [at |-> "idle", attempt |-> 0, granted |-> FALSE, failedEvents |-> 0]
By      == "run"

Busy == {"started", "asking", "running", "backoff"}

Init ==
    /\ pc = "starting"
    /\ run = Fresh(<<Prompt(By)>>)
    /\ reply = NoReply
    /\ calls = [i \in CallIds |-> Idle]
    /\ registered = FALSE
    /\ ctxDone = FALSE
    /\ sentLive = TRUE
    /\ before = Fresh(<<Prompt(By)>>)
    /\ cancelling = FALSE
    /\ aborts = <<>>
    /\ afterAbort = [replies |-> 0, attempts |-> [i \in CallIds |-> 0]]

-----------------------------------------------------------------------------
\* run.started has been published; the cancel function is registered after it.
Register ==
    /\ pc = "starting"
    /\ registered' = TRUE
    /\ pc' = "head"
    /\ UNCHANGED <<run, reply, calls, ctxDone, sentLive, before, cancelling, aborts, afterAbort>>

\* agent.abort, under the registry's lock: the run id is found and removed, or not
\* found and the answer is false.
Abort ==
    /\ Len(aborts) + (IF cancelling THEN 1 ELSE 0) < MaxAborts
    /\ \/ registered /\ cancelling' = TRUE /\ registered' = FALSE /\ UNCHANGED aborts
       \/ ~registered /\ aborts' = Append(aborts, FALSE) /\ UNCHANGED <<cancelling, registered>>
    /\ UNCHANGED <<pc, run, reply, calls, ctxDone, sentLive, before, afterAbort>>

\* After the unlock: the cancel function is called, and the answer is true.
AbortCancels ==
    /\ cancelling
    /\ cancelling' = FALSE
    /\ ctxDone' = TRUE
    /\ aborts' = Append(aborts, TRUE)
    /\ UNCHANGED <<pc, run, reply, calls, registered, sentLive, before, afterAbort>>

\* The core stops: the connection's context, the parent of the run's, is cancelled.
Shutdown ==
    /\ ~ctxDone
    /\ ctxDone' = TRUE
    /\ UNCHANGED <<pc, run, reply, calls, registered, sentLive, before, cancelling, aborts, afterAbort>>

\* Mutant: the loop looks at the step limit only.
RunsOnRegardless == run.step < MaxSteps

GoesOn == run.status = "running" /\ run.step < MaxSteps

\* The head of the loop: one more step, and a request to the model.
Request ==
    /\ pc = "head"
    /\ GoesOn
    /\ run' = [run EXCEPT !.step = @ + 1]
    /\ before' = run
    /\ sentLive' = ~ctxDone
    /\ reply' = NoReply
    /\ calls' = [i \in CallIds |-> Idle]
    /\ pc' = "chat"
    /\ UNCHANGED <<abortVars, afterAbort>>

\* Chat fails: for good, or because of the cancellation.
ChatFails ==
    /\ pc = "chat"
    /\ run' = MarkFailed(run, IF ctxDone THEN "cancelled" ELSE "llm_error")
    /\ pc' = "head"
    /\ UNCHANGED <<reply, calls, abortVars, sentLive, before, afterAbort>>

\* Chat returns a reply; a request sent after the cancellation cannot.
ChatReturns ==
    /\ pc = "chat"
    /\ sentLive
    /\ \E k \in ReplyKinds(MaxUses), full \in BOOLEAN :
          /\ reply' = [stop |-> k.stop, uses |-> k.uses, full |-> full]
          /\ LET x == WithReply(run, By, k.uses) IN
             \/ /\ k.stop = "tool_use" /\ k.uses > 0
                /\ run' = x
                /\ calls' = [i \in CallIds |-> IF i <= k.uses THEN [Idle EXCEPT !.at = "started"] ELSE Idle]
                /\ pc' = "tools"
             \/ /\ ~(k.stop = "tool_use" /\ k.uses > 0)
                /\ run' = Answered(x, By, k.stop)
                /\ pc' = "judge"
                /\ UNCHANGED calls
    /\ afterAbort' = [afterAbort EXCEPT !.replies = @ + IF ctxDone THEN 1 ELSE 0]
    /\ UNCHANGED <<abortVars, sentLive, before>>

-----------------------------------------------------------------------------
(* Invoker.Invoke, in the goroutine of call i.                              *)
SetCall(i, c) ==
    /\ calls' = [calls EXCEPT ![i] = c]
    /\ UNCHANGED <<pc, run, reply, abortVars, sentLive, before>>

\* fail: the last tool.call_failed of the call, and an error result.
Fails(i) == SetCall(i, [calls[i] EXCEPT !.at = "done", !.failedEvents = @ + 1])

\* Unknown tool or invalid parameters: the gate is not asked.
Reject(i) ==
    /\ calls[i].at = "started"
    /\ Fails(i)
    /\ UNCHANGED afterAbort

Ask(i) ==
    /\ calls[i].at = "started"
    /\ SetCall(i, [calls[i] EXCEPT !.at = "asking"])
    /\ UNCHANGED afterAbort

\* The gate refuses: a human, the policy, the timer or the cancellation.
Refused(i) ==
    /\ calls[i].at = "asking"
    /\ Fails(i)
    /\ UNCHANGED afterAbort

\* An attempt starts: tool.Invoke is entered.
Attempt(i, granted) ==
    /\ SetCall(i, [calls[i] EXCEPT !.at = "running", !.attempt = @ + 1, !.granted = granted])
    /\ afterAbort' = [afterAbort EXCEPT !.attempts[i] = @ + IF ctxDone THEN 1 ELSE 0]

Granted(i) ==
    /\ calls[i].at = "asking"
    /\ Attempt(i, TRUE)

ToolSucceeds(i) ==
    /\ calls[i].at = "running"
    /\ SetCall(i, [calls[i] EXCEPT !.at = "done"])
    /\ UNCHANGED afterAbort

\* Mutant: one retry too many.
RetriesOnceMore(i) == ~ctxDone /\ calls[i].attempt <= MaxRetries + 1

\* Mutant: the cancellation is not looked at after a failed attempt.
RetriesAborted(i) == calls[i].attempt <= MaxRetries

MayRetry(i) == ~ctxDone /\ calls[i].attempt <= MaxRetries

\* runtime_error or rate_limited: tool.call_failed, then the backoff.
ToolFailsAndRetries(i) ==
    /\ calls[i].at = "running"
    /\ MayRetry(i)
    /\ SetCall(i, [calls[i] EXCEPT !.at = "backoff", !.failedEvents = @ + 1])
    /\ UNCHANGED afterAbort

\* A timeout, a final error type, the last attempt, or a cancelled run.
ToolFailsForGood(i) ==
    /\ calls[i].at = "running"
    /\ Fails(i)
    /\ UNCHANGED afterAbort

\* The backoff ends by its timer or by the cancellation; either way it goes on.
EndBackoff(i) ==
    /\ calls[i].at = "backoff"
    /\ Attempt(i, calls[i].granted)

\* Mutant: the group counts calls that were never started.
AllEverDone == \A i \in CallIds : calls[i].at = "done"

\* Mutant: the group is not waited for.
AnyDone == \E i \in 1..reply.uses : calls[i].at = "done"

AllDone == \A i \in 1..reply.uses : calls[i].at = "done"

\* wg.Wait returns and the results are appended in the order of the calls.
Gather ==
    /\ pc = "tools"
    /\ AllDone
    /\ run' = Answered(run, By, reply.stop)
    /\ pc' = "judge"
    /\ UNCHANGED <<reply, calls, abortVars, sentLive, before, afterAbort>>

-----------------------------------------------------------------------------
\* Mutant: a run that has ended is compacted too.
CompactsWhenDone(x) == Compaction /\ reply.full /\ reply.stop = "tool_use"

Compacts(x) ==
    /\ Compaction /\ reply.full
    /\ x.status = "running"
    /\ reply.stop = "tool_use"

\* The end of the iteration, and whether compactIfNeeded compacts.
EndIteration ==
    /\ pc = "judge"
    /\ run' = Judge(run, reply.stop, MaxSteps)
    /\ pc' = IF Compacts(Judge(run, reply.stop, MaxSteps)) THEN "compact" ELSE "head"
    /\ sentLive' = ~ctxDone
    /\ UNCHANGED <<reply, calls, abortVars, before, afterAbort>>

\* The compactor's request succeeds, or fails and the history is kept.
Compact ==
    /\ pc = "compact"
    /\ \/ UNCHANGED run
       \/ sentLive /\ run' = Compacted(run)
    /\ pc' = "head"
    /\ UNCHANGED <<reply, calls, abortVars, sentLive, before, afterAbort>>

\* Mutant: the run id is left in the registry.
LeftRegistered == registered

\* runCanceler.Done.
DoneLeaves == FALSE

\* Run returns; the run id is dropped from the registry.
Return ==
    /\ pc = "head"
    /\ ~GoesOn
    /\ registered' = DoneLeaves
    /\ pc' = "returned"
    /\ UNCHANGED <<run, reply, calls, ctxDone, sentLive, before, cancelling, aborts, afterAbort>>

\* run.finished, with the status, the reason and the number of steps.
Finish ==
    /\ pc = "returned"
    /\ pc' = "finished"
    /\ UNCHANGED <<run, reply, calls, abortVars, sentLive, before, afterAbort>>

CallStep(i) ==
    \/ Reject(i) \/ Ask(i) \/ Refused(i) \/ Granted(i)
    \/ ToolSucceeds(i) \/ ToolFailsAndRetries(i) \/ ToolFailsForGood(i) \/ EndBackoff(i)

LoopStep ==
    \/ Register \/ Request \/ ChatFails \/ ChatReturns
    \/ Gather \/ EndIteration \/ Compact \/ Return \/ Finish

Next == LoopStep \/ Abort \/ AbortCancels \/ Shutdown \/ \E i \in CallIds : CallStep(i)

Spec == Init /\ [][Next]_vars

\* The run's goroutine and those of its calls are scheduled; a request ends by
\* the HTTP client's timeout, an approval by the permission timeout, an attempt by
\* the tool timeout. Nobody has to abort.
FairSpec == Spec /\ WF_vars(LoopStep) /\ \A i \in CallIds : WF_vars(CallStep(i))

-----------------------------------------------------------------------------
(* Properties.                                                              *)
\* The ids of the tool calls of the run, the histories made of them, and its records.
Ids == {By} \X (1..MaxSteps) \X (1..MaxUses)

Histories == Seq([role : {"user", "assistant"}, uses : SUBSET Ids, results : SUBSET Ids,
                  by : {By, "summary"}])

Runs == [msgs : Histories, step : 0..MaxSteps, status : {"running", "success", "failed"},
         reason : {"none", "cancelled", "llm_error", "exceeded_max_steps"},
         final : SUBSET Ids, replied : BOOLEAN, compacted : BOOLEAN, unhandled : SUBSET Ids]

Replies == [stop : {"none", "tool_use", "max_tokens", "end_turn", "other"},
            uses : 0..MaxUses, full : BOOLEAN]

Calls == [at : {"idle", "done"} \cup Busy, attempt : 0..(MaxRetries + 1),
          granted : BOOLEAN, failedEvents : 0..(MaxRetries + 1)]

\* Every variable keeps its shape; in particular a run never passes its step limit
\* and no call is tried more than maxRetries + 1 times.
TypeOK ==
    /\ pc \in {"starting", "head", "chat", "tools", "judge", "compact", "returned", "finished"}
    /\ run \in Runs /\ before \in Runs /\ reply \in Replies
    /\ calls \in [CallIds -> Calls]
    /\ registered \in BOOLEAN /\ ctxDone \in BOOLEAN /\ sentLive \in BOOLEAN
    /\ cancelling \in BOOLEAN
    /\ aborts \in Seq(BOOLEAN) /\ Len(aborts) <= MaxAborts
    /\ afterAbort \in [replies : Nat, attempts : [CallIds -> Nat]]

\* In every request to the model the results of a reply's tool calls, all of them, follow
\* that reply, and no result is without its call: whatever the order in which the calls
\* ended, after a reply cut off by max_tokens, and after a compaction. The calls of a
\* reply with a stop reason that act has no case for are the only ones left open: the
\* loop asks on with them unanswered.
RequestsPaired == pc = "chat" => PairedBut(run.msgs, run.unhandled)

\* No goroutine of a tool call outlives the reply it belongs to: nothing runs, waits
\* for an approval or backs off once the loop has gone on or run.finished is out.
NoStrayCalls == pc # "tools" => \A i \in CallIds : calls[i].at \notin Busy

\* After a cancellation at most one more reply comes in (the request under way), and
\* each of its calls starts at most one more attempt: no retry and no new round.
AbortBoundsWork ==
    /\ afterAbort.replies <= 1
    /\ \A i \in CallIds : afterAbort.attempts[i] <= 1

\* run.finished tells the truth: cancelled only after a cancellation, success exactly
\* when the last reply ended the turn (also on the last step), the step limit
\* only when every step was used.
EndsTruthfully ==
    pc = "finished" =>
        /\ run.reason = "cancelled" => ctxDone
        /\ run.status = "success" <=> run.reason = "none"
        /\ run.status = "success" <=> reply.stop = "end_turn"
        /\ run.reason = "exceeded_max_steps" => run.step = MaxSteps /\ reply.stop # "none"

\* agent.abort answers true at most once in a run's life, with the run's context
\* cancelled by then, and finds nothing once the loop has returned: an abort of a
\* finished run is without effect.
AbortAnswers ==
    [][/\ ~cancelling /\ cancelling' => pc \notin {"returned", "finished"}
       /\ aborts' # aborts /\ aborts'[Len(aborts')] => TRUE \notin Range(aborts) /\ ctxDone']_vars

\* Every run ends with its run.finished, whether it is aborted, refused or retried.
RunEnds == <>(pc = "finished")

-----------------------------------------------------------------------------
\* One iteration of the loop, with all its goroutines, retries and cancellations, is
\* for the code around it one step of RunSteps (which the session module uses).
Settled == IF pc \in {"starting", "head", "returned", "finished"} THEN run ELSE before

Steps == INSTANCE RunSteps WITH x <- Settled, Prefill <- <<Prompt(By)>>

ImplementsRunSteps == Steps!Spec
=============================================================================
