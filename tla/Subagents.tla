----------------------------- MODULE Subagents -----------------------------
(***************************************************************************)
(* Sub-agents (internal/subagent/spawn.go): foreground and background        *)
(* children of a run, the retries of the call that waits for one, nesting,   *)
(* abort, time out and panic; the trace file of each run and what run.list   *)
(* and agent_result make of it; a process killed and started again.          *)
(***************************************************************************)
EXTENDS Naturals, Sequences, FiniteSets

CONSTANTS
    Tops,           \* bound on the top-level runs
    MaxCalls,       \* bound on the calls of spawn_agent
    MaxDepth,       \* maxSubagentDepth
    MaxRetries,     \* of a tool call
    MaxLong         \* bound on the runs with an event that run.list cannot read

ASSUME SubagentAssumption ==
    /\ Tops \in Nat \ {0} /\ MaxCalls \in Nat /\ MaxRetries \in Nat /\ MaxLong \in Nat
    /\ MaxDepth \in Nat \ {0}

VARIABLES
    run,            \* of each run: where it is, its status, whether its loop returned an error
    call,           \* of each call of spawn_agent: where it is, its run, its mode, its tries, the
                    \* depth of its children, and the runs whose cancellation reaches them
    cut,            \* the runs whose own context is cancelled, by an abort or a time out
    tasks,          \* the registry: the background children of this process
    trace,          \* the file of each run
    long,           \* the runs with a line longer than the reader takes
    late            \* history: the children a call has announced after its run was stopped

vars == <<run, call, cut, tasks, trace, long, late>>

Calls == 1..MaxCalls
Tries == 1..(MaxRetries + 1)

\* A run is <<0, k>>, the k-th top-level run, or <<c, k>>, the child of the k-th try of call c.
Runs == ({0} \X (1..Tops)) \cup (Calls \X Tries)
IsTop(r) == r[1] = 0
Parent(r) == call[r[1]].by
Background(r) == ~IsTop(r) /\ call[r[1]].mode = "bg"
Child(c) == <<c, call[c].tries>>

\* What is cancelled: the context of a foreground child hangs on that of its caller; a
\* background child runs on one of its own.
Context(r) == {r} \cup (IF IsTop(r) THEN {} ELSE call[r[1]].above)
IsStopped(r) == Context(r) \cap cut # {}

Depth(r) == IF IsTop(r) THEN 0 ELSE call[r[1]].depth

Over == {"none", "finished", "lost"}
Living(r) == run[r].at \notin Over
Settled == {"none", "returned", "lost"}

Init ==
    /\ run = [r \in Runs |-> [at |-> "none", status |-> "running", err |-> FALSE]]
    /\ call = [c \in Calls |-> [at |-> "none", by |-> <<0, 1>>, mode |-> "fg", tries |-> 0,
                                depth |-> 0, above |-> {}, result |-> "none"]]
    /\ cut = {} /\ tasks = {} /\ long = {}
    /\ trace = [r \in Runs |-> <<>>]
    /\ late = [c \in Calls |-> 0]

\* An event of a run is written to the file of the run its run_id names.
Written(r, event) == trace' = [trace EXCEPT ![r] = Append(@, event)]
Event(type, status) == [type |-> type, status |-> status]
Types == {"run.started", "run.finished", "subagent.started", "subagent.finished"}
Statuses == {"running", "success", "failed"}

-----------------------------------------------------------------------------
(* Runs.                                                                    *)

StartRun(k) ==
    LET r == <<0, k>> IN
    /\ run[r].at = "none" /\ \A j \in 1..(k - 1) : run[<<0, j>>].at # "none"
    /\ run' = [run EXCEPT ![r].at = "asking"]
    /\ Written(r, Event("run.started", "running"))
    /\ UNCHANGED <<call, cut, tasks, long, late>>

\* run.abort finds the cancel function of a top-level run only.
Abort(k) ==
    /\ run[<<0, k>>].at \in {"asking", "acting"} /\ <<0, k>> \notin cut
    /\ cut' = cut \cup {<<0, k>>}
    /\ UNCHANGED <<run, call, tasks, trace, long, late>>

\* buildChildRegistry and the check of Invoke: a run below the limit has the tool.
MayNest(r) == Depth(r) < MaxDepth

Used == {c \in Calls : call[c].at # "none"}

\* A call by run r that starts, for a child whose tool is one level deeper.
Called(r, mode) == [at |-> "trying", by |-> r, mode |-> mode, tries |-> 0, depth |-> Depth(r) + 1,
                    above |-> IF mode = "fg" THEN Context(r) ELSE {}, result |-> "none"]

\* A reply asks for sub-agents, one or two at once: act starts a call for each.
Act(r) ==
    /\ run[r].at = "asking" /\ ~IsStopped(r) /\ MayNest(r)
    /\ \E n \in 1..2 : \E mode \in [1..n -> {"fg", "bg"}] :
          LET k == Cardinality(Used) IN
          /\ k + n <= MaxCalls
          /\ call' = [c \in Calls |-> IF c \in (k + 1)..(k + n) THEN Called(r, mode[c - k])
                                                                ELSE call[c]]
    /\ run' = [run EXCEPT ![r].at = "acting"]
    /\ UNCHANGED <<cut, tasks, trace, long, late>>

\* wg.Wait: all the calls have returned, and the loop asks the model again.
ActDone(r) ==
    /\ run[r].at = "acting"
    /\ \A c \in Calls : call[c].by = r => call[c].at \in Settled
    /\ run' = [run EXCEPT ![r].at = "asking"]
    /\ UNCHANGED <<call, cut, tasks, trace, long, late>>

\* end_turn; a request of a stopped run is never answered.
Succeed(r) ==
    /\ run[r].at = "asking" /\ ~IsStopped(r)
    /\ run' = [run EXCEPT ![r] = [at |-> "ended", status |-> "success", err |-> FALSE]]
    /\ UNCHANGED <<call, cut, tasks, trace, long, late>>

\* Run returns an error only when it was stopped: a failed LLM call or too many steps
\* mark the context and return nil.
Fail(r) ==
    /\ run[r].at = "asking"
    /\ run' = [run EXCEPT ![r] = [at |-> "ended", status |-> "failed", err |-> IsStopped(r)]]
    /\ UNCHANGED <<call, cut, tasks, trace, long, late>>

\* Mutant: the panic is recovered after the point where the events are published.
NoEvents == [at |-> "finished", status |-> "failed", err |-> TRUE]

Recovered == [at |-> "ended", status |-> "failed", err |-> TRUE]

\* The loop of a child panics: runChild's deferred function marks it failed and goes on.
Panic(r) ==
    /\ run[r].at = "asking" /\ ~IsTop(r)
    /\ run' = [run EXCEPT ![r] = Recovered]
    /\ UNCHANGED <<call, cut, tasks, trace, long, late>>

PublishRunFinished(r) ==
    /\ run[r].at = "ended"
    /\ run' = [run EXCEPT ![r].at = IF IsTop(r) THEN "finished" ELSE "told"]
    /\ Written(r, Event("run.finished", run[r].status))
    /\ UNCHANGED <<call, cut, tasks, long, late>>

\* After it a background child's done is closed.
PublishSubagentFinished(r) ==
    /\ run[r].at = "told"
    /\ run' = [run EXCEPT ![r].at = "finished"]
    /\ Written(r, Event("subagent.finished", run[r].status))
    /\ UNCHANGED <<call, cut, tasks, long, late>>

-----------------------------------------------------------------------------
(* Calls of spawn_agent.                                                    *)

\* Invoke up to runChild: a background child is registered and the call returns at once.
Announce(c) ==
    /\ call[c].at = "trying"
    /\ LET child == <<c, call[c].tries + 1>>
           bg == call[c].mode = "bg"
       IN  /\ call' = [call EXCEPT ![c].tries = @ + 1, ![c].at = IF bg THEN "returned" ELSE "waiting",
                                   ![c].result = IF bg THEN "started" ELSE @]
           /\ run' = [run EXCEPT ![child].at = "announced"]
           /\ tasks' = IF bg THEN tasks \cup {child} ELSE tasks
           /\ Written(child, Event("subagent.started", "running"))
    /\ late' = IF IsStopped(call[c].by) THEN [late EXCEPT ![c] = @ + 1] ELSE late
    /\ UNCHANGED <<cut, long>>

ChildStarts(r) ==
    /\ run[r].at = "announced"
    /\ run' = [run EXCEPT ![r].at = "asking"]
    /\ Written(r, Event("run.started", "running"))
    /\ UNCHANGED <<call, cut, tasks, long, late>>

\* The time out of the try, which cancels the child.
TimeOut(c) ==
    /\ call[c].at = "waiting" /\ Child(c) \notin cut
    /\ cut' = cut \cup {Child(c)}
    /\ UNCHANGED <<run, call, tasks, trace, long, late>>

\* Mutant: a stopped run tries again as well.
RetriesStopped(c) == call[c].tries <= MaxRetries

\* Mutant: one retry too many.
OneTryMore(c) == call[c].tries <= MaxRetries + 1 /\ ~IsStopped(call[c].by)

Retries(c) == call[c].tries <= MaxRetries /\ ~IsStopped(call[c].by)

\* executeWithRetry after Invoke: too late, even for a child that succeeded; a result; a
\* failure for good, or to be tried again with another child.
Return(c) ==
    /\ call[c].at = "waiting" /\ run[Child(c)].at = "finished"
    /\ LET end(result) == call' = [call EXCEPT ![c].at = "returned", ![c].result = result]
           timedOut == Child(c) \in cut /\ ~IsStopped(call[c].by)
           success == run[Child(c)].status = "success"
       IN  \/ timedOut /\ end("timeout")
           \/ ~timedOut /\ success /\ end("success")
           \/ ~timedOut /\ ~success /\ ~Retries(c) /\ end("failed")
           \/ ~timedOut /\ ~success /\ Retries(c) /\ call' = [call EXCEPT ![c].at = "backoff"]
    /\ UNCHANGED <<run, cut, tasks, trace, long, late>>

\* The pause is over or cut short by an abort: in both cases another try.
Retry(c) ==
    /\ call[c].at = "backoff"
    /\ call' = [call EXCEPT ![c].at = "trying"]
    /\ UNCHANGED <<run, cut, tasks, trace, long, late>>

-----------------------------------------------------------------------------
(* The process and the trace files.                                         *)

\* A line of more than 8 MB, which the scanner of run.list refuses.
LongLine(r) ==
    /\ run[r].at \in {"asking", "acting"} /\ r \notin long /\ Cardinality(long) < MaxLong
    /\ long' = long \cup {r}
    /\ UNCHANGED <<run, call, cut, tasks, trace, late>>

\* Killed, or a panic in the goroutine of a tool; a new process has the files and no more.
Restart ==
    /\ \E r \in Runs : Living(r) \/ r \in tasks
    /\ run' = [r \in Runs |-> IF Living(r) THEN [run[r] EXCEPT !.at = "lost"] ELSE run[r]]
    /\ call' = [c \in Calls |-> IF call[c].at \in Settled THEN call[c]
                                                          ELSE [call[c] EXCEPT !.at = "lost"]]
    /\ cut' = {} /\ tasks' = {}
    /\ UNCHANGED <<trace, long, late>>

RunStep(r) ==
    \/ Act(r) \/ ActDone(r) \/ Succeed(r) \/ Fail(r) \/ Panic(r)
    \/ PublishRunFinished(r) \/ PublishSubagentFinished(r) \/ ChildStarts(r)

CallStep(c) == Announce(c) \/ Return(c) \/ Retry(c)

Next ==
    \/ \E k \in 1..Tops : StartRun(k) \/ Abort(k)
    \/ \E r \in Runs : RunStep(r) \/ LongLine(r)
    \/ \E c \in Calls : CallStep(c) \/ TimeOut(c)
    \/ Restart

Spec == Init /\ [][Next]_vars

\* The goroutines run, the model answers or fails, and a pause ends.
FairSpec ==
    /\ Spec
    /\ \A r \in Runs : WF_vars(RunStep(r))
    /\ \A c \in Calls : WF_vars(CallStep(c))

-----------------------------------------------------------------------------
(* What is read.                                                            *)

Has(r, type) == \E i \in DOMAIN trace[r] : trace[r][i].type = type

\* readTrace: no line, or one too long, and the run is passed over.
Readable(r) == trace[r] # <<>> /\ r \notin long

\* summarize: the status of run.finished, and without one "running".
ShownStatus(r) ==
    IF Has(r, "run.finished")
    THEN (CHOOSE e \in {trace[r][i] : i \in DOMAIN trace[r]} : e.type = "run.finished").status
    ELSE "running"

\* ListRuns: a run with a subagent.started of its own goes to its parent's list. Its cut to
\* the latest runs (30, unless the caller says otherwise) is left out: all fit in one page.
IsChild(r) == Has(r, "subagent.started")
Listed == {r \in Runs : Readable(r) /\ ~IsChild(r)}
ShownUnder(p) == {r \in Runs : p \in Listed /\ Readable(r) /\ IsChild(r) /\ Parent(r) = p}

\* Mutant: only an error of the loop counts as a failure.
ErrorOnly(r) == run[r].err

HasFailed(r) == run[r].err \/ run[r].status = "failed"

\* agent_result. Its branch for a cancelled child is dead: its context never is.
AgentResult(r) ==
    IF r \notin tasks THEN "unknown"
    ELSE IF run[r].at # "finished" THEN "still running"
    ELSE IF HasFailed(r) THEN "failed" ELSE "done"

-----------------------------------------------------------------------------
\* Every variable keeps its shape: no call makes more tries than it has retries, no run is
\* deeper than the limit, and only background children are registered.
TypeOK ==
    /\ run \in [Runs -> [at : Over \cup {"announced", "asking", "acting", "ended", "told"},
                         status : Statuses, err : BOOLEAN]]
    /\ call \in [Calls -> [at : Settled \cup {"trying", "waiting", "backoff"}, by : Runs,
                           mode : {"fg", "bg"}, tries : 0..(MaxRetries + 1), depth : 0..MaxDepth,
                           above : SUBSET Runs,
                           result : {"none", "started", "success", "failed", "timeout"}]]
    /\ cut \subseteq Runs /\ long \subseteq Runs
    /\ tasks \subseteq {r \in Runs : Background(r)}
    /\ trace \in [Runs -> Seq([type : Types, status : Statuses])]
    /\ late \in [Calls -> Nat]

\* "run.list folds the sub-agents into their parents": as long as no more runs have started
\* than it shows at most, it shows every run that started in one place, with the status it
\* ended with, except a run whose file it cannot read, the children of such a run, and the
\* children of a sub-agent, which it shows nowhere; and a run of a process that was killed is
\* shown as running for ever.
ListTrue ==
    \A r \in Runs :
        /\ r \in Listed <=> IsTop(r) /\ run[r].at # "none" /\ r \notin long
        /\ ~IsTop(r) /\ run[r].at # "none" =>
              {p \in Runs : r \in ShownUnder(p)} =
                  IF r \in long \/ Parent(r) \in long \/ ~IsTop(Parent(r)) THEN {} ELSE {Parent(r)}
        /\ ShownStatus(r) \in {"running", run[r].status}
        /\ run[r].at \in {"told", "finished"} => ShownStatus(r) # "running"
        /\ run[r].at \in {"announced", "asking", "acting", "ended"} => ShownStatus(r) = "running"

\* "agent_result tells running, failed and done apart", and it says done or failed only when
\* the events of the child's end are on record; so does the result of a waiting call, except
\* that a child which succeeded too late is reported as a time out.
ResultTrue ==
    /\ \A r \in Runs : AgentResult(r) \in {"done", "failed"} =>
          /\ AgentResult(r) = "done" <=> run[r].status = "success"
          /\ Has(r, "run.finished") /\ Has(r, "subagent.finished")
    /\ \A c \in Used : call[c].result \in {"success", "failed"} =>
          /\ run[Child(c)].status = call[c].result
          /\ \A k \in 1..(call[c].tries - 1) : run[<<c, k>>].status = "failed"

ReportsTrue == ListTrue /\ ResultTrue

\* Sub-agents in the foreground do not outlive or outnumber their call: at most one of a
\* call is alive, none is alive once its run has ended, a call announces at most one after
\* its run was stopped, and that one does no work.
NoStrayChildren ==
    \A c \in Used :
        /\ Cardinality({k \in Tries : call[c].mode = "fg" /\ Living(<<c, k>>)}) <= 1
        /\ call[c].mode = "fg" /\ run[call[c].by].at \in {"ended", "told", "finished"} =>
              \A k \in Tries : ~Living(<<c, k>>)
        /\ late[c] <= 1
        /\ late[c] = 1 /\ call[c].mode = "fg" => run[Child(c)].status # "success"

\* "Subscribers never see subagent.started without a finished", whether the loop ends, is
\* stopped or panics; only a killed process leaves one open.
ChildrenEnd ==
    \A r \in Runs : Has(r, "subagent.started") ~> (Has(r, "subagent.finished") \/ run[r].at = "lost")
=============================================================================
