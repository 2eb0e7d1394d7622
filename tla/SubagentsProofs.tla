-------------------------- MODULE SubagentsProofs --------------------------
(***************************************************************************)
(* Proofs about Subagents, for any number of runs, calls, tries and levels  *)
(* of nesting.                                                              *)
(***************************************************************************)
EXTENDS Subagents, FiniteSetTheorems, TLAPS

USE SubagentAssumption DEF SubagentAssumption

-----------------------------------------------------------------------------
(* The inductive invariant.                                                 *)

\* How far a run is, and what it has to show for it.
RunFits(r) ==
    /\ run[r].at \in {"none", "announced", "asking", "acting"} =>
          run[r].status = "running" /\ ~run[r].err
    /\ run[r].at \in {"ended", "told", "finished"} => run[r].status # "running"
    /\ run[r].err => run[r].status = "failed"
    /\ IsTop(r) => run[r].at \notin {"announced", "told"}

\* The file of a run holds what it has published.
TraceFits(r) ==
    /\ trace[r] = <<>> <=> run[r].at = "none"
    /\ Has(r, "subagent.started") <=> ~IsTop(r) /\ run[r].at # "none"
    /\ Has(r, "run.finished") => run[r].at \in {"told", "finished", "lost"}
    /\ run[r].at \in {"told", "finished"} => Has(r, "run.finished")
    /\ run[r].at = "finished" /\ ~IsTop(r) => Has(r, "subagent.finished")
    /\ \A i \in DOMAIN trace[r] : trace[r][i].type = "run.finished" =>
          trace[r][i].status = run[r].status /\ run[r].status # "running"

\* The calls are numbered in the order they are made.
UsedOK == Cardinality(Used) \in Nat /\ Used = 1..Cardinality(Used)

\* A call belongs to a run that waits for it, and what stops that run stops its children.
CallFits(c) ==
    /\ call[c].at = "none" => call[c].tries = 0
    /\ call[c].at # "none" => run[call[c].by].at # "none" /\ call[c].depth # 0
    /\ call[c].at \notin Settled => run[call[c].by].at = "acting"
    /\ call[c].at # "none" /\ call[c].mode = "fg" => Context(call[c].by) \subseteq call[c].above
    /\ call[c].at \in {"trying", "backoff"} => call[c].tries <= MaxRetries
    /\ call[c].at = "waiting" => call[c].mode = "fg" /\ call[c].tries # 0
    /\ call[c].at = "backoff" => call[c].mode = "fg"
    /\ call[c].at = "trying" /\ call[c].mode = "bg" => call[c].tries = 0
    /\ call[c].result \in {"success", "failed"} => call[c].at = "returned" /\ call[c].tries # 0

\* The children of a call: one try after the other, each of which failed but for the last.
ChildFits(c, k) ==
    /\ run[<<c, k>>].at = "none" <=> call[c].tries < k
    /\ k < call[c].tries \/ (k = call[c].tries /\ call[c].at \in {"trying", "backoff"}) =>
          run[<<c, k>>].at = "finished" /\ run[<<c, k>>].status = "failed"
    /\ call[c].mode = "fg" /\ call[c].at = "returned" /\ k = call[c].tries =>
          run[<<c, k>>].at = "finished"
    /\ call[c].mode = "fg" /\ call[c].at = "lost" => ~Living(<<c, k>>)
    /\ call[c].result \in {"success", "failed"} /\ k = call[c].tries =>
          run[<<c, k>>].at = "finished" /\ run[<<c, k>>].status = call[c].result

\* What a call has announced after its run was stopped: at most one child, its last, which is
\* stopped itself if it is in the foreground.
LateFits(c) ==
    late[c] # 0 =>
        /\ late[c] = 1 /\ call[c].tries # 0
        /\ call[c].at \in {"waiting", "returned", "lost"}
        /\ call[c].at = "waiting" => IsStopped(call[c].by)
        /\ call[c].mode = "fg" => /\ run[Child(c)].status # "success"
                                  /\ Living(Child(c)) => IsStopped(Child(c))

\* A registered child has been announced.
TasksOK == \A r \in tasks : run[r].at # "none"

RunOK   == \A r \in Runs : RunFits(r)
TraceOK == \A r \in Runs : TraceFits(r)
CallOK  == \A c \in Calls : CallFits(c)
ChildOK == \A c \in Calls, k \in Tries : ChildFits(c, k)
LateOK  == \A c \in Calls : LateFits(c)

IInv == TypeOK /\ RunOK /\ TraceOK /\ UsedOK /\ TasksOK /\ CallOK /\ ChildOK /\ LateOK

-----------------------------------------------------------------------------
(* Runs, and what an event adds to their files.                             *)

LEMMA RunsAre ==
    /\ \A k \in 1..Tops : <<0, k>> \in Runs /\ IsTop(<<0, k>>)
    /\ \A c \in Calls, k \in Tries : /\ <<c, k>> \in Runs /\ ~IsTop(<<c, k>>)
                                     /\ <<c, k>>[1] = c /\ <<c, k>>[2] = k
    /\ \A r \in Runs : ~IsTop(r) => r[1] \in Calls /\ r[2] \in Tries /\ r = <<r[1], r[2]>>
BY DEF Runs, IsTop, Calls, Tries

\* The runs and calls as records.
LEMMA RecordsAre ==
    ASSUME TypeOK
    PROVE  /\ \A r \in Runs : /\ run[r].at \in Over \cup {"announced", "asking", "acting", "ended", "told"}
                              /\ run[r].status \in Statuses /\ run[r].err \in BOOLEAN
                              /\ trace[r] \in Seq([type : Types, status : Statuses])
           /\ \A c \in Calls : /\ call[c].at \in Settled \cup {"trying", "waiting", "backoff"}
                               /\ call[c].by \in Runs /\ call[c].mode \in {"fg", "bg"}
                               /\ call[c].tries \in 0..(MaxRetries + 1)
                               /\ call[c].depth \in 0..MaxDepth /\ call[c].above \subseteq Runs
                               /\ late[c] \in Nat
BY DEF TypeOK

LEMMA Appended ==
    ASSUME TypeOK, NEW r \in Runs, NEW e \in [type : Types, status : Statuses], Written(r, e)
    PROVE  /\ trace' \in [Runs -> Seq([type : Types, status : Statuses])]
           /\ trace'[r] # <<>> /\ \A q \in Runs : q # r => trace'[q] = trace[q]
           /\ \A i \in DOMAIN trace'[r] :
                 (i \in DOMAIN trace[r] /\ trace'[r][i] = trace[r][i]) \/ trace'[r][i] = e
           /\ \A type : Has(r, type)' <=> Has(r, type) \/ type = e.type
           /\ \A q \in Runs : \A type : q # r => (Has(q, type)' <=> Has(q, type))
<1> DEFINE old == trace[r]
           new == Append(old, e)
<1>1. old \in Seq([type : Types, status : Statuses]) /\ trace \in [Runs -> Seq([type : Types, status : Statuses])]
  BY DEF TypeOK
<1>2. trace' = [trace EXCEPT ![r] = new]
  BY DEF Written
<1>3. /\ new \in Seq([type : Types, status : Statuses]) /\ Len(old) \in Nat
      /\ DOMAIN old = 1..Len(old) /\ DOMAIN new = 1..(Len(old) + 1)
      /\ new[Len(old) + 1] = e /\ \A i \in DOMAIN old : new[i] = old[i]
      /\ new # <<>>
  <2> HIDE DEF old
  <2>1. QED
    BY <1>1
<1> HIDE DEF new
<1>4. /\ trace' \in [Runs -> Seq([type : Types, status : Statuses])] /\ trace'[r] = new
      /\ \A q \in Runs : q # r => trace'[q] = trace[q]
  BY <1>1, <1>2, <1>3
<1>5. \A i \in DOMAIN new : i \in DOMAIN old \/ i = Len(old) + 1
  BY <1>3
<1>6. \A i \in DOMAIN new : (i \in DOMAIN old /\ new[i] = old[i]) \/ new[i] = e
  BY <1>3, <1>5
<1>7. (\A i \in DOMAIN old : i \in DOMAIN new) /\ Len(old) + 1 \in DOMAIN new
  BY <1>3
<1>8. ASSUME NEW type
      PROVE  (\E i \in DOMAIN new : new[i].type = type)
                <=> (\E i \in DOMAIN old : old[i].type = type) \/ type = e.type
  BY <1>3, <1>6, <1>7
<1>9. \A type : Has(r, type)' <=> Has(r, type) \/ type = e.type
  BY <1>4, <1>8 DEF Has
<1>10. \A q \in Runs : \A type : q # r => (Has(q, type)' <=> Has(q, type))
  BY <1>4 DEF Has
<1>11. QED
  BY <1>3, <1>4, <1>6, <1>9, <1>10

\* A step of one run that leaves the calls alone; the run does not leave calls behind, and
\* does not succeed once it is stopped.
LEMMA RunMoves ==
    ASSUME IInv, NEW r \in Runs, IsTop(r) \/ run[r].at # "none", run[r].at \notin {"finished", "lost"},
           UNCHANGED <<call, cut, late>>,
           \A q \in Runs : q # r => run'[q] = run[q],
           run'[r].at \notin {"none", "lost"},
           run[r].at = "acting" => \A c \in Calls : call[c].by = r => call[c].at \in Settled,
           run'[r].status = "success" => run[r].status = "success" \/ ~IsStopped(r)
    PROVE  UsedOK' /\ CallOK' /\ ChildOK' /\ LateOK' /\ (tasks' = tasks => TasksOK')
<1>1. TypeOK /\ UsedOK /\ CallOK /\ ChildOK /\ LateOK /\ call' = call /\ cut' = cut /\ late' = late
  BY DEF IInv
<1>2. \A c \in Calls : call[c].by \in Runs /\ call[c].tries \in 0..(MaxRetries + 1)
  BY <1>1, RecordsAre
<1>3. UsedOK'
  BY <1>1 DEF UsedOK, Used
<1>4. \A q : IsStopped(q)' = IsStopped(q) /\ Context(q)' = Context(q)
  BY <1>1 DEF IsStopped, Context
<1>5. ASSUME NEW c \in Calls
      PROVE  CallFits(c)'
  <2>1. CallFits(c)
    BY <1>1 DEF CallOK
  <2>2. CASE call[c].by = r
    BY <1>1, <1>4, <2>1, <2>2 DEF CallFits
  <2>3. CASE call[c].by # r
    <3>1. run'[call[c].by] = run[call[c].by]
      BY <1>2, <2>3
    <3>2. QED
      BY <1>1, <1>4, <2>1, <3>1 DEF CallFits
  <2>4. QED
    BY <2>2, <2>3
<1>6. \A c \in Calls, k \in Tries : <<c, k>> = r => Living(r) /\ run'[r].at # "none"
  BY RunsAre DEF Living, Over
<1>7. ASSUME NEW c \in Calls, NEW k \in Tries
      PROVE  ChildFits(c, k)'
  <2>1. ChildFits(c, k)
    BY <1>1 DEF ChildOK
  <2>2. CASE <<c, k>> = r
    BY <1>1, <1>6, <2>1, <2>2 DEF ChildFits, Living, Over
  <2>3. CASE <<c, k>> # r
    <3>1. run'[<<c, k>>] = run[<<c, k>>]
      BY <2>3, RunsAre
    <3>2. QED
      BY <1>1, <2>1, <3>1 DEF ChildFits, Living
  <2>4. QED
    BY <2>2, <2>3
<1>8. ASSUME NEW c \in Calls
      PROVE  LateFits(c)'
  <2>1. LateFits(c)
    BY <1>1 DEF LateOK
  <2> SUFFICES ASSUME late[c] # 0, call[c].mode = "fg"
               PROVE  /\ run'[Child(c)].status # "success"
                      /\ Living(Child(c))' => IsStopped(Child(c))
    BY <1>1, <1>4, <2>1 DEF LateFits, Child
  <2>2. /\ run[Child(c)].status # "success" /\ (Living(Child(c)) => IsStopped(Child(c)))
        /\ call[c].tries # 0
    BY <2>1 DEF LateFits
  <2>3. Child(c)' = Child(c) /\ Child(c) = <<c, call[c].tries>> /\ call[c].tries \in Tries
    BY <1>1, <1>2, <2>2 DEF Child, Tries
  <2>4. CASE Child(c) = r
    BY <1>6, <2>2, <2>3, <2>4
  <2>5. CASE Child(c) # r
    <3>1. run'[Child(c)] = run[Child(c)]
      BY <2>3, <2>5, RunsAre
    <3>2. QED
      BY <2>2, <2>3, <3>1 DEF Living
  <2>6. QED
    BY <2>4, <2>5
<1>9. tasks' = tasks => TasksOK'
  BY DEF IInv, TasksOK, TypeOK
<1>10. QED
  BY <1>3, <1>5, <1>7, <1>8, <1>9 DEF CallOK, ChildOK, LateOK

RunRecords == [at : Over \cup {"announced", "asking", "acting", "ended", "told"},
               status : Statuses, err : BOOLEAN]

\* The other runs after such a step.
LEMMA OthersFit ==
    ASSUME IInv, NEW r \in Runs, \A q \in Runs : q # r => run'[q] = run[q] /\ trace'[q] = trace[q],
           RunFits(r)', TraceFits(r)'
    PROVE  RunOK' /\ TraceOK'
<1>1. ASSUME NEW q \in Runs, q # r
      PROVE  RunFits(q)' /\ TraceFits(q)'
  <2>1. RunFits(q) /\ TraceFits(q) /\ run'[q] = run[q] /\ trace'[q] = trace[q]
    BY <1>1 DEF IInv, RunOK, TraceOK
  <2>2. RunFits(q)'
    BY <2>1 DEF RunFits
  <2>3. TraceFits(q)'
    BY <2>1 DEF TraceFits, Has
  <2>4. QED
    BY <2>2, <2>3
<1>2. QED
  BY <1>1 DEF RunOK, TraceOK

\* A step of the loop, which publishes nothing about the end of the run.
LEMMA QuietStep ==
    ASSUME IInv, NEW r \in Runs, NEW new \in RunRecords, run' = [run EXCEPT ![r] = new],
           UNCHANGED <<call, cut, tasks, trace, long, late>>,
           run[r].at \in {"asking", "acting"}, new.at \in {"asking", "ended"},
           new.at = "asking" => new.status = "running" /\ ~new.err,
           new.at = "ended" => new.status # "running", new.err => new.status = "failed",
           run[r].at = "acting" => \A c \in Calls : call[c].by = r => call[c].at \in Settled,
           new.status = "success" => ~IsStopped(r)
    PROVE  IInv'
<1>1. /\ run' \in [Runs -> RunRecords] /\ run'[r] = new /\ \A q \in Runs : q # r => run'[q] = run[q]
      /\ TypeOK /\ RunFits(r) /\ TraceFits(r)
  BY DEF IInv, TypeOK, RunOK, TraceOK, RunRecords
<1>2. TypeOK'
  BY <1>1 DEF TypeOK, Background, RunRecords
<1>3. UsedOK' /\ TasksOK' /\ CallOK' /\ ChildOK' /\ LateOK'
  <2>1. run[r].at # "none" /\ run[r].at \notin {"finished", "lost"} /\ run'[r].at \notin {"none", "lost"}
    BY <1>1
  <2>2. QED
    BY <1>1, <2>1, RunMoves
<1>4. RunFits(r)'
  BY <1>1 DEF RunFits
<1>5. TraceFits(r)'
  <2>1. trace' = trace /\ ~Has(r, "run.finished")
    BY <1>1 DEF TraceFits
  <2>2. \A type : Has(r, type)' <=> Has(r, type)
    BY <2>1 DEF Has
  <2>3. \A i \in DOMAIN trace[r] : trace[r][i].type # "run.finished"
    BY <2>1 DEF Has
  <2>4. QED
    BY <1>1, <2>1, <2>2, <2>3 DEF TraceFits
<1>6. RunOK' /\ TraceOK'
  BY <1>1, <1>4, <1>5, OthersFit
<1>7. QED
  BY <1>2, <1>3, <1>6 DEF IInv

\* A step that publishes an event of the run.
LEMMA TellingStep ==
    ASSUME IInv, NEW r \in Runs, NEW new \in RunRecords, run' = [run EXCEPT ![r] = new],
           NEW e \in [type : Types, status : Statuses], Written(r, e),
           UNCHANGED <<call, cut, tasks, long, late>>,
           IsTop(r) \/ run[r].at # "none", run[r].at \notin {"acting", "finished", "lost"},
           new.at \notin {"none", "lost"}, new.status = run[r].status,
           RunFits(r)', TraceFits(r)'
    PROVE  IInv'
<1>1. /\ run' \in [Runs -> RunRecords] /\ run'[r] = new /\ \A q \in Runs : q # r => run'[q] = run[q]
      /\ TypeOK
  BY DEF IInv, TypeOK, RunRecords
<1>2. /\ trace' \in [Runs -> Seq([type : Types, status : Statuses])]
      /\ \A q \in Runs : q # r => trace'[q] = trace[q]
  BY <1>1, Appended
<1>3. TypeOK'
  BY <1>1, <1>2 DEF TypeOK, Background, RunRecords
<1>4. UsedOK' /\ TasksOK' /\ CallOK' /\ ChildOK' /\ LateOK'
  <2>1. run[r].at \notin {"finished", "lost"} /\ run'[r].at \notin {"none", "lost"}
        /\ run[r].at # "acting" /\ run'[r].status = run[r].status
    BY <1>1
  <2>2. QED
    BY <1>1, <2>1, RunMoves
<1>5. RunOK' /\ TraceOK'
  BY <1>1, <1>2, OthersFit
<1>6. QED
  BY <1>3, <1>4, <1>5 DEF IInv

-----------------------------------------------------------------------------
(* The steps of a run.                                                      *)

LEMMA StartRunKeeps ==
    ASSUME IInv, NEW k \in 1..Tops, StartRun(k)
    PROVE  IInv'
<1> DEFINE r == <<0, k>>
           new == [run[r] EXCEPT !.at = "asking"]
           e == Event("run.started", "running")
<1>1. /\ r \in Runs /\ IsTop(r) /\ run[r].at = "none" /\ TypeOK /\ RunFits(r) /\ TraceFits(r)
      /\ run' = [run EXCEPT ![r] = new] /\ Written(r, e)
      /\ UNCHANGED <<call, cut, tasks, long, late>>
  BY RunsAre DEF IInv, RunOK, TraceOK, StartRun
<1>2. /\ new \in RunRecords /\ new.at = "asking" /\ new.status = run[r].status /\ new.err = run[r].err
      /\ e \in [type : Types, status : Statuses] /\ e.type = "run.started"
      /\ run' \in [Runs -> RunRecords] /\ run'[r] = new
  BY <1>1 DEF TypeOK, RunRecords, Event, Types, Statuses
<1> HIDE DEF r, new, e
<1>3. RunFits(r)'
  BY <1>1, <1>2 DEF RunFits
<1>4. /\ trace'[r] # <<>>
      /\ \A i \in DOMAIN trace'[r] :
            (i \in DOMAIN trace[r] /\ trace'[r][i] = trace[r][i]) \/ trace'[r][i] = e
      /\ \A type : Has(r, type)' <=> Has(r, type) \/ type = e.type
  BY <1>1, <1>2, Appended
<1>5. TraceFits(r)'
  BY <1>1, <1>2, <1>4 DEF TraceFits
<1>6. QED
  BY <1>1, <1>2, <1>3, <1>5, TellingStep

LEMMA ChildStartsKeeps ==
    ASSUME IInv, NEW r \in Runs, ChildStarts(r)
    PROVE  IInv'
<1> DEFINE new == [run[r] EXCEPT !.at = "asking"]
           e == Event("run.started", "running")
<1>1. /\ run[r].at = "announced" /\ TypeOK /\ RunFits(r) /\ TraceFits(r)
      /\ run' = [run EXCEPT ![r] = new] /\ Written(r, e)
      /\ UNCHANGED <<call, cut, tasks, long, late>>
  BY DEF IInv, RunOK, TraceOK, ChildStarts
<1>2. /\ new \in RunRecords /\ new.at = "asking" /\ new.status = run[r].status /\ new.err = run[r].err
      /\ e \in [type : Types, status : Statuses] /\ e.type = "run.started"
      /\ run' \in [Runs -> RunRecords] /\ run'[r] = new
  BY <1>1 DEF TypeOK, RunRecords, Event, Types, Statuses
<1> HIDE DEF new, e
<1>3. RunFits(r)'
  BY <1>1, <1>2 DEF RunFits
<1>4. /\ trace'[r] # <<>>
      /\ \A i \in DOMAIN trace'[r] :
            (i \in DOMAIN trace[r] /\ trace'[r][i] = trace[r][i]) \/ trace'[r][i] = e
      /\ \A type : Has(r, type)' <=> Has(r, type) \/ type = e.type
  BY <1>1, <1>2, Appended
<1>5. TraceFits(r)'
  BY <1>1, <1>2, <1>4 DEF TraceFits
<1>6. QED
  BY <1>1, <1>2, <1>3, <1>5, TellingStep

LEMMA RunFinishedKeeps ==
    ASSUME IInv, NEW r \in Runs, PublishRunFinished(r)
    PROVE  IInv'
<1> DEFINE at == IF IsTop(r) THEN "finished" ELSE "told"
           new == [run[r] EXCEPT !.at = at]
           e == Event("run.finished", run[r].status)
<1>1. /\ run[r].at = "ended" /\ TypeOK /\ RunFits(r) /\ TraceFits(r)
      /\ run' = [run EXCEPT ![r] = new] /\ Written(r, e)
      /\ UNCHANGED <<call, cut, tasks, long, late>>
  BY DEF IInv, RunOK, TraceOK, PublishRunFinished
<1>2. at \in {"finished", "told"} /\ (at = "finished" <=> IsTop(r))
  OBVIOUS
<1> HIDE DEF at
<1>3. /\ new \in RunRecords /\ new.at = at /\ new.status = run[r].status /\ new.err = run[r].err
      /\ e \in [type : Types, status : Statuses] /\ e.type = "run.finished" /\ e.status = run[r].status
      /\ run' \in [Runs -> RunRecords] /\ run'[r] = new
  BY <1>1, <1>2 DEF TypeOK, RunRecords, Event, Types, Over
<1> HIDE DEF new, e
<1>4. RunFits(r)'
  BY <1>1, <1>2, <1>3 DEF RunFits
<1>5. /\ trace'[r] # <<>>
      /\ \A i \in DOMAIN trace'[r] :
            (i \in DOMAIN trace[r] /\ trace'[r][i] = trace[r][i]) \/ trace'[r][i] = e
      /\ \A type : Has(r, type)' <=> Has(r, type) \/ type = e.type
  BY <1>1, <1>3, Appended
<1>6. run[r].status # "running"
  BY <1>1 DEF RunFits
<1>7. TraceFits(r)'
  BY <1>1, <1>2, <1>3, <1>5, <1>6 DEF TraceFits
<1>8. QED
  BY <1>1, <1>2, <1>3, <1>4, <1>7, TellingStep

LEMMA SubagentFinishedKeeps ==
    ASSUME IInv, NEW r \in Runs, PublishSubagentFinished(r)
    PROVE  IInv'
<1> DEFINE new == [run[r] EXCEPT !.at = "finished"]
           e == Event("subagent.finished", run[r].status)
<1>1. /\ run[r].at = "told" /\ TypeOK /\ RunFits(r) /\ TraceFits(r)
      /\ run' = [run EXCEPT ![r] = new] /\ Written(r, e)
      /\ UNCHANGED <<call, cut, tasks, long, late>>
  BY DEF IInv, RunOK, TraceOK, PublishSubagentFinished
<1>2. /\ new \in RunRecords /\ new.at = "finished" /\ new.status = run[r].status /\ new.err = run[r].err
      /\ e \in [type : Types, status : Statuses] /\ e.type = "subagent.finished"
      /\ run' \in [Runs -> RunRecords] /\ run'[r] = new
  BY <1>1 DEF TypeOK, RunRecords, Event, Types, Over
<1> HIDE DEF new, e
<1>3. RunFits(r)'
  BY <1>1, <1>2 DEF RunFits
<1>4. /\ trace'[r] # <<>>
      /\ \A i \in DOMAIN trace'[r] :
            (i \in DOMAIN trace[r] /\ trace'[r][i] = trace[r][i]) \/ trace'[r][i] = e
      /\ \A type : Has(r, type)' <=> Has(r, type) \/ type = e.type
  BY <1>1, <1>2, Appended
<1>5. TraceFits(r)'
  BY <1>1, <1>2, <1>4 DEF TraceFits
<1>6. QED
  BY <1>1, <1>2, <1>3, <1>5, TellingStep

\* The steps that end the loop, or go on with it.
LEMMA LoopStepsKeep ==
    ASSUME IInv, NEW r \in Runs, ActDone(r) \/ Succeed(r) \/ Fail(r) \/ Panic(r)
    PROVE  IInv'
<1>1. TypeOK /\ RunFits(r) /\ run[r] \in RunRecords
  BY DEF IInv, RunOK, TypeOK, RunRecords
<1>2. CASE ActDone(r)
  <2> DEFINE new == [run[r] EXCEPT !.at = "asking"]
  <2>1. /\ run[r].at = "acting" /\ \A c \in Calls : call[c].by = r => call[c].at \in Settled
        /\ run' = [run EXCEPT ![r] = new]
        /\ UNCHANGED <<call, cut, tasks, trace, long, late>>
    BY <1>2 DEF ActDone
  <2>2. new \in RunRecords /\ new.at = "asking" /\ new.status = "running" /\ ~new.err
    BY <1>1, <2>1 DEF RunFits, RunRecords
  <2> HIDE DEF new
  <2>3. QED
    BY <2>1, <2>2, QuietStep
<1>3. CASE Succeed(r)
  <2> DEFINE new == [at |-> "ended", status |-> "success", err |-> FALSE]
  <2>1. /\ run[r].at = "asking" /\ ~IsStopped(r) /\ run' = [run EXCEPT ![r] = new]
        /\ UNCHANGED <<call, cut, tasks, trace, long, late>>
    BY <1>3 DEF Succeed
  <2>2. new \in RunRecords /\ new.at = "ended" /\ new.status = "success" /\ ~new.err
    BY DEF RunRecords, Statuses
  <2> HIDE DEF new
  <2>3. QED
    BY <2>1, <2>2, QuietStep
<1>4. CASE Fail(r) \/ Panic(r)
  <2>1. PICK err \in BOOLEAN : run' = [run EXCEPT ![r] = [at |-> "ended", status |-> "failed", err |-> err]]
    BY <1>4 DEF Fail, Panic, Recovered, IsStopped
  <2> DEFINE new == [at |-> "ended", status |-> "failed", err |-> err]
  <2>2. /\ run[r].at = "asking" /\ run' = [run EXCEPT ![r] = new]
        /\ UNCHANGED <<call, cut, tasks, trace, long, late>>
    BY <1>4, <2>1 DEF Fail, Panic
  <2>3. new \in RunRecords /\ new.at = "ended" /\ new.status = "failed"
    BY DEF RunRecords, Statuses
  <2> HIDE DEF new
  <2>4. QED
    BY <2>2, <2>3, QuietStep
<1>5. QED
  BY <1>2, <1>3, <1>4

-----------------------------------------------------------------------------
(* Aborts, time outs and long lines.                                        *)

\* A step that cancels at most, or makes a file unreadable.
LEMMA CutKeeps ==
    ASSUME IInv, UNCHANGED <<run, call, tasks, trace, late>>,
           cut \subseteq cut', cut' \subseteq Runs, long' \subseteq Runs
    PROVE  IInv'
<1>1. /\ TypeOK /\ RunOK /\ TraceOK /\ UsedOK /\ TasksOK /\ CallOK /\ ChildOK /\ LateOK
      /\ run' = run /\ call' = call /\ tasks' = tasks /\ trace' = trace /\ late' = late
  BY DEF IInv
<1>2. TypeOK'
  BY <1>1 DEF TypeOK, Background
<1>3. RunOK' /\ TraceOK' /\ UsedOK' /\ TasksOK'
  BY <1>1 DEF RunOK, RunFits, TraceOK, TraceFits, Has, UsedOK, Used, TasksOK
<1>4. \A r : Context(r)' = Context(r) /\ (IsStopped(r) => IsStopped(r)')
  BY <1>1 DEF Context, IsStopped
<1>5. CallOK'
  BY <1>1, <1>4 DEF CallOK, CallFits
<1>6. ASSUME NEW c \in Calls, NEW k \in Tries
      PROVE  ChildFits(c, k)'
  <2>1. ChildFits(c, k)
    BY <1>1 DEF ChildOK
  <2>2. QED
    BY <1>1, <2>1 DEF ChildFits, Living
<1>7. ASSUME NEW c \in Calls
      PROVE  LateFits(c)'
  <2>1. LateFits(c)
    BY <1>1 DEF LateOK
  <2>2. Child(c)' = Child(c) /\ (IsStopped(Child(c)) => IsStopped(Child(c))')
    BY <1>1, <1>4 DEF Child
  <2>3. QED
    BY <1>1, <1>4, <2>1, <2>2 DEF LateFits, Living, Child
<1>8. QED
  BY <1>2, <1>3, <1>5, <1>6, <1>7 DEF IInv, ChildOK, LateOK

LEMMA AbortKeeps ==
    ASSUME IInv, NEW k \in 1..Tops, Abort(k)
    PROVE  IInv'
<1>1. cut \subseteq Runs /\ long \subseteq Runs
  BY DEF IInv, TypeOK
<1>2. QED
  BY <1>1, CutKeeps, RunsAre DEF Abort

LEMMA TimeOutKeeps ==
    ASSUME IInv, NEW c \in Calls, TimeOut(c)
    PROVE  IInv'
<1>1. cut \subseteq Runs /\ long \subseteq Runs /\ CallFits(c) /\ call[c].tries \in 0..(MaxRetries + 1)
  BY RecordsAre DEF IInv, TypeOK, CallOK
<1>2. call[c].tries \in Tries
  BY <1>1 DEF TimeOut, CallFits, Tries
<1>3. Child(c) \in Runs
  BY <1>2, RunsAre DEF Child
<1>4. QED
  BY <1>1, <1>3, CutKeeps DEF TimeOut

LEMMA LongLineKeeps ==
    ASSUME IInv, NEW r \in Runs, LongLine(r)
    PROVE  IInv'
<1>1. cut \subseteq Runs /\ long \subseteq Runs
  BY DEF IInv, TypeOK
<1>2. QED
  BY <1>1, CutKeeps DEF LongLine

-----------------------------------------------------------------------------
(* The steps of a call.                                                     *)

CallRecords == [at : Settled \cup {"trying", "waiting", "backoff"}, by : Runs, mode : {"fg", "bg"},
                tries : 0..(MaxRetries + 1), depth : 0..MaxDepth, above : SUBSET Runs,
                result : {"none", "started", "success", "failed", "timeout"}]

\* A run that has started is a top-level run or the child of a call that was made.
LEMMA CallWasMade ==
    ASSUME IInv, NEW r \in Runs, ~IsTop(r), run[r].at # "none"
    PROVE  r[1] \in Calls /\ call[r[1]].at # "none"
<1>1. r[1] \in Calls /\ r[2] \in Tries /\ r = <<r[1], r[2]>>
  BY RunsAre
<1>2. ChildFits(r[1], r[2]) /\ CallFits(r[1]) /\ call[r[1]].tries \in 0..(MaxRetries + 1)
  BY <1>1, RecordsAre DEF IInv, ChildOK, CallOK
<1>3. call[r[1]].tries # 0
  BY <1>1, <1>2 DEF ChildFits, Tries
<1>4. QED
  BY <1>1, <1>2, <1>3 DEF CallFits

\* Only where a call is and what it returns change.
LEMMA CallMoves ==
    ASSUME IInv, NEW c \in Calls, NEW new \in CallRecords, call' = [call EXCEPT ![c] = new],
           UNCHANGED <<run, cut, tasks, trace, long, late>>,
           call[c].at # "none", new.at # "none",
           new.by = call[c].by, new.mode = call[c].mode, new.tries = call[c].tries,
           new.depth = call[c].depth, new.above = call[c].above,
           CallFits(c)', \A k \in Tries : ChildFits(c, k)',
           late[c] # 0 => new.at # "none" /\ new.at \notin {"trying", "waiting", "backoff"}
    PROVE  IInv'
<1>1. /\ TypeOK /\ RunOK /\ TraceOK /\ UsedOK /\ TasksOK /\ CallOK /\ ChildOK /\ LateOK
      /\ run' = run /\ cut' = cut /\ tasks' = tasks /\ trace' = trace /\ long' = long /\ late' = late
  BY DEF IInv
<1>2. /\ call' \in [Calls -> CallRecords] /\ call'[c] = new
      /\ \A d \in Calls : d # c => call'[d] = call[d]
  BY <1>1 DEF TypeOK, CallRecords
<1>3. \A d \in Calls : /\ call'[d].by = call[d].by /\ call'[d].mode = call[d].mode
                       /\ call'[d].tries = call[d].tries /\ call'[d].above = call[d].above
                       /\ call'[d].at = "none" <=> call[d].at = "none"
  BY <1>2
<1>4. \A r \in Runs : /\ Context(r)' = Context(r) /\ (IsStopped(r)' <=> IsStopped(r))
                      /\ Background(r)' <=> Background(r)
  BY <1>1, <1>3, RunsAre DEF Context, IsStopped, Background
<1>5. TypeOK'
  BY <1>1, <1>2, <1>4 DEF TypeOK, CallRecords
<1>6. RunOK' /\ TraceOK' /\ TasksOK'
  BY <1>1 DEF RunOK, RunFits, TraceOK, TraceFits, Has, TasksOK
<1>7. UsedOK'
  <2>1. Used' = Used
    BY <1>3 DEF Used
  <2>2. QED
    BY <1>1, <2>1 DEF UsedOK
<1>8. ASSUME NEW d \in Calls, d # c
      PROVE  CallFits(d)'
  <2>1. CallFits(d) /\ call'[d] = call[d] /\ call[d].by \in Runs
    BY <1>1, <1>2, <1>8, RecordsAre DEF CallOK
  <2>2. QED
    BY <1>1, <1>4, <2>1 DEF CallFits
<1>9. ASSUME NEW d \in Calls, NEW k \in Tries, d # c
      PROVE  ChildFits(d, k)'
  <2>1. ChildFits(d, k) /\ call'[d] = call[d]
    BY <1>1, <1>2, <1>9 DEF ChildOK
  <2>2. QED
    BY <1>1, <2>1 DEF ChildFits, Living
<1>10. ASSUME NEW d \in Calls
       PROVE  LateFits(d)'
  <2> SUFFICES ASSUME late[d] # 0
               PROVE  LateFits(d)'
    BY <1>1 DEF LateFits
  <2>1. LateFits(d) /\ call[d].by \in Runs /\ call[d].tries \in 0..(MaxRetries + 1)
    BY <1>1, RecordsAre DEF LateOK
  <2>2. call[d].tries \in Tries
    BY <2>1 DEF LateFits, Tries
  <2>3. Child(d)' = Child(d) /\ Child(d) \in Runs
    BY <1>3, <2>2, RunsAre DEF Child
  <2>4. IsStopped(Child(d))' <=> IsStopped(Child(d))
    BY <1>4, <2>3
  <2>5. CASE d = c
    <3>1. call'[d].at \in {"returned", "lost"}
      BY <1>2, <2>5 DEF CallRecords, Settled
    <3>2. QED
      BY <1>1, <1>3, <2>1, <2>3, <2>4, <3>1 DEF LateFits, Living
  <2>6. CASE d # c
    <3>1. call'[d] = call[d]
      BY <1>2, <2>6
    <3>2. QED
      BY <1>1, <1>4, <2>1, <2>3, <2>4, <3>1 DEF LateFits, Living
  <2>7. QED
    BY <2>5, <2>6
<1>11. CallOK' /\ ChildOK' /\ LateOK'
  BY <1>8, <1>9, <1>10 DEF CallOK, ChildOK, LateOK
<1>12. QED
  BY <1>5, <1>6, <1>7, <1>11 DEF IInv

LEMMA ReturnKeeps ==
    ASSUME IInv, NEW c \in Calls, Return(c)
    PROVE  IInv'
<1>1. /\ TypeOK /\ CallFits(c) /\ LateFits(c) /\ \A k \in Tries : ChildFits(c, k)
      /\ call[c] \in CallRecords /\ call[c].at = "waiting" /\ run[Child(c)].at = "finished"
      /\ UNCHANGED <<run, cut, tasks, trace, long, late>>
  BY DEF IInv, CallOK, LateOK, ChildOK, TypeOK, CallRecords, Return
<1>2. /\ call[c].tries \in Tries /\ call[c].mode = "fg" /\ call[c].by \in Runs
      /\ Child(c) = <<c, call[c].tries>> /\ Child(c) \in Runs
  BY <1>1, RunsAre DEF CallFits, CallRecords, Child, Tries
<1>3. PICK at \in {"returned", "backoff"}, result \in {"none", "started", "success", "failed", "timeout"} :
         /\ call' = [call EXCEPT ![c] = [call[c] EXCEPT !.at = at, !.result = result]]
         /\ result \in {"success", "failed"} => at = "returned" /\ run[Child(c)].status = result
         /\ at = "backoff" => Retries(c) /\ run[Child(c)].status = "failed"
  <2> DEFINE timedOut == Child(c) \in cut /\ ~IsStopped(call[c].by)
             success == run[Child(c)].status = "success"
             Ends(at, result) == call' = [call EXCEPT ![c] = [call[c] EXCEPT !.at = at, !.result = result]]
  <2>1. success \/ run[Child(c)].status = "failed"
    <3>1. RunFits(Child(c)) /\ run[Child(c)].status \in Statuses
      BY <1>1, <1>2, RecordsAre DEF IInv, RunOK
    <3>2. QED
      BY <1>1, <3>1 DEF RunFits, Statuses
  <2>2. call[c].result = "none" \/ call[c].result \in {"started", "timeout"}
    BY <1>1 DEF CallFits, CallRecords
  <2>3. \/ Ends("returned", "timeout")
        \/ success /\ Ends("returned", "success")
        \/ ~success /\ Ends("returned", "failed")
        \/ ~success /\ Retries(c) /\ Ends("backoff", call[c].result)
    <3>1. TypeOK /\ call \in [Calls -> CallRecords]
      BY <1>1 DEF TypeOK, CallRecords
    <3>2. \/ call' = [call EXCEPT ![c].at = "returned", ![c].result = "timeout"]
          \/ success /\ call' = [call EXCEPT ![c].at = "returned", ![c].result = "success"]
          \/ ~success /\ call' = [call EXCEPT ![c].at = "returned", ![c].result = "failed"]
          \/ ~success /\ Retries(c) /\ call' = [call EXCEPT ![c].at = "backoff"]
      BY DEF Return
    <3>3. [call EXCEPT ![c].at = "backoff"]
             = [call EXCEPT ![c] = [call[c] EXCEPT !.at = "backoff", !.result = call[c].result]]
      BY <3>1 DEF CallRecords
    <3>4. \A result : [call EXCEPT ![c].at = "returned", ![c].result = result]
             = [call EXCEPT ![c] = [call[c] EXCEPT !.at = "returned", !.result = result]]
      BY <3>1 DEF CallRecords
    <3>5. QED
      BY <3>2, <3>3, <3>4
  <2>4. CASE Ends("returned", "timeout")
    BY <2>4
  <2>5. CASE success /\ Ends("returned", "success")
    BY <2>5
  <2>6. CASE ~success /\ Ends("returned", "failed")
    BY <2>1, <2>6
  <2>7. CASE ~success /\ Retries(c) /\ Ends("backoff", call[c].result)
    BY <2>1, <2>2, <2>7
  <2>8. QED
    BY <2>3, <2>4, <2>5, <2>6, <2>7
<1> DEFINE new == [call[c] EXCEPT !.at = at, !.result = result]
<1>4. /\ new \in CallRecords /\ new.at = at /\ new.result = result
      /\ new.by = call[c].by /\ new.mode = call[c].mode /\ new.tries = call[c].tries
      /\ new.depth = call[c].depth /\ new.above = call[c].above
  BY <1>1, <1>3 DEF CallRecords, Settled
<1>5. call' = [call EXCEPT ![c] = new]
  BY <1>3
<1> HIDE DEF new
<1>6. call'[c] = new
  BY <1>1, <1>5 DEF TypeOK
<1>7. Context(call[c].by)' = Context(call[c].by)
  <2>1. \A d \in Calls : call'[d].above = call[d].above
    BY <1>1, <1>4, <1>5 DEF TypeOK
  <2>2. ~IsTop(call[c].by) => call[c].by[1] \in Calls
    BY <1>2, RunsAre
  <2>3. call'[c].by = call[c].by
    BY <1>4, <1>6
  <2>4. QED
    BY <2>1, <2>2, <2>3 DEF Context
<1>8. CallFits(c)'
  BY <1>1, <1>2, <1>3, <1>4, <1>6, <1>7 DEF CallFits, Settled, Retries, Tries
<1>9. ASSUME NEW k \in Tries
      PROVE  ChildFits(c, k)'
  <2>1. k = call[c].tries => <<c, k>> = Child(c)
    BY <1>2
  <2>2. QED
    BY <1>1, <1>2, <1>3, <1>4, <1>6, <2>1 DEF ChildFits
<1>10. late[c] # 0 => at = "returned"
  BY <1>1, <1>3 DEF LateFits, Retries
<1>11. QED
  BY <1>1, <1>4, <1>5, <1>8, <1>9, <1>10, CallMoves

LEMMA RetryKeeps ==
    ASSUME IInv, NEW c \in Calls, Retry(c)
    PROVE  IInv'
<1> DEFINE new == [call[c] EXCEPT !.at = "trying"]
<1>1. /\ TypeOK /\ CallFits(c) /\ LateFits(c) /\ \A k \in Tries : ChildFits(c, k)
      /\ call[c] \in CallRecords /\ call[c].at = "backoff" /\ call' = [call EXCEPT ![c] = new]
      /\ UNCHANGED <<run, cut, tasks, trace, long, late>>
  BY DEF IInv, CallOK, LateOK, ChildOK, TypeOK, CallRecords, Retry
<1>2. /\ new \in CallRecords /\ new.at = "trying" /\ new.result = call[c].result
      /\ new.by = call[c].by /\ new.mode = call[c].mode /\ new.tries = call[c].tries
      /\ new.depth = call[c].depth /\ new.above = call[c].above
  BY <1>1 DEF CallRecords
<1> HIDE DEF new
<1>3. call'[c] = new /\ call[c].by \in Runs
  BY <1>1 DEF TypeOK, CallRecords
<1>4. Context(call[c].by)' = Context(call[c].by)
  BY <1>1, <1>2, <1>3, RunsAre DEF Context, TypeOK
<1>5. CallFits(c)'
  BY <1>1, <1>2, <1>3, <1>4 DEF CallFits, Settled
<1>6. ASSUME NEW k \in Tries
      PROVE  ChildFits(c, k)'
  BY <1>1, <1>2, <1>3 DEF ChildFits
<1>7. late[c] = 0
  BY <1>1 DEF LateFits
<1>8. QED
  BY <1>1, <1>2, <1>5, <1>6, <1>7, CallMoves

LEMMA AnnounceKeeps ==
    ASSUME IInv, NEW c \in Calls, Announce(c)
    PROVE  IInv'
<1>0. PICK j, child, bg : j = call[c].tries + 1 /\ child = <<c, j>> /\ bg = (call[c].mode = "bg")
  OBVIOUS
<1> DEFINE e == Event("subagent.started", "running")
           at == IF bg THEN "returned" ELSE "waiting"
           result == IF bg THEN "started" ELSE call[c].result
           new == [call[c] EXCEPT !.tries = j, !.at = at, !.result = result]
           there == [run[child] EXCEPT !.at = "announced"]
<1>1. /\ TypeOK /\ RunOK /\ TraceOK /\ UsedOK /\ TasksOK /\ CallOK /\ ChildOK /\ LateOK
      /\ call \in [Calls -> CallRecords] /\ run \in [Runs -> RunRecords]
  BY DEF IInv, TypeOK, CallRecords, RunRecords
<1>2. /\ call[c].at = "trying"
      /\ run' = [run EXCEPT ![child] = there]
      /\ tasks' = IF bg THEN tasks \cup {child} ELSE tasks
      /\ Written(child, e)
      /\ late' = IF IsStopped(call[c].by) THEN [late EXCEPT ![c] = @ + 1] ELSE late
      /\ cut' = cut /\ long' = long
  BY <1>0 DEF Announce
<1>3. call' = [call EXCEPT ![c] = new]
  <2>1. call' = [call EXCEPT ![c].tries = j, ![c].at = at, ![c].result = result]
    BY <1>0, <1>1 DEF Announce
  <2>2. QED
    BY <1>1, <2>1 DEF CallRecords
<1>4. /\ CallFits(c) /\ LateFits(c) /\ \A k \in Tries : ChildFits(c, k)
      /\ call[c] \in CallRecords /\ call[c].tries \in Nat
  BY <1>1 DEF CallOK, LateOK, ChildOK, CallRecords
<1>5. /\ call[c].tries <= MaxRetries /\ j \in Tries /\ j \in 0..(MaxRetries + 1) /\ j # 0
      /\ child \in Runs /\ ~IsTop(child) /\ child[1] = c
  BY <1>0, <1>2, <1>4, RunsAre DEF CallFits, Tries
<1>6. /\ call[c].mode = "fg" <=> ~bg
      /\ bg \in BOOLEAN
  BY <1>0, <1>4 DEF CallRecords
<1>7. /\ new \in CallRecords /\ new.tries = j /\ new.at = at /\ new.result = result
      /\ new.by = call[c].by /\ new.mode = call[c].mode
      /\ new.depth = call[c].depth /\ new.above = call[c].above
  BY <1>4, <1>5, <1>6 DEF CallRecords, Settled
<1>8. at \in {"returned", "waiting"} /\ (at = "returned" <=> bg) /\ result \notin {"success", "failed"}
  BY <1>2, <1>4, <1>6 DEF CallFits
<1>9. /\ there \in RunRecords /\ there.at = "announced" /\ there.status = run[child].status
      /\ there.err = run[child].err
      /\ e \in [type : Types, status : Statuses] /\ e.type = "subagent.started"
  BY <1>1, <1>5 DEF RunRecords, Event, Types, Statuses
<1> HIDE DEF new, at, result, there, e
<1>10. /\ call' \in [Calls -> CallRecords] /\ call'[c] = new
       /\ \A d \in Calls : d # c => call'[d] = call[d]
       /\ run' \in [Runs -> RunRecords] /\ run'[child] = there
       /\ \A q \in Runs : q # child => run'[q] = run[q]
  BY <1>1, <1>2, <1>3, <1>5, <1>7, <1>9
<1>11. /\ run[child].at = "none" /\ RunFits(child) /\ TraceFits(child)
  BY <1>0, <1>1, <1>4, <1>5 DEF ChildFits, RunOK, TraceOK
<1>12. \A d \in Calls : /\ call'[d].by = call[d].by /\ call'[d].mode = call[d].mode
                        /\ call'[d].above = call[d].above
                        /\ call'[d].at = "none" <=> call[d].at = "none"
  BY <1>2, <1>7, <1>8, <1>10
<1>13. \A r \in Runs : /\ Context(r)' = Context(r) /\ (IsStopped(r)' <=> IsStopped(r))
                       /\ Background(r)' <=> Background(r)
  BY <1>2, <1>12, RunsAre DEF Context, IsStopped, Background
<1>14. /\ trace' \in [Runs -> Seq([type : Types, status : Statuses])]
       /\ trace'[child] # <<>> /\ \A q \in Runs : q # child => trace'[q] = trace[q]
       /\ \A i \in DOMAIN trace'[child] :
             (i \in DOMAIN trace[child] /\ trace'[child][i] = trace[child][i]) \/ trace'[child][i] = e
       /\ \A type : Has(child, type)' <=> Has(child, type) \/ type = e.type
  BY <1>1, <1>2, <1>5, <1>9, Appended
<1>15. tasks' \subseteq {r \in Runs : Background(r)'} /\ TasksOK'
  <2>1. bg => Background(child)
    BY <1>0, <1>5 DEF Background
  <2>2. tasks \subseteq {r \in Runs : Background(r)}
    BY <1>1 DEF TypeOK
  <2>3. tasks' \subseteq {r \in Runs : Background(r)'}
    BY <1>2, <1>5, <1>13, <2>1, <2>2
  <2>4. \A r \in tasks' : run'[r].at # "none"
    BY <1>1, <1>2, <1>9, <1>10, <2>2 DEF TasksOK
  <2>5. QED
    BY <2>3, <2>4 DEF TasksOK
<1>16. late' \in [Calls -> Nat] /\ late'[c] \in {late[c], late[c] + 1}
       /\ (late'[c] # late[c] => IsStopped(call[c].by)) /\ \A d \in Calls : d # c => late'[d] = late[d]
  BY <1>1, <1>2 DEF TypeOK
<1>17. TypeOK'
  BY <1>1, <1>2, <1>10, <1>14, <1>15, <1>16 DEF TypeOK, CallRecords, RunRecords
<1>18. RunFits(child)'
  BY <1>5, <1>9, <1>10, <1>11 DEF RunFits
<1>19. TraceFits(child)'
  <2>1. trace[child] = <<>> /\ ~Has(child, "run.finished") /\ ~Has(child, "subagent.started")
    BY <1>5, <1>11 DEF TraceFits
  <2>2. DOMAIN trace[child] = {}
    BY <2>1
  <2>3. \A i \in DOMAIN trace'[child] : trace'[child][i].type = "subagent.started"
    BY <1>9, <1>14, <2>2
  <2>4. ~Has(child, "run.finished")' /\ Has(child, "subagent.started")'
    BY <1>9, <1>14, <2>1
  <2>5. QED
    BY <1>5, <1>9, <1>10, <1>14, <2>3, <2>4 DEF TraceFits
<1>20. RunOK' /\ TraceOK'
  BY <1>5, <1>10, <1>14, <1>18, <1>19, OthersFit
<1>21. UsedOK'
  <2>1. Used' = Used
    BY <1>12 DEF Used
  <2>2. QED
    BY <1>1, <2>1 DEF UsedOK
<1>22. ASSUME NEW d \in Calls
       PROVE  CallFits(d)'
  <2>1. CallFits(d) /\ call[d].by \in Runs
    BY <1>1, RecordsAre DEF CallOK
  <2>2. Context(call[d].by)' = Context(call[d].by)
    BY <1>12, <1>13, <2>1
  <2>3. call[d].at # "none" => run'[call[d].by] = run[call[d].by]
    BY <1>10, <1>11, <2>1 DEF CallFits
  <2>4. CASE d = c
    BY <1>2, <1>5, <1>6, <1>7, <1>8, <1>10, <2>1, <2>2, <2>3, <2>4 DEF CallFits, Settled
  <2>5. CASE d # c
    BY <1>10, <2>1, <2>2, <2>3, <2>5 DEF CallFits, Settled
  <2>6. QED
    BY <2>4, <2>5
<1>23. ASSUME NEW d \in Calls, NEW k \in Tries
       PROVE  ChildFits(d, k)'
  <2>1. ChildFits(d, k) /\ <<d, k>> \in Runs
    BY <1>1, RunsAre DEF ChildOK
  <2>2. CASE <<d, k>> = child
    <3>1. d = c /\ k = j
      BY <1>0, <2>2
    <3>2. QED
      BY <1>5, <1>6, <1>7, <1>8, <1>9, <1>10, <2>2, <3>1 DEF ChildFits, Tries
  <2>3. CASE d = c /\ k # j
    <3>1. run'[<<d, k>>] = run[<<d, k>>]
      BY <1>0, <1>10, <2>1, <2>3
    <3>2. k \in Nat /\ (j < k <=> call[c].tries < k) /\ (k < j => k <= call[c].tries)
      BY <1>0, <1>4, <2>3 DEF Tries
    <3>3. k < j => k < call[c].tries \/ k = call[c].tries
      BY <1>4, <3>2
    <3>4. QED
      BY <1>2, <1>6, <1>7, <1>8, <1>10, <2>1, <2>3, <3>1, <3>2, <3>3 DEF ChildFits
  <2>4. CASE d # c
    <3>1. run'[<<d, k>>] = run[<<d, k>>] /\ call'[d] = call[d]
      BY <1>0, <1>10, <2>1, <2>4
    <3>2. QED
      BY <2>1, <3>1 DEF ChildFits, Living
  <2>5. QED
    BY <1>0, <2>2, <2>3, <2>4
<1>24. LateFits(c)'
  <2>1. late[c] = 0 /\ late'[c] \in {0, 1}
    BY <1>2, <1>4, <1>16 DEF LateFits
  <2>2. Child(c)' = child
    BY <1>0, <1>7, <1>10 DEF Child
  <2>3. there.status = "running"
    BY <1>9, <1>11 DEF RunFits
  <2>4. IsStopped(call[c].by) /\ call[c].mode = "fg" => IsStopped(child)
    <3>1. call[c].mode = "fg" => Context(call[c].by) \subseteq Context(child)
      BY <1>2, <1>4, <1>5 DEF CallFits, Context
    <3>2. QED
      BY <3>1 DEF IsStopped
  <2>5. late'[c] # 0 => IsStopped(call[c].by)'
    <3>1. call[c].by \in Runs
      BY <1>4 DEF CallRecords
    <3>2. QED
      BY <1>12, <1>13, <1>16, <2>1, <3>1
  <2>6. late'[c] # 0 /\ call[c].mode = "fg" => IsStopped(child)'
    BY <1>5, <1>13, <1>16, <2>1, <2>4
  <2>7. QED
    BY <1>5, <1>7, <1>8, <1>10, <2>1, <2>2, <2>3, <2>5, <2>6 DEF LateFits
<1>25. ASSUME NEW d \in Calls, d # c
       PROVE  LateFits(d)'
  <2> SUFFICES ASSUME late[d] # 0
               PROVE  LateFits(d)'
    BY <1>16, <1>25 DEF LateFits
  <2>1. LateFits(d) /\ call[d].by \in Runs /\ call[d].tries \in 0..(MaxRetries + 1)
    BY <1>1, RecordsAre DEF LateOK
  <2>2. call[d].tries \in Tries
    BY <2>1 DEF LateFits, Tries
  <2>3. Child(d)' = Child(d) /\ Child(d) \in Runs /\ Child(d) # child /\ call'[d] = call[d]
    BY <1>0, <1>10, <1>25, <2>2, RunsAre DEF Child
  <2>4. (IsStopped(Child(d))' <=> IsStopped(Child(d))) /\ run'[Child(d)] = run[Child(d)]
        /\ (IsStopped(call[d].by)' <=> IsStopped(call[d].by))
    BY <1>10, <1>13, <2>1, <2>3
  <2>5. late'[d] = late[d]
    BY <1>16, <1>25
  <2>6. QED
    BY <2>1, <2>3, <2>4, <2>5 DEF LateFits, Living
<1>26. CallOK' /\ ChildOK' /\ LateOK'
  BY <1>22, <1>23, <1>24, <1>25 DEF CallOK, ChildOK, LateOK
<1>27. QED
  BY <1>15, <1>17, <1>20, <1>21, <1>26 DEF IInv

LEMMA ActKeeps ==
    ASSUME IInv, NEW r \in Runs, Act(r)
    PROVE  IInv'
<1>1. /\ TypeOK /\ RunOK /\ TraceOK /\ UsedOK /\ TasksOK /\ CallOK /\ ChildOK /\ LateOK
      /\ call \in [Calls -> CallRecords] /\ run \in [Runs -> RunRecords]
      /\ run[r].at = "asking" /\ MayNest(r)
      /\ cut' = cut /\ tasks' = tasks /\ trace' = trace /\ long' = long /\ late' = late
  BY DEF IInv, TypeOK, CallRecords, RunRecords, Act
<1>2. PICK k : k = Cardinality(Used)
  OBVIOUS
<1>3. PICK n \in 1..2 : \E mode \in [1..n -> {"fg", "bg"}] :
         /\ k + n <= MaxCalls
         /\ call' = [c \in Calls |-> IF c \in (k + 1)..(k + n) THEN Called(r, mode[c - k]) ELSE call[c]]
  <2> DEFINE Made(u) == \E n \in 1..2 : \E mode \in [1..n -> {"fg", "bg"}] :
         /\ u + n <= MaxCalls
         /\ call' = [c \in Calls |-> IF c \in (u + 1)..(u + n) THEN Called(r, mode[c - u]) ELSE call[c]]
  <2>1. Made(Cardinality(Used))
    BY DEF Act
  <2> HIDE DEF Made
  <2>2. Made(k)
    BY <1>2, <2>1
  <2>3. QED
    BY <2>2 DEF Made
<1>4. PICK mode \in [1..n -> {"fg", "bg"}] :
         /\ k + n <= MaxCalls
         /\ call' = [c \in Calls |-> IF c \in (k + 1)..(k + n) THEN Called(r, mode[c - k]) ELSE call[c]]
  BY <1>3
<1> DEFINE Added == (k + 1)..(k + n)
           there == [run[r] EXCEPT !.at = "acting"]
<1>5. /\ there \in RunRecords /\ there.at = "acting" /\ there.status = run[r].status
      /\ there.err = run[r].err /\ run' = [run EXCEPT ![r] = there]
  BY <1>1 DEF RunRecords, Act
<1>6. k \in Nat /\ Used = 1..k /\ Added \subseteq Calls /\ k + n \in Nat
  BY <1>1, <1>2, <1>4 DEF UsedOK, Calls
<1>7. ASSUME NEW c \in Added
      PROVE  call[c].at = "none" /\ c \in Calls /\ c - k \in 1..n
  <2>1. c \notin 1..k /\ c \in Calls /\ c - k \in 1..n
    BY <1>6
  <2>2. QED
    BY <1>6, <2>1 DEF Used
<1> HIDE DEF there
<1>8. run' \in [Runs -> RunRecords] /\ run'[r] = there /\ \A q \in Runs : q # r => run'[q] = run[q]
  BY <1>1, <1>5
<1>9. /\ \A c \in Added : call'[c] = Called(r, mode[c - k])
      /\ \A c \in Calls \ Added : call'[c] = call[c]
  BY <1>4, <1>6
<1> HIDE DEF Added
\* The context and the depth of a run that has started do not change.
<1>10. ASSUME NEW q \in Runs, run[q].at # "none"
      PROVE  /\ Context(q)' = Context(q) /\ (IsStopped(q)' <=> IsStopped(q))
             /\ Background(q)' <=> Background(q)
  <2>1. ~IsTop(q) => q[1] \in Calls /\ call'[q[1]] = call[q[1]]
    BY <1>7, <1>9, <1>10, CallWasMade
  <2>2. QED
    BY <1>1, <2>1 DEF Context, IsStopped, Background
<1>11. ASSUME NEW c \in Added
      PROVE  /\ call'[c] \in CallRecords /\ call'[c].at = "trying" /\ call'[c].by = r
             /\ call'[c].tries = 0 /\ call'[c].depth # 0 /\ call'[c].result = "none"
             /\ call'[c].mode = "fg" => call'[c].above = Context(r)
  <2>1. Depth(r) \in 0..MaxDepth /\ Depth(r) + 1 \in 0..MaxDepth /\ Depth(r) + 1 # 0
    <3>1. ~IsTop(r) => call[r[1]].depth \in 0..MaxDepth
      BY <1>1, RunsAre DEF CallRecords
    <3>2. QED
      BY <1>1, <3>1 DEF Depth, MayNest
  <2>2. Context(r) \subseteq Runs
    <3>1. ~IsTop(r) => call[r[1]].above \subseteq Runs
      BY <1>1, RunsAre DEF CallRecords
    <3>2. QED
      BY <3>1 DEF Context
  <2>3. mode[c - k] \in {"fg", "bg"}
    BY <1>7
  <2> DEFINE d == Depth(r) + 1
             m == mode[c - k]
             a == IF m = "fg" THEN Context(r) ELSE {}
  <2>4. call'[c] = [at |-> "trying", by |-> r, mode |-> m, tries |-> 0, depth |-> d,
                    above |-> a, result |-> "none"]
    BY <1>9 DEF Called
  <2>5. d \in 0..MaxDepth /\ d # 0 /\ m \in {"fg", "bg"} /\ a \in SUBSET Runs
        /\ (m = "fg" => a = Context(r)) /\ 0 \in 0..(MaxRetries + 1)
    BY <2>1, <2>2, <2>3
  <2> HIDE DEF d, m, a
  <2>6. QED
    BY <2>4, <2>5 DEF CallRecords
<1>12. call' \in [Calls -> CallRecords]
  <2>1. \A c \in Calls : call'[c] \in CallRecords
    BY <1>1, <1>9, <1>11
  <2>2. QED
    BY <1>4, <2>1
<1>13. tasks' \subseteq {q \in Runs : Background(q)'} /\ TasksOK'
  <2>1. \A q \in tasks : q \in Runs /\ Background(q) /\ run[q].at # "none"
    BY <1>1 DEF TypeOK, TasksOK
  <2>2. \A q \in tasks : Background(q)' /\ run'[q].at # "none"
    BY <1>5, <1>8, <1>10, <2>1
  <2>3. QED
    BY <1>1, <2>1, <2>2 DEF TasksOK
<1>14. TypeOK'
  BY <1>1, <1>8, <1>12, <1>13 DEF TypeOK, CallRecords, RunRecords
<1>15. RunOK' /\ TraceOK'
  <2>1. RunFits(r) /\ TraceFits(r)
    BY <1>1 DEF RunOK, TraceOK
  <2>2. RunFits(r)'
    BY <1>1, <1>5, <1>8, <2>1 DEF RunFits
  <2>3. ~Has(r, "run.finished")
    BY <1>1, <2>1 DEF TraceFits
  <2>4. \A i \in DOMAIN trace[r] : trace[r][i].type # "run.finished"
    BY <2>3 DEF Has
  <2>5. \A type : Has(r, type)' <=> Has(r, type)
    BY <1>1 DEF Has
  <2>6. TraceFits(r)'
    BY <1>1, <1>5, <1>8, <2>1, <2>3, <2>4, <2>5 DEF TraceFits
  <2>7. QED
    BY <1>1, <1>8, <2>2, <2>6, OthersFit
<1>16. UsedOK'
  <2>1. \A c \in Calls : call'[c].at # "none" <=> c \in 1..k \/ c \in Added
    BY <1>6, <1>9, <1>11 DEF Used
  <2>2. Used' = 1..(k + n)
    BY <1>6, <2>1 DEF Used, Added, Calls
  <2>3. Cardinality(1..(k + n)) = k + n
    BY <1>6, FS_Interval
  <2>4. QED
    BY <1>6, <2>2, <2>3 DEF UsedOK
<1>17. ASSUME NEW c \in Calls
       PROVE  CallFits(c)'
  <2>1. CASE c \in Added
    <3>1. Context(r)' = Context(r)
      BY <1>1, <1>10
    <3>2. QED
      BY <1>5, <1>8, <1>11, <2>1, <3>1 DEF CallFits, Settled
  <2>2. CASE c \notin Added
    <3>1. CallFits(c) /\ call'[c] = call[c] /\ call[c].by \in Runs
      BY <1>1, <1>9, <2>2, RecordsAre DEF CallOK
    <3>2. CASE call[c].at = "none"
      BY <3>1, <3>2 DEF CallFits, Settled
    <3>3. CASE call[c].at # "none"
      <4>1. run[call[c].by].at # "none"
        BY <3>1, <3>3 DEF CallFits
      <4>2. Context(call[c].by)' = Context(call[c].by)
        BY <1>10, <3>1, <4>1
      <4>3. run'[call[c].by] = run[call[c].by] \/ run'[call[c].by].at = "acting"
        BY <1>5, <1>8, <3>1
      <4>4. QED
        BY <3>1, <4>1, <4>2, <4>3 DEF CallFits
    <3>4. QED
      BY <3>2, <3>3
  <2>3. QED
    BY <2>1, <2>2
<1>18. ASSUME NEW c \in Calls, NEW j \in Tries
       PROVE  ChildFits(c, j)'
  <2>1. ChildFits(c, j) /\ CallFits(c) /\ <<c, j>> \in Runs /\ j \in Nat /\ j # 0
    BY <1>1, RunsAre DEF ChildOK, CallOK, Tries
  <2>2. CASE c \in Added
    <3>1. call[c].tries = 0
      BY <1>7, <2>1, <2>2 DEF CallFits
    <3>2. run[<<c, j>>].at = "none" /\ run'[<<c, j>>] = run[<<c, j>>]
      BY <1>1, <1>8, <2>1, <3>1 DEF ChildFits
    <3>3. QED
      BY <1>11, <2>1, <2>2, <3>2 DEF ChildFits
  <2>3. CASE c \notin Added
    <3>1. call'[c] = call[c]
      BY <1>9, <2>3
    <3>2. CASE <<c, j>> = r
      BY <1>1, <1>5, <1>8, <2>1, <3>1, <3>2 DEF ChildFits, Living, Over
    <3>3. CASE <<c, j>> # r
      <4>1. run'[<<c, j>>] = run[<<c, j>>]
        BY <1>8, <2>1, <3>3
      <4>2. QED
        BY <2>1, <3>1, <4>1 DEF ChildFits, Living
    <3>4. QED
      BY <3>2, <3>3
  <2>4. QED
    BY <2>2, <2>3
<1>19. ASSUME NEW c \in Calls
       PROVE  LateFits(c)'
  <2> SUFFICES ASSUME late[c] # 0
               PROVE  LateFits(c)'
    BY <1>1 DEF LateFits
  <2>1. LateFits(c) /\ CallFits(c) /\ call[c].by \in Runs /\ call[c].tries \in 0..(MaxRetries + 1)
    BY <1>1, RecordsAre DEF LateOK, CallOK
  <2>2. call[c].tries \in Tries /\ call[c].at # "none"
    BY <2>1 DEF LateFits, Tries
  <2>3. call'[c] = call[c]
    BY <1>7, <1>9, <2>2
  <2>4. Child(c)' = Child(c) /\ Child(c) \in Runs /\ Child(c) = <<c, call[c].tries>>
    BY <2>2, <2>3, RunsAre DEF Child
  <2>5. run[Child(c)].at # "none" /\ run[call[c].by].at # "none"
    <3>1. ChildFits(c, call[c].tries)
      BY <1>1, <2>2 DEF ChildOK
    <3>2. QED
      BY <2>1, <2>2, <2>4, <3>1 DEF ChildFits, CallFits
  <2>6. IsStopped(Child(c))' <=> IsStopped(Child(c))
    BY <1>10, <2>4, <2>5
  <2>7. IsStopped(call[c].by)' <=> IsStopped(call[c].by)
    BY <1>10, <2>1, <2>3, <2>5
  <2>8. run'[Child(c)].status = run[Child(c)].status /\ (Living(Child(c))' <=> Living(Child(c)))
    BY <1>1, <1>5, <1>8, <2>4 DEF Living, Over
  <2>9. QED
    BY <1>1, <2>1, <2>3, <2>4, <2>6, <2>7, <2>8 DEF LateFits
<1>20. CallOK' /\ ChildOK' /\ LateOK'
  BY <1>17, <1>18, <1>19 DEF CallOK, ChildOK, LateOK
<1>21. QED
  BY <1>13, <1>14, <1>15, <1>16, <1>20 DEF IInv

-----------------------------------------------------------------------------
(* The process.                                                             *)

LEMMA RestartKeeps ==
    ASSUME IInv, Restart
    PROVE  IInv'
<1>1. /\ TypeOK /\ RunOK /\ TraceOK /\ UsedOK /\ TasksOK /\ CallOK /\ ChildOK /\ LateOK
      /\ call \in [Calls -> CallRecords] /\ run \in [Runs -> RunRecords]
      /\ run' = [r \in Runs |-> IF Living(r) THEN [run[r] EXCEPT !.at = "lost"] ELSE run[r]]
      /\ call' = [c \in Calls |-> IF call[c].at \in Settled THEN call[c]
                                                            ELSE [call[c] EXCEPT !.at = "lost"]]
      /\ cut' = {} /\ tasks' = {} /\ trace' = trace /\ long' = long /\ late' = late
  BY DEF IInv, TypeOK, CallRecords, RunRecords, Restart
<1>2. ASSUME NEW r \in Runs
      PROVE  /\ run'[r] \in RunRecords /\ run'[r].status = run[r].status /\ run'[r].err = run[r].err
             /\ run[r].at \in Over => run'[r] = run[r]
             /\ run[r].at \notin Over => run'[r].at = "lost"
             /\ run[r].at = "none" <=> run'[r].at = "none"
             /\ ~Living(r)'
  BY <1>1 DEF RunRecords, Living, Over
<1>3. ASSUME NEW c \in Calls
      PROVE  /\ call'[c] \in CallRecords /\ call'[c].by = call[c].by /\ call'[c].mode = call[c].mode
             /\ call'[c].tries = call[c].tries /\ call'[c].depth = call[c].depth
             /\ call'[c].above = call[c].above /\ call'[c].result = call[c].result
             /\ call[c].at \in Settled => call'[c].at = call[c].at
             /\ call[c].at \notin Settled => call'[c].at = "lost"
             /\ call[c].at = "none" <=> call'[c].at = "none"
  <2>1. call[c] \in CallRecords
    BY <1>1
  <2>2. call'[c] = IF call[c].at \in Settled THEN call[c] ELSE [call[c] EXCEPT !.at = "lost"]
    BY <1>1
  <2>3. QED
    BY <2>1, <2>2 DEF CallRecords, Settled
<1>4. run' \in [Runs -> RunRecords] /\ call' \in [Calls -> CallRecords]
  BY <1>1, <1>2, <1>3
<1>5. TypeOK' /\ TasksOK'
  BY <1>1, <1>4 DEF TypeOK, TasksOK, CallRecords, RunRecords
<1>6. ASSUME NEW r \in Runs
      PROVE  RunFits(r)' /\ TraceFits(r)'
  <2>1. RunFits(r) /\ TraceFits(r)
    BY <1>1 DEF RunOK, TraceOK
  <2>2. RunFits(r)'
    BY <1>2, <2>1 DEF RunFits, Over
  <2>3. /\ trace'[r] = trace[r] /\ run'[r].status = run[r].status
        /\ run[r].at = "none" <=> run'[r].at = "none"
        /\ run'[r].at = run[r].at \/ run'[r].at = "lost"
    BY <1>1, <1>2
  <2>4. \A type : Has(r, type)' <=> Has(r, type)
    BY <2>3 DEF Has
  <2>5. TraceFits(r)'
    BY <2>1, <2>3, <2>4 DEF TraceFits
  <2>6. QED
    BY <2>2, <2>5
<1>7. UsedOK'
  <2>1. Used' = Used
    BY <1>3 DEF Used
  <2>2. QED
    BY <1>1, <2>1 DEF UsedOK
<1>8. \A r \in Runs : Context(r)' = Context(r)
  BY <1>3, RunsAre DEF Context
<1>9. ASSUME NEW c \in Calls
      PROVE  CallFits(c)'
  <2>1. CallFits(c) /\ call[c].by \in Runs
    BY <1>1, RecordsAre DEF CallOK
  <2>2. Context(call[c].by)' = Context(call[c].by) /\ (run[call[c].by].at # "none" => run'[call[c].by].at # "none")
    BY <1>2, <1>3, <1>8, <2>1
  <2>3. QED
    BY <1>3, <2>1, <2>2 DEF CallFits, Settled
<1>10. ASSUME NEW c \in Calls, NEW k \in Tries
       PROVE  ChildFits(c, k)'
  <2>1. ChildFits(c, k) /\ <<c, k>> \in Runs
    BY <1>1, RunsAre DEF ChildOK
  <2>2. QED
    BY <1>2, <1>3, <2>1 DEF ChildFits, Settled, Over
<1>11. ASSUME NEW c \in Calls
       PROVE  LateFits(c)'
  <2> SUFFICES ASSUME late[c] # 0
               PROVE  LateFits(c)'
    BY <1>1 DEF LateFits
  <2>1. LateFits(c) /\ call[c].tries \in 0..(MaxRetries + 1)
    BY <1>1, RecordsAre DEF LateOK
  <2>2. Child(c)' = Child(c) /\ Child(c) \in Runs
    BY <1>3, <2>1, RunsAre DEF LateFits, Child, Tries
  <2>3. /\ call'[c].at = call[c].at \/ call'[c].at = "lost"
        /\ call[c].at \in {"returned", "lost"} <=> call[c].at \in Settled \ {"none"}
        /\ call'[c].tries = call[c].tries /\ call'[c].mode = call[c].mode
    BY <1>3, <2>1 DEF Settled
  <2>4. run'[Child(c)].status = run[Child(c)].status /\ ~Living(Child(c))'
    BY <1>2, <2>2
  <2>5. call'[c].at # "waiting"
    BY <1>3 DEF Settled
  <2>6. QED
    BY <1>1, <2>1, <2>2, <2>3, <2>4, <2>5 DEF LateFits
<1>12. QED
  BY <1>5, <1>6, <1>7, <1>9, <1>10, <1>11 DEF IInv, RunOK, TraceOK, CallOK, ChildOK, LateOK

-----------------------------------------------------------------------------
(* The theorems.                                                            *)

LEMMA InvInit == Init => IInv
<1> SUFFICES ASSUME Init
             PROVE  IInv
  OBVIOUS
<1>1. <<0, 1>> \in Runs /\ 0 \in 0..(MaxRetries + 1) /\ 0 \in 0..MaxDepth
  BY DEF Runs
<1>2. /\ run \in [Runs -> RunRecords] /\ call \in [Calls -> CallRecords] /\ late \in [Calls -> Nat]
      /\ \A r \in Runs : /\ run[r].at = "none" /\ run[r].status = "running" /\ ~run[r].err
                         /\ trace[r] = <<>> /\ DOMAIN trace[r] = {}
      /\ \A c \in Calls : /\ call[c].at = "none" /\ call[c].tries = 0 /\ call[c].mode = "fg"
                          /\ call[c].result = "none" /\ late[c] = 0
      /\ cut = {} /\ tasks = {} /\ long = {}
  BY <1>1 DEF Init, RunRecords, CallRecords, Over, Settled, Statuses
<1>3. trace \in [Runs -> Seq([type : Types, status : Statuses])]
  BY DEF Init
<1>4. TypeOK
  BY <1>2, <1>3 DEF TypeOK, RunRecords, CallRecords
<1>5. RunOK /\ TasksOK
  BY <1>2 DEF RunOK, RunFits, TasksOK
<1>6. TraceOK
  BY <1>2 DEF TraceOK, TraceFits, Has
<1>7. UsedOK
  <2>1. Used = {}
    BY <1>2 DEF Used
  <2>2. Cardinality({}) = 0 /\ 1..0 = {}
    BY FS_EmptySet
  <2>3. QED
    BY <2>1, <2>2 DEF UsedOK
<1>8. CallOK /\ LateOK
  BY <1>2 DEF CallOK, CallFits, LateOK, LateFits, Settled
<1>9. ChildOK
  <2> SUFFICES ASSUME NEW c \in Calls, NEW k \in Tries
               PROVE  ChildFits(c, k)
    BY DEF ChildOK
  <2>1. run[<<c, k>>].at = "none" /\ k \in Nat /\ k > 0
    BY <1>2, RunsAre DEF Tries
  <2>2. QED
    BY <1>2, <2>1 DEF ChildFits
<1>10. QED
  BY <1>4, <1>5, <1>6, <1>7, <1>8, <1>9 DEF IInv

LEMMA InvStep == IInv /\ [Next]_vars => IInv'
<1> SUFFICES ASSUME IInv, [Next]_vars
             PROVE  IInv'
  OBVIOUS
<1>1. CASE \E k \in 1..Tops : StartRun(k) \/ Abort(k)
  BY <1>1, StartRunKeeps, AbortKeeps
<1>2. CASE \E r \in Runs : RunStep(r)
  <2>1. PICK r \in Runs : RunStep(r)
    BY <1>2
  <2>2. CASE Act(r)
    BY <2>2, ActKeeps
  <2>3. CASE ActDone(r) \/ Succeed(r) \/ Fail(r) \/ Panic(r)
    BY <2>3, LoopStepsKeep
  <2>4. CASE PublishRunFinished(r)
    BY <2>4, RunFinishedKeeps
  <2>5. CASE PublishSubagentFinished(r)
    BY <2>5, SubagentFinishedKeeps
  <2>6. CASE ChildStarts(r)
    BY <2>6, ChildStartsKeeps
  <2>7. QED
    BY <2>1, <2>2, <2>3, <2>4, <2>5, <2>6 DEF RunStep
<1>3. CASE \E r \in Runs : LongLine(r)
  BY <1>3, LongLineKeeps
<1>4. CASE \E c \in Calls : CallStep(c)
  BY <1>4, AnnounceKeeps, ReturnKeeps, RetryKeeps DEF CallStep
<1>5. CASE \E c \in Calls : TimeOut(c)
  BY <1>5, TimeOutKeeps
<1>6. CASE Restart
  BY <1>6, RestartKeeps
<1>7. CASE UNCHANGED vars
  <2>1. cut' = cut /\ UNCHANGED <<run, call, tasks, trace, long, late>>
    BY <1>7 DEF vars
  <2>2. cut \subseteq cut' /\ cut' \subseteq Runs /\ long' \subseteq Runs
    BY <2>1 DEF IInv, TypeOK
  <2>3. QED
    BY <2>1, <2>2, CutKeeps
<1>8. QED
  BY <1>1, <1>2, <1>3, <1>4, <1>5, <1>6, <1>7 DEF Next

\* The inductive invariant: the calls of a run that is not at work have all returned, the tries
\* of a call follow one another, each failed but for the last, the file of a run holds what it
\* has published, and the context of a waiting call's child hangs on that of its caller.
THEOREM InductiveInvariant == Spec => []IInv
BY InvInit, InvStep, PTL DEF Spec

\* Every variable keeps its shape, for any number of runs, calls, retries and levels: no call
\* makes more tries than executeWithRetry allows, no run is nested deeper than
\* maxSubagentDepth, and the registry of agent_result holds background children only.
THEOREM TypeCorrect == Spec => []TypeOK
<1>1. IInv => TypeOK
  BY DEF IInv
<1>2. QED
  BY <1>1, InductiveInvariant, PTL

\* At any moment a waiting call has at most one living child, none is alive once the run that
\* made the call has ended, and at most one child is announced after that run was stopped,
\* which then does not succeed: sub-agents do not outlive or outnumber their call.
THEOREM ChildrenNeverStray == Spec => []NoStrayChildren
<1>1. IInv => NoStrayChildren
  <2> SUFFICES ASSUME IInv, NEW c \in Used
               PROVE  /\ Cardinality({k \in Tries : call[c].mode = "fg" /\ Living(<<c, k>>)}) <= 1
                      /\ call[c].mode = "fg" /\ run[call[c].by].at \in {"ended", "told", "finished"} =>
                            \A k \in Tries : ~Living(<<c, k>>)
                      /\ late[c] <= 1
                      /\ late[c] = 1 /\ call[c].mode = "fg" => run[Child(c)].status # "success"
    BY DEF NoStrayChildren
  <2>1. /\ c \in Calls /\ call[c].at # "none" /\ CallFits(c) /\ LateFits(c)
        /\ \A k \in Tries : ChildFits(c, k)
        /\ call[c].tries \in 0..(MaxRetries + 1) /\ late[c] \in Nat
        /\ call[c].at \in Settled \cup {"trying", "waiting", "backoff"}
    BY RecordsAre DEF IInv, Used, CallOK, LateOK, ChildOK
  <2>2. ASSUME NEW k \in Tries
        PROVE  Living(<<c, k>>) => k = call[c].tries
    <3>1. ChildFits(c, k) /\ k \in Nat
      BY <2>1 DEF Tries
    <3>2. k < call[c].tries \/ k = call[c].tries \/ call[c].tries < k
      BY <2>1, <3>1
    <3>3. QED
      BY <3>1, <3>2 DEF ChildFits, Living, Over
  <2>3. Cardinality({k \in Tries : call[c].mode = "fg" /\ Living(<<c, k>>)}) <= 1
    <3> DEFINE Alive == {k \in Tries : call[c].mode = "fg" /\ Living(<<c, k>>)}
    <3>1. Alive = {} \/ Alive = {call[c].tries}
      BY <2>2
    <3>2. Cardinality({}) = 0 /\ Cardinality({call[c].tries}) = 1
      BY FS_EmptySet, FS_Singleton
    <3> HIDE DEF Alive
    <3>3. Cardinality(Alive) <= 1
      BY <3>1, <3>2
    <3>4. QED
      BY <3>3 DEF Alive
  <2>4. ASSUME call[c].mode = "fg", run[call[c].by].at \in {"ended", "told", "finished"},
               NEW k \in Tries
        PROVE  ~Living(<<c, k>>)
    <3>1. call[c].at \in {"returned", "lost"}
      BY <2>1, <2>4 DEF CallFits, Settled
    <3>2. ChildFits(c, k)
      BY <2>1
    <3>3. QED
      BY <2>2, <2>4, <3>1, <3>2 DEF ChildFits, Living, Over
  <2>5. late[c] <= 1 /\ (late[c] = 1 /\ call[c].mode = "fg" => run[Child(c)].status # "success")
    BY <2>1 DEF LateFits
  <2>6. QED
    BY <2>3, <2>4, <2>5
<1>2. QED
  BY <1>1, InductiveInvariant, PTL

\* What a reader is told about the runs.
LEMMA ShownAsItEnded ==
    ASSUME IInv, NEW r \in Runs
    PROVE  /\ Has(r, "run.finished") => ShownStatus(r) = run[r].status /\ run[r].status # "running"
           /\ ~Has(r, "run.finished") => ShownStatus(r) = "running"
<1> DEFINE events == {trace[r][i] : i \in DOMAIN trace[r]}
           shown == CHOOSE e \in events : e.type = "run.finished"
<1>1. CASE Has(r, "run.finished")
  <2>1. \E e \in events : e.type = "run.finished"
    BY <1>1 DEF Has
  <2>2. shown \in events /\ shown.type = "run.finished"
    BY <2>1
  <2>3. PICK i \in DOMAIN trace[r] : shown = trace[r][i]
    BY <2>2
  <2>4. TraceFits(r)
    BY DEF IInv, TraceOK
  <2>5. shown.status = run[r].status /\ run[r].status # "running"
    <3> HIDE DEF shown
    <3>1. QED
      BY <2>2, <2>3, <2>4 DEF TraceFits
  <2>6. ShownStatus(r) = shown.status
    BY <1>1 DEF ShownStatus
  <2>7. QED
    BY <1>1, <2>5, <2>6
<1>2. CASE ~Has(r, "run.finished")
  BY <1>2 DEF ShownStatus
<1>3. QED
  BY <1>1, <1>2

\* run.list and agent_result tell the truth: a run that has started is listed in one place, with
\* the status it ended with, unless its file or its parent's cannot be read or its parent is a
\* sub-agent; "done" and "failed" are said only with the events of the end on record, and of a
\* waiting call only as its last try ended, every earlier one having failed.
THEOREM ReportsAlwaysTrue == Spec => []ReportsTrue
<1>1. ASSUME IInv, NEW r \in Runs
      PROVE  /\ r \in Listed <=> IsTop(r) /\ run[r].at # "none" /\ r \notin long
             /\ ~IsTop(r) /\ run[r].at # "none" =>
                   {p \in Runs : r \in ShownUnder(p)} =
                       IF r \in long \/ Parent(r) \in long \/ ~IsTop(Parent(r)) THEN {} ELSE {Parent(r)}
  <2>1. \A q \in Runs : /\ IsChild(q) <=> ~IsTop(q) /\ run[q].at # "none"
                        /\ Readable(q) <=> run[q].at # "none" /\ q \notin long
    BY <1>1 DEF IInv, TraceOK, TraceFits, IsChild, Readable
  <2>2. \A q \in Runs : q \in Listed <=> IsTop(q) /\ run[q].at # "none" /\ q \notin long
    BY <2>1 DEF Listed
  <2>3. ASSUME ~IsTop(r), run[r].at # "none"
        PROVE  {p \in Runs : r \in ShownUnder(p)} =
                  IF r \in long \/ Parent(r) \in long \/ ~IsTop(Parent(r)) THEN {} ELSE {Parent(r)}
    <3>1. Parent(r) \in Runs /\ run[Parent(r)].at # "none"
      <4>1. r[1] \in Calls /\ call[r[1]].at # "none"
        BY <1>1, <2>3, CallWasMade
      <4>2. call[r[1]].by \in Runs
        BY <1>1, <4>1, RecordsAre DEF IInv
      <4>3. CallFits(r[1])
        BY <1>1, <4>1 DEF IInv, CallOK
      <4>4. QED
        BY <4>1, <4>2, <4>3 DEF Parent, CallFits
    <3>2. \A p \in Runs : r \in ShownUnder(p) <=> p \in Listed /\ r \notin long /\ Parent(r) = p
      BY <2>1, <2>3 DEF ShownUnder
    <3>3. QED
      BY <2>2, <3>1, <3>2
  <2>4. QED
    BY <2>2, <2>3
<1>2. ASSUME IInv, NEW r \in Runs
      PROVE  /\ ShownStatus(r) \in {"running", run[r].status}
             /\ run[r].at \in {"told", "finished"} => ShownStatus(r) # "running"
             /\ run[r].at \in {"announced", "asking", "acting", "ended"} => ShownStatus(r) = "running"
  <2>1. TraceFits(r)
    BY <1>2 DEF IInv, TraceOK
  <2>2. QED
    BY <1>2, <2>1, ShownAsItEnded DEF TraceFits
<1>3. IInv => ListTrue
  BY <1>1, <1>2 DEF ListTrue
<1>4. ASSUME IInv, NEW r \in Runs, AgentResult(r) \in {"done", "failed"}
      PROVE  /\ AgentResult(r) = "done" <=> run[r].status = "success"
             /\ Has(r, "run.finished") /\ Has(r, "subagent.finished")
  <2>1. r \in tasks /\ run[r].at = "finished" /\ AgentResult(r) = IF HasFailed(r) THEN "failed" ELSE "done"
    BY <1>4 DEF AgentResult
  <2>2. ~IsTop(r)
    BY <1>4, <2>1 DEF IInv, TypeOK, Background
  <2>3. RunFits(r) /\ TraceFits(r) /\ run[r].status \in Statuses
    BY <1>4, RecordsAre DEF IInv, RunOK, TraceOK
  <2>4. Has(r, "run.finished") /\ Has(r, "subagent.finished")
    BY <2>1, <2>2, <2>3 DEF TraceFits
  <2>5. HasFailed(r) <=> run[r].status # "success"
    BY <2>1, <2>3 DEF RunFits, HasFailed, Statuses
  <2>6. QED
    BY <2>1, <2>4, <2>5
<1>5. ASSUME IInv, NEW c \in Used, call[c].result \in {"success", "failed"}
      PROVE  /\ run[Child(c)].status = call[c].result
             /\ \A k \in 1..(call[c].tries - 1) : run[<<c, k>>].status = "failed"
  <2>1. /\ c \in Calls /\ call[c].tries \in Tries /\ \A k \in Tries : ChildFits(c, k)
    <3>1. c \in Calls /\ CallFits(c)
      BY <1>5 DEF Used, IInv, CallOK
    <3>2. call[c].tries \in 0..(MaxRetries + 1)
      BY <1>5, <3>1, RecordsAre DEF IInv
    <3>3. QED
      BY <1>5, <3>1, <3>2 DEF CallFits, IInv, ChildOK, Tries
  <2>2. run[Child(c)].status = call[c].result
    BY <1>5, <2>1 DEF ChildFits, Child
  <2>3. ASSUME NEW k \in 1..(call[c].tries - 1)
        PROVE  run[<<c, k>>].status = "failed"
    <3>1. k \in Tries /\ k < call[c].tries
      BY <2>1 DEF Tries
    <3>2. QED
      BY <2>1, <3>1 DEF ChildFits
  <2>4. QED
    BY <2>2, <2>3
<1>6. IInv => ResultTrue
  BY <1>4, <1>5 DEF ResultTrue
<1>7. IInv => ReportsTrue
  BY <1>3, <1>6 DEF ReportsTrue
<1>8. QED
  BY <1>7, InductiveInvariant, PTL
=============================================================================
