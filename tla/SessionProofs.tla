--------------------------- MODULE SessionProofs ---------------------------
(***************************************************************************)
(* Proofs about Session, for any number of overlapping sends, any step      *)
(* limit, any number of parallel tool calls, clears, compactions and        *)
(* crashes.                                                                 *)
(***************************************************************************)
EXTENDS Session, SequenceTheorems, FiniteSetTheorems, WellFoundedInduction, TLAPS

USE SessionAssumption DEF SessionAssumption

-----------------------------------------------------------------------------
(* The inductive invariant.                                                 *)

\* What a part of a history, the messages after the first n, is like: every tool_result
\* follows its reply, no two replies share a tool_use, ...
Follows(q, n) ==
    \A i \in DOMAIN q : i > n /\ q[i].results # {} => i > n + 1 /\ q[i - 1].uses = q[i].results

Distinct(q, n) ==
    \A i, j \in DOMAIN q : i > n /\ j > n /\ i # j => q[i].uses \cap q[j].uses = {}

\* ... every reply has its results, ...
Complete(q, n) ==
    \A i \in DOMAIN q : i > n /\ q[i].uses # {} => i < Len(q) /\ q[i + 1].results = q[i].uses

\* ... and they are replies of the first k steps of one run.
Owned(q, n, s, k) ==
    \A i \in DOMAIN q : i > n => \A u \in q[i].uses : u[1] = s /\ u[2] <= k

\* The tool_use blocks of q are those of the runs T.
From(q, T) == \A i \in DOMAIN q : \A u \in q[i].uses : u[1] \in T

Crashed == "crash" \in ToSet(events)
Loose(endings) == \E k \in endings : k.loose

\* A run's messages are in the thread once it has saved them, or crashed while it did;
\* while a run is under way the last line is not torn, its prompt has followed it.
Gone == {s \in Sends : slot[s].pc \in {"saved", "done", "lost"}}
Prompted == {s \in Sends : slot[s].pc \in {"running", "ended", "saved"}}

ThreadOK ==
    /\ Follows(thread, 0) /\ Distinct(thread, 0)
    /\ Complete(thread, 0) \/ Crashed \/ Loose(kept)
    /\ From(thread, Gone)
    /\ RepliesKept
    /\ torn => Crashed /\ Prompted = {}

\* A run that goes on, with n messages of history, ...
RunOK(x, n, s) ==
    /\ GoesOn(x) /\ x.reason = "none"
    /\ \A u \in x.final : u[1] = s
    /\ ~x.compacted =>
          /\ n <= Len(x.msgs)
          /\ Follows(x.msgs, n) /\ Distinct(x.msgs, n) /\ Owned(x.msgs, n, s, x.step)
          /\ Complete(x.msgs, n) \/ x.unhandled # {}
          /\ x.replied => \E i \in DOMAIN x.msgs : i > n /\ x.msgs[i] = Reply(x.final, s)

\* ... and what is left of one to be saved.
NewOK(new, endings, s) ==
    /\ Follows(new, 0) /\ Distinct(new, 0)
    /\ Complete(new, 0) \/ Loose(endings)
    /\ From(new, {s})
    /\ \A k \in endings : k.last \subseteq ToSet(new)

RunningOK(s) == slot[s].pc = "running" => RunOK(slot[s].x, slot[s].prefill, s)

EndedOK(s) == slot[s].pc = "ended" => NewOK(slot[s].new, slot[s].ending, s)

Done == {s \in Sends : slot[s].pc = "done"}

\* The session in memory and on disk, and the copies the handlers hold.
MetaOK ==
    /\ meta = Torn => Crashed
    /\ mem # Absent => Readable(meta)
    /\ clearing => "clear" \in ToSet(events)
    /\ Current = Absent => \A s \in Sends : slot[s].pc = "idle"
    /\ MetaMatches /\ RunIDsComplete

HandlersOK ==
    /\ \A s \in InFlight : /\ Readable(Current) /\ slot[s].sess \in Sessions
                           /\ slot[s].sess.mode = Current.mode
    /\ ~overlapped =>
          /\ \A s, t \in InFlight : s = t
          /\ "clear" \notin ToSet(events) => \A s \in InFlight : ToSet(slot[s].sess.runIDs) = Done
          /\ Readable(Current) /\ Current.mode = "one_shot" =>
                \/ Done = {}
                \/ Current.status = "closed" /\ InFlight = {} /\ \E s \in Sends : Done = {s}
    /\ Readable(Current) /\ Current.mode = "chat" /\ Current.status = "closed" =>
          InFlight \subseteq overClose

IInv ==
    /\ TypeOK /\ ThreadOK /\ (\A s \in Sends : RunningOK(s) /\ EndedOK(s))
    /\ MetaOK /\ HandlersOK
-----------------------------------------------------------------------------
(* The trimming of a thread, for every thread.                              *)

\* A set of numbers with a bound has a greatest element.
LEMMA Greatest ==
    ASSUME NEW n \in Nat, NEW T \in SUBSET (0..n), T # {}
    PROVE  \E i \in T : \A j \in T : j <= i
<1> DEFINE U == 0..n
           F == {i..n : i \in T}
<1>1. IsFiniteSet(U)
  BY FS_Interval
<1>2. IsWellFoundedOn(StrictSubsetOrdering(U), FiniteSubsetsOf(U))
  BY FS_StrictSubsetOrderingWellFounded
<1>3. F \subseteq FiniteSubsetsOf(U)
  BY <1>1, FS_Subset DEF FiniteSubsetsOf
<1>4. F # {}
  OBVIOUS
<1> HIDE DEF F
<1>5. PICK x \in F : \A y \in F : ~ (<<y, x>> \in StrictSubsetOrdering(U))
  BY <1>2, <1>3, <1>4, WFMin
<1> USE DEF F
<1>6. PICK i \in T : x = i..n
  BY <1>5
<1>7. ASSUME NEW j \in T, j > i
      PROVE  FALSE
  <2>1. j..n \in F /\ j..n \subseteq U /\ x \subseteq U
    BY <1>6
  <2>2. j..n \subseteq x /\ j..n # x
    BY <1>6, <1>7
  <2>3. <<j..n, x>> \in StrictSubsetOrdering(U)
    BY <2>1, <2>2 DEF StrictSubsetOrdering
  <2>4. QED
    BY <1>5, <2>1, <2>3
<1>8. QED
  BY <1>7

\* The longest prefix after which nothing is pending exists.
LEMMA LastBalancedExists ==
    ASSUME NEW S, NEW msgs \in Seq(S)
    PROVE  LastBalanced(msgs) \in 0..Len(msgs) /\ Pending(msgs, LastBalanced(msgs)) = {}
<1> DEFINE T == {i \in 0..Len(msgs) : Pending(msgs, i) = {}}
<1>1. Pending(msgs, 0) = {}
  BY DEF Pending
<1>2. T \in SUBSET (0..Len(msgs)) /\ 0 \in T /\ Len(msgs) \in Nat
  BY <1>1
<1>3. PICK i \in T : \A j \in T : j <= i
  BY <1>2, Greatest
<1>4. /\ i \in 0..Len(msgs) /\ Pending(msgs, i) = {}
      /\ \A j \in (i + 1)..Len(msgs) : Pending(msgs, j) # {}
  BY <1>2, <1>3
<1>5. QED
  BY <1>4 DEF LastBalanced

\* What is kept of a thread: a prefix with nothing pending.
LEMMA TrimKeepsPrefix ==
    ASSUME NEW S, NEW msgs \in Seq(S)
    PROVE  LET t == TrimOrphanToolUse(msgs) IN
           /\ t \in Seq(S) /\ Len(t) <= Len(msgs)
           /\ \A i \in DOMAIN t : i \in DOMAIN msgs /\ t[i] = msgs[i]
           /\ Pending(msgs, Len(t)) = {}
<1>1. CASE Orphans(msgs) = {}
  BY <1>1 DEF TrimOrphanToolUse, Orphans
<1>2. CASE Orphans(msgs) # {}
  <2> DEFINE n == LastBalanced(msgs)
             t == SubSeq(msgs, 1, n)
  <2>1. n \in 0..Len(msgs) /\ Pending(msgs, n) = {}
    BY LastBalancedExists
  <2> HIDE DEF n
  <2>2. t \in Seq(S) /\ Len(t) = n /\ \A i \in 1..n : t[i] = msgs[i]
    BY <2>1, SubSeqProperties
  <2>3. TrimOrphanToolUse(msgs) = t
    BY <1>2 DEF TrimOrphanToolUse, n
  <2> HIDE DEF t
  <2>4. QED
    BY <2>1, <2>2, <2>3
<1>3. QED
  BY <1>1, <1>2

\* Where nothing is pending, every reply has its results right after it.
LEMMA NothingPending ==
    ASSUME NEW msgs \in Seq(Lines), Follows(msgs, 0), Distinct(msgs, 0),
           NEW n \in 0..Len(msgs), Pending(msgs, n) = {},
           NEW j \in 1..n, msgs[j].uses # {}
    PROVE  j < n /\ msgs[j + 1].results = msgs[j].uses
<1>1. PICK u : u \in msgs[j].uses
  OBVIOUS
<1>2. PICK k \in j..n : u \in msgs[k].results
  BY <1>1 DEF Pending
<1>3. k \in DOMAIN msgs /\ k > 1 /\ msgs[k - 1].uses = msgs[k].results
  BY <1>2 DEF Follows
<1>4. k - 1 \in DOMAIN msgs /\ j \in DOMAIN msgs
  BY <1>3
<1>5. k - 1 = j
  BY <1>1, <1>2, <1>3, <1>4 DEF Distinct
<1>6. QED
  BY <1>2, <1>3, <1>5

\* What is read from a thread is a history the model's API accepts.
LEMMA TrimPaired ==
    ASSUME NEW msgs \in Seq(Lines), Follows(msgs, 0), Distinct(msgs, 0)
    PROVE  Paired(TrimOrphanToolUse(msgs))
<1> DEFINE t == TrimOrphanToolUse(msgs)
<1>1. /\ t \in Seq(Lines) /\ Len(t) <= Len(msgs)
      /\ \A i \in DOMAIN t : i \in DOMAIN msgs /\ t[i] = msgs[i]
      /\ Pending(msgs, Len(t)) = {}
  BY TrimKeepsPrefix
<1> HIDE DEF t
<1>2. ASSUME NEW i \in 1..Len(t), t[i].uses # {}
      PROVE  i < Len(t) /\ t[i + 1].results = t[i].uses
  <2>1. i < Len(t) /\ msgs[i + 1].results = msgs[i].uses
    <3>1. Len(t) \in 0..Len(msgs) /\ msgs[i].uses # {}
      BY <1>1, <1>2
    <3>2. QED
      BY <1>1, <3>1, NothingPending
  <2>2. QED
    BY <1>1, <2>1
<1>3. ASSUME NEW i \in 1..Len(t), t[i].results # {}
      PROVE  i > 1 /\ t[i - 1].uses = t[i].results
  BY <1>1, <1>3 DEF Follows
<1>4. QED
  BY <1>2, <1>3 DEF Paired, PairedBut, t

LEMMA CompleteHasNoOrphans ==
    ASSUME NEW msgs \in Seq(Lines), Complete(msgs, 0)
    PROVE  Orphans(msgs) = {}
<1> SUFFICES ASSUME NEW j \in 1..Len(msgs), NEW u \in msgs[j].uses
             PROVE  \E k \in j..Len(msgs) : u \in msgs[k].results
  BY DEF Orphans, Pending
<1>1. j < Len(msgs) /\ msgs[j + 1].results = msgs[j].uses
  BY DEF Complete
<1>2. QED
  BY <1>1

-----------------------------------------------------------------------------
(* Parts of histories, and histories put together.                          *)

LEMMA ConcatHistories ==
    ASSUME NEW p \in Seq(Lines), NEW q \in Seq(Lines), NEW r, r = p \o q
    PROVE  /\ r \in Seq(Lines) /\ Len(r) = Len(p) + Len(q)
           /\ \A i \in DOMAIN p : i \in DOMAIN r /\ r[i] = p[i]
           /\ \A i \in DOMAIN q : Len(p) + i \in DOMAIN r /\ r[Len(p) + i] = q[i]
           /\ \A i \in DOMAIN r : i \in DOMAIN p \/ (i > Len(p) /\ i - Len(p) \in DOMAIN q)
OBVIOUS

LEMMA ConcatKeeps ==
    ASSUME NEW p \in Seq(Lines), NEW q \in Seq(Lines), Follows(p, 0), Follows(q, 0),
           Distinct(p, 0), Distinct(q, 0),
           \A i \in DOMAIN p, j \in DOMAIN q : p[i].uses \cap q[j].uses = {}
    PROVE  Follows(p \o q, 0) /\ Distinct(p \o q, 0)
<1> DEFINE r == p \o q
<1>1. /\ r \in Seq(Lines) /\ Len(r) = Len(p) + Len(q)
      /\ \A i \in DOMAIN p : i \in DOMAIN r /\ r[i] = p[i]
      /\ \A i \in DOMAIN q : Len(p) + i \in DOMAIN r /\ r[Len(p) + i] = q[i]
      /\ \A i \in DOMAIN r : i \in DOMAIN p \/ (i > Len(p) /\ i - Len(p) \in DOMAIN q)
  BY ConcatHistories
<1> HIDE DEF r
<1>2. \A i \in DOMAIN r : i \in Nat
  BY <1>1
<1>3. \A i \in DOMAIN q : i \in Nat
  OBVIOUS
<1>4. \A i \in DOMAIN r : i \in DOMAIN p \/ \E k \in DOMAIN q : i = Len(p) + k
  BY <1>1, <1>2
<1>5. Follows(r, 0)
  <2> SUFFICES ASSUME NEW i \in DOMAIN r, r[i].results # {}
               PROVE  i > 1 /\ r[i - 1].uses = r[i].results
    BY DEF Follows
  <2>1. CASE i \in DOMAIN p
    <3>1. p[i].results # {} /\ i > 0
      BY <1>1, <2>1
    <3>2. i > 1 /\ p[i - 1].uses = p[i].results
      BY <2>1, <3>1 DEF Follows
    <3>3. i - 1 \in DOMAIN p
      BY <2>1, <3>2
    <3>4. QED
      BY <1>1, <2>1, <3>2, <3>3
  <2>2. ASSUME NEW k \in DOMAIN q, i = Len(p) + k
        PROVE  i > 1 /\ r[i - 1].uses = r[i].results
    <3>1. q[k].results # {} /\ k > 0
      BY <1>1, <2>2
    <3>2. k > 1 /\ q[k - 1].uses = q[k].results
      BY <3>1 DEF Follows
    <3>3. k - 1 \in DOMAIN q
      BY <3>2
    <3>4. r[Len(p) + (k - 1)] = q[k - 1] /\ Len(p) + (k - 1) = i - 1
      BY <1>1, <2>2, <3>3
    <3>5. QED
      BY <1>1, <2>2, <3>2, <3>4
  <2>3. QED
    BY <1>4, <2>1, <2>2
<1>6. Distinct(r, 0)
  <2> SUFFICES ASSUME NEW i \in DOMAIN r, NEW j \in DOMAIN r, i # j
               PROVE  r[i].uses \cap r[j].uses = {}
    BY DEF Distinct
  <2>1. CASE i \in DOMAIN p /\ j \in DOMAIN p
    BY <1>1, <2>1 DEF Distinct
  <2>2. CASE i \in DOMAIN p /\ j \notin DOMAIN p
    BY <1>1, <1>4, <2>2
  <2>3. CASE i \notin DOMAIN p /\ j \in DOMAIN p
    <3>1. PICK k \in DOMAIN q : i = Len(p) + k
      BY <1>4, <2>3
    <3>2. QED
      BY <1>1, <2>3, <3>1
  <2>4. CASE i \notin DOMAIN p /\ j \notin DOMAIN p
    <3>1. PICK k \in DOMAIN q, l \in DOMAIN q : i = Len(p) + k /\ j = Len(p) + l
      BY <1>4, <2>4
    <3>2. k # l /\ k > 0 /\ l > 0 /\ r[i] = q[k] /\ r[j] = q[l]
      BY <1>1, <3>1
    <3>3. QED
      BY <3>2 DEF Distinct
  <2>5. QED
    BY <2>1, <2>2, <2>3, <2>4
<1>7. QED
  BY <1>5, <1>6 DEF r

LEMMA ConcatComplete ==
    ASSUME NEW p \in Seq(Lines), NEW q \in Seq(Lines), Complete(p, 0), Complete(q, 0)
    PROVE  Complete(p \o q, 0)
<1> DEFINE r == p \o q
<1>1. /\ r \in Seq(Lines) /\ Len(r) = Len(p) + Len(q)
      /\ \A i \in DOMAIN p : i \in DOMAIN r /\ r[i] = p[i]
      /\ \A i \in DOMAIN q : Len(p) + i \in DOMAIN r /\ r[Len(p) + i] = q[i]
      /\ \A i \in DOMAIN r : i \in DOMAIN p \/ (i > Len(p) /\ i - Len(p) \in DOMAIN q)
  BY ConcatHistories
<1> HIDE DEF r
<1> SUFFICES ASSUME NEW i \in DOMAIN r, r[i].uses # {}
             PROVE  i < Len(r) /\ r[i + 1].results = r[i].uses
  BY DEF Complete, r
<1>2. CASE i \in DOMAIN p
  <2>1. i < Len(p) /\ p[i + 1].results = p[i].uses /\ i + 1 \in DOMAIN p
    BY <1>1, <1>2 DEF Complete
  <2>2. QED
    BY <1>1, <1>2, <2>1
<1>3. CASE i \notin DOMAIN p
  <2> DEFINE k == i - Len(p)
  <2>1. k \in DOMAIN q /\ i = Len(p) + k /\ k > 0
    BY <1>1, <1>3
  <2> HIDE DEF k
  <2>2. k < Len(q) /\ q[k + 1].results = q[k].uses /\ k + 1 \in DOMAIN q
    BY <1>1, <2>1 DEF Complete
  <2>3. r[Len(p) + (k + 1)] = q[k + 1] /\ Len(p) + (k + 1) = i + 1
    BY <1>1, <2>1, <2>2
  <2>4. QED
    BY <1>1, <2>1, <2>2, <2>3
<1>4. QED
  BY <1>2, <1>3

LEMMA PrefixKeeps ==
    ASSUME NEW q \in Seq(Lines), NEW k \in 0..Len(q), NEW t, t = SubSeq(q, 1, k)
    PROVE  /\ t \in Seq(Lines) /\ Len(t) = k
           /\ \A i \in DOMAIN t : i \in DOMAIN q /\ t[i] = q[i]
           /\ Follows(q, 0) => Follows(t, 0)
           /\ Distinct(q, 0) => Distinct(t, 0)
<1>1. t \in Seq(Lines) /\ Len(t) = k /\ \A i \in 1..k : t[i] = q[i]
  BY SubSeqProperties
<1>2. \A i \in DOMAIN t : i \in DOMAIN q /\ t[i] = q[i]
  BY <1>1
<1>3. Follows(q, 0) => Follows(t, 0)
  BY <1>1, <1>2 DEF Follows
<1>4. Distinct(q, 0) => Distinct(t, 0)
  BY <1>1, <1>2 DEF Distinct
<1>5. QED
  BY <1>1, <1>2, <1>3, <1>4

After(q, n) == SubSeq(q, n + 1, Len(q))

LEMMA SuffixKeeps ==
    ASSUME NEW q \in Seq(Lines), NEW n \in Nat, n <= Len(q), NEW t, t = After(q, n)
    PROVE  /\ t \in Seq(Lines) /\ Len(t) = Len(q) - n
           /\ \A i \in DOMAIN t : n + i \in DOMAIN q /\ t[i] = q[n + i] /\ i \in Nat /\ i > 0
           /\ \A j \in DOMAIN q : j > n => j - n \in DOMAIN t /\ t[j - n] = q[j]
           /\ Follows(q, n) => Follows(t, 0)
           /\ Distinct(q, n) => Distinct(t, 0)
           /\ Complete(q, n) => Complete(t, 0)
<1>1. t \in Seq(Lines) /\ Len(t) = Len(q) - n /\ \A i \in 1..(Len(q) - n) : t[i] = q[n + i]
  <2>1. n + 1 \in 1..(Len(q) + 1) /\ Len(q) \in n..Len(q)
    OBVIOUS
  <2>2. QED
    BY <2>1, SubSeqProperties DEF After
<1>2. \A i \in DOMAIN t : n + i \in DOMAIN q /\ t[i] = q[n + i] /\ i \in Nat /\ i > 0
  BY <1>1
<1>3. \A j \in DOMAIN q : j > n => j - n \in DOMAIN t /\ t[j - n] = q[j]
  <2>1. ASSUME NEW j \in DOMAIN q, j > n
        PROVE  j - n \in DOMAIN t /\ t[j - n] = q[j]
    <3>1. j - n \in 1..(Len(q) - n) /\ n + (j - n) = j
      BY <2>1
    <3>2. QED
      BY <1>1, <3>1
  <2>2. QED
    BY <2>1
<1>4. ASSUME Follows(q, n)
      PROVE  Follows(t, 0)
  <2> SUFFICES ASSUME NEW i \in DOMAIN t, t[i].results # {}
               PROVE  i > 1 /\ t[i - 1].uses = t[i].results
    BY DEF Follows
  <2>1. n + i \in DOMAIN q /\ t[i] = q[n + i] /\ i \in Nat /\ n + i > n
    BY <1>2
  <2>2. n + i > n + 1 /\ q[n + i - 1].uses = q[n + i].results
    BY <1>4, <2>1 DEF Follows
  <2>3. i - 1 \in DOMAIN t /\ n + i - 1 = n + (i - 1) /\ i > 1
    BY <1>1, <2>1, <2>2
  <2>4. QED
    BY <1>2, <2>1, <2>2, <2>3
<1>5. ASSUME Distinct(q, n)
      PROVE  Distinct(t, 0)
  <2> SUFFICES ASSUME NEW i \in DOMAIN t, NEW j \in DOMAIN t, i # j
               PROVE  t[i].uses \cap t[j].uses = {}
    BY DEF Distinct
  <2>1. /\ n + i \in DOMAIN q /\ t[i] = q[n + i] /\ n + i > n
        /\ n + j \in DOMAIN q /\ t[j] = q[n + j] /\ n + j > n /\ n + i # n + j
    BY <1>2
  <2>2. QED
    BY <1>5, <2>1 DEF Distinct
<1>6. ASSUME Complete(q, n)
      PROVE  Complete(t, 0)
  <2> SUFFICES ASSUME NEW i \in DOMAIN t, t[i].uses # {}
               PROVE  i < Len(t) /\ t[i + 1].results = t[i].uses
    BY DEF Complete
  <2>1. n + i \in DOMAIN q /\ t[i] = q[n + i] /\ i \in Nat /\ n + i > n
    BY <1>2
  <2>2. n + i < Len(q) /\ q[n + i + 1].results = q[n + i].uses
    BY <1>6, <2>1 DEF Complete
  <2>3. i + 1 \in DOMAIN t /\ n + i + 1 = n + (i + 1) /\ i < Len(t)
    <3>1. n + i \in Nat /\ Len(q) \in Nat
      BY <2>1
    <3>2. i + 1 \in 1..(Len(q) - n) /\ i < Len(q) - n
      BY <2>1, <2>2, <3>1
    <3>3. i < Len(t) /\ i + 1 \in 1..Len(t)
      BY <1>1, <3>2
    <3>4. DOMAIN t = 1..Len(t)
      BY <1>1
    <3>5. n + i + 1 = n + (i + 1)
      BY <2>1
    <3>6. QED
      BY <3>3, <3>4, <3>5
  <2>4. QED
    BY <1>2, <2>1, <2>2, <2>3
<1>7. QED
  BY <1>1, <1>2, <1>3, <1>4, <1>5, <1>6

LEMMA AppendHistory ==
    ASSUME NEW q \in Seq(Lines), NEW m \in Lines, NEW t, t = Append(q, m)
    PROVE  /\ t \in Seq(Lines) /\ Len(t) = Len(q) + 1 /\ t[Len(q) + 1] = m
           /\ \A i \in DOMAIN q : i \in DOMAIN t /\ t[i] = q[i] /\ i <= Len(q) /\ i \in Nat
           /\ \A i \in DOMAIN t : i \in Nat /\ (i \in DOMAIN q \/ i = Len(q) + 1)
OBVIOUS

\* A reply of the next step.
LEMMA AppendReply ==
    ASSUME NEW q \in Seq(Lines), NEW n \in Nat, n <= Len(q), NEW s, NEW k \in Nat,
           Follows(q, n), Distinct(q, n), Owned(q, n, s, k),
           NEW m \in Lines, m.results = {}, \A u \in m.uses : u[1] = s /\ u[2] = k + 1,
           \A i \in DOMAIN q : \A u \in q[i].uses : u[2] \in Nat
    PROVE  LET t == Append(q, m) IN
           /\ Follows(t, n) /\ Distinct(t, n) /\ Owned(t, n, s, k + 1)
           /\ m.uses = {} /\ Complete(q, n) => Complete(t, n)
<1> DEFINE t == Append(q, m)
<1>1. /\ t \in Seq(Lines) /\ Len(t) = Len(q) + 1 /\ t[Len(q) + 1] = m
      /\ \A i \in DOMAIN q : i \in DOMAIN t /\ t[i] = q[i] /\ i <= Len(q) /\ i \in Nat
      /\ \A i \in DOMAIN t : i \in Nat /\ (i \in DOMAIN q \/ i = Len(q) + 1)
  BY AppendHistory
<1> HIDE DEF t
<1>2. Follows(t, n)
  <2> SUFFICES ASSUME NEW i \in DOMAIN t, i > n, t[i].results # {}
               PROVE  i > n + 1 /\ t[i - 1].uses = t[i].results
    BY DEF Follows
  <2>1. i \in DOMAIN q
    BY <1>1
  <2>2. i > n + 1 /\ q[i - 1].uses = q[i].results
    BY <1>1, <2>1 DEF Follows
  <2>3. i - 1 \in DOMAIN q
    BY <2>1, <2>2
  <2>4. QED
    BY <1>1, <2>1, <2>2, <2>3
<1>3. Distinct(t, n)
  <2>1. ASSUME NEW i \in DOMAIN q, i > n
        PROVE  q[i].uses \cap m.uses = {}
    <3>1. ASSUME NEW u \in q[i].uses, u \in m.uses
          PROVE  FALSE
      <4>1. u[2] <= k /\ u[2] = k + 1 /\ u[2] \in Nat
        BY <2>1, <3>1 DEF Owned
      <4>2. QED
        BY <4>1
    <3>2. QED
      BY <3>1
  <2>2. QED
    BY <1>1, <2>1 DEF Distinct
<1>4. Owned(t, n, s, k + 1)
  <2> SUFFICES ASSUME NEW i \in DOMAIN t, i > n, NEW u \in t[i].uses
               PROVE  u[1] = s /\ u[2] <= k + 1
    BY DEF Owned
  <2>1. CASE i \in DOMAIN q
    <3>1. u \in q[i].uses /\ u[2] \in Nat
      BY <1>1, <2>1
    <3>2. u[1] = s /\ u[2] <= k
      BY <2>1, <3>1 DEF Owned
    <3>3. QED
      BY <3>1, <3>2
  <2>2. CASE i = Len(q) + 1
    <3>1. u[1] = s /\ u[2] = k + 1
      BY <1>1, <2>2
    <3>2. QED
      BY <3>1
  <2>3. QED
    BY <1>1, <2>1, <2>2
<1>5. ASSUME m.uses = {}, Complete(q, n)
      PROVE  Complete(t, n)
  <2> SUFFICES ASSUME NEW i \in DOMAIN t, i > n, t[i].uses # {}
               PROVE  i < Len(t) /\ t[i + 1].results = t[i].uses
    BY DEF Complete
  <2>1. i \in DOMAIN q
    BY <1>1, <1>5
  <2>2. i < Len(q) /\ q[i + 1].results = q[i].uses
    BY <1>1, <1>5, <2>1 DEF Complete
  <2>3. i + 1 \in DOMAIN q
    BY <2>1, <2>2
  <2>4. QED
    BY <1>1, <2>1, <2>2, <2>3
<1>6. QED
  BY <1>2, <1>3, <1>4, <1>5 DEF t

\* Its results, right after it.
LEMMA AppendResults ==
    ASSUME NEW q \in Seq(Lines), NEW n \in Nat, n <= Len(q), NEW s, NEW k \in Nat,
           NEW m \in Lines, NEW t, t = Append(q, m),
           Follows(t, n), Distinct(t, n), Owned(t, n, s, k),
           NEW res \in Lines, res.results = m.uses, res.uses = {}
    PROVE  LET z == Append(t, res) IN
           Follows(z, n) /\ Distinct(z, n) /\ Owned(z, n, s, k)
<1> DEFINE z == Append(t, res)
<1>1. /\ t \in Seq(Lines) /\ Len(t) = Len(q) + 1 /\ t[Len(q) + 1] = m
      /\ \A i \in DOMAIN q : i \in DOMAIN t /\ t[i] = q[i] /\ i <= Len(q) /\ i \in Nat
      /\ \A i \in DOMAIN t : i \in Nat /\ (i \in DOMAIN q \/ i = Len(q) + 1)
  BY AppendHistory
<1>2. /\ z \in Seq(Lines) /\ Len(z) = Len(t) + 1 /\ z[Len(t) + 1] = res
      /\ \A i \in DOMAIN t : i \in DOMAIN z /\ z[i] = t[i] /\ i <= Len(t) /\ i \in Nat
      /\ \A i \in DOMAIN z : i \in Nat /\ (i \in DOMAIN t \/ i = Len(t) + 1)
  BY <1>1, AppendHistory
<1> HIDE DEF z
<1>3. Follows(z, n)
  <2> SUFFICES ASSUME NEW i \in DOMAIN z, i > n, z[i].results # {}
               PROVE  i > n + 1 /\ z[i - 1].uses = z[i].results
    BY DEF Follows
  <2>1. CASE i \in DOMAIN t
    <3>1. i > n + 1 /\ t[i - 1].uses = t[i].results
      BY <1>2, <2>1 DEF Follows
    <3>2. i - 1 \in DOMAIN t
      BY <1>1, <2>1, <3>1
    <3>3. QED
      BY <1>2, <2>1, <3>1, <3>2
  <2>2. CASE i = Len(t) + 1
    <3>1. i - 1 = Len(q) + 1 /\ Len(q) + 1 \in DOMAIN t
      BY <1>1, <2>2
    <3>2. QED
      BY <1>1, <1>2, <2>2, <3>1
  <2>3. QED
    BY <1>2, <2>1, <2>2
<1>4. Distinct(z, n)
  BY <1>2 DEF Distinct
<1>5. Owned(z, n, s, k)
  BY <1>2 DEF Owned
<1>6. QED
  BY <1>3, <1>4, <1>5 DEF z

\* They complete it.
LEMMA AppendCompletes ==
    ASSUME NEW q \in Seq(Lines), NEW n \in Nat, Complete(q, n),
           NEW m \in Lines, NEW t, t = Append(q, m),
           NEW res \in Lines, res.results = m.uses, res.uses = {}
    PROVE  Complete(Append(t, res), n)
<1> DEFINE z == Append(t, res)
<1>1. /\ t \in Seq(Lines) /\ Len(t) = Len(q) + 1 /\ t[Len(q) + 1] = m
      /\ \A i \in DOMAIN q : i \in DOMAIN t /\ t[i] = q[i] /\ i <= Len(q) /\ i \in Nat
      /\ \A i \in DOMAIN t : i \in Nat /\ (i \in DOMAIN q \/ i = Len(q) + 1)
  BY AppendHistory
<1>2. /\ z \in Seq(Lines) /\ Len(z) = Len(t) + 1 /\ z[Len(t) + 1] = res
      /\ \A i \in DOMAIN t : i \in DOMAIN z /\ z[i] = t[i] /\ i <= Len(t) /\ i \in Nat
      /\ \A i \in DOMAIN z : i \in Nat /\ (i \in DOMAIN t \/ i = Len(t) + 1)
  BY <1>1, AppendHistory
<1> HIDE DEF z
<1>3. Complete(z, n)
  <2> SUFFICES ASSUME NEW i \in DOMAIN z, i > n, z[i].uses # {}
               PROVE  i < Len(z) /\ z[i + 1].results = z[i].uses
    BY DEF Complete
  <2>1. i \in DOMAIN t
    BY <1>2
  <2>2. CASE i \in DOMAIN q
    <3>1. i < Len(q) /\ q[i + 1].results = q[i].uses
      BY <1>1, <1>2, <2>1, <2>2 DEF Complete
    <3>2. i + 1 \in DOMAIN q
      BY <2>2, <3>1
    <3>3. QED
      BY <1>1, <1>2, <2>1, <2>2, <3>1, <3>2
  <2>3. CASE i = Len(q) + 1
    BY <1>1, <1>2, <2>1, <2>3
  <2>4. QED
    BY <1>1, <2>1, <2>2, <2>3
<1>4. QED
  BY <1>3 DEF z

-----------------------------------------------------------------------------
(* One iteration of a run.                                                  *)

LEMMA NewLines ==
    ASSUME NEW s \in Sends, NEW k \in 1..MaxSteps, NEW n \in 0..MaxUses,
           NEW ids, ids = UseIds(s, k, n)
    PROVE  /\ ids \in SUBSET Ids /\ \A u \in ids : u[1] = s /\ u[2] = k
           /\ Reply(ids, s) \in Lines /\ Reply(ids, s).uses = ids /\ Reply(ids, s).results = {}
           /\ Results(ids, s) \in Lines /\ Results(ids, s).results = ids
           /\ Results(ids, s).uses = {}
<1>1. ids \in SUBSET Ids /\ \A u \in ids : u[1] = s /\ u[2] = k
  <2>1. \A u \in ids : \E i \in 1..n : u = <<s, k, i>>
    BY DEF UseIds
  <2>2. \A i \in 1..n : i \in 1..MaxUses
    OBVIOUS
  <2>3. QED
    BY <2>1, <2>2 DEF Ids
<1> QED
  BY <1>1 DEF Reply, Results, Message, Lines

\* An iteration fails before its reply, or it keeps a reply of the next step, with the
\* results of its tool calls unless it ended the turn or its stop reason is not handled;
\* only then may it compact.
LEMMA RunIteration ==
    ASSUME NEW s \in Sends, NEW x \in Runs, GoesOn(x), x.reason = "none",
           NEW y \in Iterations(x, s, MaxSteps, MaxUses, Compaction)
    PROVE  /\ y \in Runs /\ y.step = x.step + 1
           /\ \/ /\ y.status = "failed" /\ y.msgs = x.msgs /\ y.final = x.final
                 /\ y.replied = x.replied /\ y.compacted = x.compacted /\ y.unhandled = x.unhandled
              \/ \E ids \in SUBSET Ids :
                    /\ \A u \in ids : u[1] = s /\ u[2] = x.step + 1
                    /\ y.final = ids /\ y.replied
                    /\ y.status = "running" => y.reason = "none"
                    /\ \/ y.compacted
                       \/ /\ y.compacted = x.compacted /\ x.unhandled \subseteq y.unhandled
                          /\ \/ y.msgs = Append(Append(x.msgs, Reply(ids, s)), Results(ids, s))
                             \/ /\ y.msgs = Append(x.msgs, Reply(ids, s))
                                /\ ids \subseteq y.unhandled \/ y.status = "success"
<1> DEFINE step == x.step + 1
           w == [x EXCEPT !.step = step]
<1>1. step \in 1..MaxSteps /\ x.status = "running" /\ x.step \in Nat
  BY DEF GoesOn, Runs
<1>2. step \in 0..MaxSteps
  BY <1>1
<1>3. /\ w \in Runs /\ w.step = step /\ w.msgs = x.msgs /\ w.final = x.final /\ w.status = "running"
      /\ w.replied = x.replied /\ w.compacted = x.compacted /\ w.unhandled = x.unhandled
      /\ w.reason = "none"
  BY <1>1, <1>2 DEF Runs
<1>4. [x EXCEPT !.step = @ + 1] = w
  BY DEF Runs
<1> HIDE DEF w, step
<1>5. \/ \E why \in {"cancelled", "llm_error"} : y = MarkFailed(w, why)
      \/ \E k \in ReplyKinds(MaxUses) :
            LET z == Judge(Answered(WithReply(w, s, k.uses), s, k.stop), k.stop, MaxSteps)
            IN  y = z \/ (k.stop = "tool_use" /\ z.status = "running" /\ y = Compacted(z))
  BY <1>4 DEF Iterations
<1>6. CASE \E why \in {"cancelled", "llm_error"} : y = MarkFailed(w, why)
  <2>1. PICK why \in {"cancelled", "llm_error"} : y = [w EXCEPT !.status = "failed", !.reason = why]
    BY <1>6 DEF MarkFailed
  <2>2. /\ y \in Runs /\ y.step = w.step /\ y.status = "failed" /\ y.msgs = w.msgs
        /\ y.final = w.final /\ y.replied = w.replied /\ y.compacted = w.compacted
        /\ y.unhandled = w.unhandled
    BY <1>3, <2>1 DEF Runs
  <2>3. y.step = x.step + 1
    BY <1>3, <2>2 DEF step
  <2>4. QED
    BY <1>3, <2>2, <2>3
<1>7. ASSUME NEW k \in ReplyKinds(MaxUses),
             LET z == Judge(Answered(WithReply(w, s, k.uses), s, k.stop), k.stop, MaxSteps)
             IN  y = z \/ (k.stop = "tool_use" /\ z.status = "running" /\ y = Compacted(z))
      PROVE  /\ y \in Runs /\ y.step = step
             /\ \E ids \in SUBSET Ids :
                    /\ \A u \in ids : u[1] = s /\ u[2] = step
                    /\ y.final = ids /\ y.replied
                    /\ y.status = "running" => y.reason = "none"
                    /\ \/ y.compacted
                       \/ /\ y.compacted = x.compacted /\ x.unhandled \subseteq y.unhandled
                          /\ \/ y.msgs = Append(Append(x.msgs, Reply(ids, s)), Results(ids, s))
                             \/ /\ y.msgs = Append(x.msgs, Reply(ids, s))
                                /\ ids \subseteq y.unhandled \/ y.status = "success"
  <2> DEFINE ids == UseIds(s, step, k.uses)
             m1 == Append(x.msgs, Reply(ids, s))
             m2 == Append(m1, Results(ids, s))
             v == [w EXCEPT !.msgs = m1, !.final = ids, !.replied = TRUE]
             a == Answered(v, s, k.stop)
             z == Judge(a, k.stop, MaxSteps)
  <2>1. /\ k.uses \in 0..MaxUses
        /\ k.stop \in {"tool_use", "max_tokens", "end_turn", "other"}
    BY DEF ReplyKinds
  <2>2. /\ ids \in SUBSET Ids /\ \A u \in ids : u[1] = s /\ u[2] = step
        /\ Reply(ids, s) \in Lines /\ Results(ids, s) \in Lines
    BY <1>1, <2>1, NewLines
  <2>3. k.uses = 0 => ids = {}
    BY DEF UseIds
  <2>4. m1 \in Seq(Lines) /\ m2 \in Seq(Lines)
    BY <2>2 DEF Runs
  <2>5. WithReply(w, s, k.uses) = v
    BY <1>3 DEF WithReply
  <2> HIDE DEF ids, m1
  <2> USE DEF m1
  <2>6. m2 = Append(m1, Results(ids, s)) /\ m1 = Append(x.msgs, Reply(ids, s))
    OBVIOUS
  <2> HIDE DEF m1, m2
  <2>7. /\ v \in Runs /\ v.msgs = m1 /\ v.final = ids /\ v.replied /\ v.step = step
        /\ v.compacted = x.compacted /\ v.unhandled = x.unhandled
        /\ v.status = "running" /\ v.reason = "none"
    BY <1>3, <2>2, <2>4 DEF Runs
  <2> HIDE DEF v
  <2>8. \/ k.stop \in {"tool_use", "max_tokens"} /\ ids # {} /\ a = [v EXCEPT !.msgs = m2]
        \/ k.stop = "other" /\ a = [v EXCEPT !.unhandled = @ \cup ids]
        \/ (k.stop = "end_turn" \/ ids = {}) /\ a = v
    BY <2>1, <2>6, <2>7 DEF Answered
  <2> HIDE DEF a
  <2>9. /\ a \in Runs /\ a.final = ids /\ a.replied /\ a.step = step
        /\ a.compacted = x.compacted /\ a.status = "running" /\ a.reason = "none"
        /\ x.unhandled \subseteq a.unhandled
        /\ a.msgs = m2 \/ (a.msgs = m1 /\ (ids \subseteq a.unhandled \/ k.stop = "end_turn"))
    <3>1. CASE k.stop \in {"tool_use", "max_tokens"} /\ ids # {} /\ a = [v EXCEPT !.msgs = m2]
      BY <2>4, <2>7, <3>1 DEF Runs
    <3>2. CASE k.stop = "other" /\ a = [v EXCEPT !.unhandled = @ \cup ids]
      BY <2>2, <2>7, <3>2 DEF Runs
    <3>3. CASE (k.stop = "end_turn" \/ ids = {}) /\ a = v
      BY <2>7, <3>3
    <3>4. QED
      BY <2>8, <3>1, <3>2, <3>3
  <2>10. /\ z \in Runs /\ z.final = ids /\ z.replied /\ z.step = step
         /\ z.compacted = x.compacted /\ z.msgs = a.msgs /\ z.unhandled = a.unhandled
         /\ z.status = "running" => z.reason = "none"
         /\ k.stop = "end_turn" => z.status = "success"
    <3>1. CASE k.stop = "end_turn"
      <4>1. z = [a EXCEPT !.status = "success"]
        BY <3>1 DEF Judge
      <4> HIDE DEF z
      <4>2. QED
        BY <2>9, <4>1 DEF Runs
    <3>2. CASE k.stop # "end_turn"
      <4>1. z = a \/ z = [a EXCEPT !.status = "failed", !.reason = "exceeded_max_steps"]
        BY <3>2, <2>9, <1>1 DEF Judge, MarkFailed
      <4> HIDE DEF z
      <4>2. QED
        BY <2>9, <3>2, <4>1 DEF Runs
    <3>3. QED
      BY <3>1, <3>2
  <2>11. y = z \/ (z.status = "running" /\ y = Compacted(z))
    BY <1>7, <2>5 DEF a
  <2> HIDE DEF z
  <2>12. CASE y = z
    <3>1. /\ z.msgs = m2 \/ (z.msgs = m1 /\ (ids \subseteq z.unhandled \/ z.status = "success"))
          /\ x.unhandled \subseteq z.unhandled
      BY <2>1, <2>3, <2>9, <2>10
    <3>2. QED
      BY <2>2, <2>6, <2>10, <2>12, <3>1
  <2>13. CASE z.status = "running" /\ y = Compacted(z)
    <3>1. Handoff \in Seq(Lines)
      BY DEF Handoff, Prompt, Reply, Message, Lines
    <3>2. y = [z EXCEPT !.msgs = Handoff, !.compacted = TRUE]
      BY <2>13 DEF Compacted
    <3>3. /\ y \in Runs /\ y.step = step /\ y.final = ids /\ y.replied /\ y.compacted
          /\ y.reason = "none"
      BY <2>10, <2>13, <3>1, <3>2 DEF Runs
    <3>4. QED
      BY <2>2, <3>3
  <2>14. QED
    BY <2>11, <2>12, <2>13
<1>8. QED
  BY <1>5, <1>6, <1>7 DEF step

\* What a run has added, after one more iteration.
AddedOK(y, n, s) ==
    /\ n <= Len(y.msgs)
    /\ Follows(y.msgs, n) /\ Distinct(y.msgs, n) /\ Owned(y.msgs, n, s, y.step)
    /\ Complete(y.msgs, n) \/ y.unhandled # {} \/ (y.status = "success" /\ y.final # {})
    /\ y.replied => \E i \in DOMAIN y.msgs : i > n /\ y.msgs[i] = Reply(y.final, s)

LEMMA AddsHistory ==
    ASSUME NEW s \in Sends, NEW n \in Nat, NEW x \in Runs, RunOK(x, n, s),
           NEW y \in Iterations(x, s, MaxSteps, MaxUses, Compaction)
    PROVE  /\ y \in Runs
           /\ \A u \in y.final : u[1] = s
           /\ y.status = "running" => y.reason = "none"
           /\ ~y.compacted => AddedOK(y, n, s)
<1>1. GoesOn(x) /\ x.reason = "none"
  BY DEF RunOK
<1>2. /\ y \in Runs /\ y.step = x.step + 1
      /\ \/ /\ y.status = "failed" /\ y.msgs = x.msgs /\ y.final = x.final
            /\ y.replied = x.replied /\ y.compacted = x.compacted /\ y.unhandled = x.unhandled
         \/ \E ids \in SUBSET Ids :
               /\ \A u \in ids : u[1] = s /\ u[2] = x.step + 1
               /\ y.final = ids /\ y.replied
               /\ y.status = "running" => y.reason = "none"
               /\ \/ y.compacted
                  \/ /\ y.compacted = x.compacted /\ x.unhandled \subseteq y.unhandled
                     /\ \/ y.msgs = Append(Append(x.msgs, Reply(ids, s)), Results(ids, s))
                        \/ /\ y.msgs = Append(x.msgs, Reply(ids, s))
                           /\ ids \subseteq y.unhandled \/ y.status = "success"
  BY <1>1, RunIteration
<1>3. x.msgs \in Seq(Lines) /\ x.step \in Nat /\ Len(x.msgs) \in Nat
  BY DEF Runs
<1>4. \A i \in DOMAIN x.msgs : \A u \in x.msgs[i].uses : u[2] \in Nat
  <2>1. ASSUME NEW i \in DOMAIN x.msgs, NEW u \in x.msgs[i].uses
        PROVE  u[2] \in Nat
    <3>1. x.msgs[i] \in Lines
      BY <1>3
    <3>2. u \in Ids
      BY <3>1 DEF Lines
    <3>3. QED
      BY <3>2 DEF Ids
  <2>2. QED
    BY <2>1
<1>5. CASE /\ y.status = "failed" /\ y.msgs = x.msgs /\ y.final = x.final
           /\ y.replied = x.replied /\ y.compacted = x.compacted /\ y.unhandled = x.unhandled
  <2>1. ASSUME ~y.compacted
        PROVE  AddedOK(y, n, s)
    <3>1. Owned(y.msgs, n, s, y.step)
      <4>1. Owned(x.msgs, n, s, x.step)
        BY <1>5, <2>1 DEF RunOK
      <4>2. ASSUME NEW i \in DOMAIN x.msgs, i > n, NEW u \in x.msgs[i].uses
            PROVE  u[1] = s /\ u[2] <= x.step + 1
        <5>1. u[2] \in Nat /\ u[1] = s /\ u[2] <= x.step
          BY <1>4, <4>1, <4>2 DEF Owned
        <5>2. QED
          BY <1>3, <5>1
      <4>3. QED
        BY <1>2, <1>5, <4>2 DEF Owned
    <3>2. QED
      BY <1>5, <2>1, <3>1 DEF AddedOK, RunOK
  <2>2. QED
    BY <1>2, <1>5, <2>1 DEF RunOK
<1>6. ASSUME NEW ids \in SUBSET Ids,
             /\ \A u \in ids : u[1] = s /\ u[2] = x.step + 1
             /\ y.final = ids /\ y.replied
             /\ y.status = "running" => y.reason = "none"
             /\ \/ y.compacted
                \/ /\ y.compacted = x.compacted /\ x.unhandled \subseteq y.unhandled
                   /\ \/ y.msgs = Append(Append(x.msgs, Reply(ids, s)), Results(ids, s))
                      \/ /\ y.msgs = Append(x.msgs, Reply(ids, s))
                         /\ ids \subseteq y.unhandled \/ y.status = "success"
      PROVE  /\ \A u \in y.final : u[1] = s
             /\ y.status = "running" => y.reason = "none"
             /\ ~y.compacted => AddedOK(y, n, s)
  <2> SUFFICES ASSUME ~y.compacted
               PROVE  AddedOK(y, n, s)
    BY <1>6
  <2> DEFINE q == x.msgs
             m == Reply(ids, s)
             res == Results(ids, s)
             t == Append(q, m)
             z == Append(t, res)
  <2>1. ~x.compacted
    BY <1>6
  <2>2. /\ n <= Len(q) /\ Follows(q, n) /\ Distinct(q, n) /\ Owned(q, n, s, x.step)
        /\ Complete(q, n) \/ x.unhandled # {}
    BY <2>1 DEF RunOK
  <2>3. /\ m \in Lines /\ m.results = {} /\ m.uses = ids
        /\ res \in Lines /\ res.uses = {} /\ res.results = m.uses
    BY DEF Reply, Results, Message, Lines
  <2> HIDE DEF m, res
  <2>4. \A u \in m.uses : u[1] = s /\ u[2] = x.step + 1
    BY <1>6, <2>3
  <2>5. /\ Follows(t, n) /\ Distinct(t, n) /\ Owned(t, n, s, x.step + 1)
        /\ ids = {} /\ Complete(q, n) => Complete(t, n)
    BY <1>3, <1>4, <2>2, <2>3, <2>4, AppendReply
  <2>6. /\ Follows(z, n) /\ Distinct(z, n) /\ Owned(z, n, s, x.step + 1)
        /\ Complete(q, n) => Complete(z, n)
    <3>1. t = Append(q, m) /\ x.step + 1 \in Nat
      BY <1>3
    <3>2. q \in Seq(Lines) /\ n \in Nat /\ n <= Len(q)
      BY <1>3, <2>2
    <3>3. Follows(t, n) /\ Distinct(t, n) /\ Owned(t, n, s, x.step + 1)
      BY <2>5
    <3> HIDE DEF t, z
    <3>4. z = Append(t, res)
      BY DEF z
    <3> HIDE DEF q
    <3>5. LET w == Append(t, res) IN
          Follows(w, n) /\ Distinct(w, n) /\ Owned(w, n, s, x.step + 1)
      BY <2>3, <3>1, <3>2, <3>3, AppendResults
    <3>6. ASSUME Complete(q, n) PROVE Complete(Append(t, res), n)
      BY <2>3, <3>1, <3>2, <3>6, AppendCompletes
    <3>7. QED
      BY <3>4, <3>5, <3>6
  <2>7. /\ t \in Seq(Lines) /\ Len(t) = Len(q) + 1 /\ t[Len(q) + 1] = m
        /\ z \in Seq(Lines) /\ Len(z) = Len(q) + 2 /\ z[Len(q) + 1] = m
        /\ Len(q) + 1 \in DOMAIN t /\ Len(q) + 1 \in DOMAIN z /\ Len(q) + 1 > n
    BY <1>3, <2>2, <2>3
  <2>8. /\ y.msgs = z \/ (y.msgs = t /\ (ids \subseteq y.unhandled \/ y.status = "success"))
        /\ x.unhandled \subseteq y.unhandled
    BY <1>6, <2>1 DEF m, res
  <2> HIDE DEF z, t
  <2>9. \E i \in DOMAIN y.msgs : i > n /\ y.msgs[i] = Reply(y.final, s)
    BY <1>6, <2>7, <2>8 DEF m
  <2>10. n <= Len(y.msgs)
    BY <1>3, <2>2, <2>7, <2>8
  <2>11. Complete(y.msgs, n) \/ y.unhandled # {} \/ (y.status = "success" /\ y.final # {})
    <3>1. Complete(q, n) \/ y.unhandled # {}
      BY <2>2, <2>8
    <3>2. CASE y.msgs = z
      BY <2>6, <3>1, <3>2
    <3>3. CASE y.msgs = t /\ (ids \subseteq y.unhandled \/ y.status = "success")
      BY <1>6, <2>5, <3>1, <3>3
    <3>4. QED
      BY <2>8, <3>2, <3>3
  <2>12. Follows(y.msgs, n) /\ Distinct(y.msgs, n) /\ Owned(y.msgs, n, s, y.step)
    BY <1>2, <2>5, <2>6, <2>8
  <2>13. QED
    BY <2>9, <2>10, <2>11, <2>12 DEF AddedOK
<1>7. QED
  BY <1>2, <1>5, <1>6

LEMMA IterationKeeps ==
    ASSUME NEW s \in Sends, NEW n \in Nat, NEW x \in Runs, RunOK(x, n, s),
           NEW y \in Iterations(x, s, MaxSteps, MaxUses, Compaction)
    PROVE  /\ y \in Runs
           /\ GoesOn(y) => RunOK(y, n, s)
           /\ NewMessages(y, n, s) \in Seq(Lines)
           /\ Ending(y, s) \in Endings
           /\ NewOK(NewMessages(y, n, s), {Ending(y, s)}, s)
<1>1. /\ y \in Runs
      /\ \A u \in y.final : u[1] = s
      /\ y.status = "running" => y.reason = "none"
      /\ ~y.compacted => AddedOK(y, n, s)
  BY AddsHistory
<1>2. GoesOn(y) => RunOK(y, n, s)
  BY <1>1 DEF GoesOn, RunOK, AddedOK
<1> DEFINE r == Reply(y.final, s)
           e == Ending(y, s)
           new == NewMessages(y, n, s)
<1>3. r \in Lines /\ r.results = {} /\ r.uses = y.final
  BY <1>1 DEF Reply, Message, Lines, Runs
<1>4. /\ e \in Endings /\ e.last = (IF y.replied THEN {r} ELSE {})
      /\ y.compacted \/ y.unhandled # {} => e.loose
      /\ y.status = "success" /\ y.final # {} => e.loose
  BY <1>1, <1>3 DEF Ending, Endings, Runs
<1> HIDE DEF e
<1>5. CASE y.compacted
  <2>1. new = IF y.replied THEN <<r>> ELSE <<>>
    BY <1>5 DEF NewMessages
  <2> HIDE DEF new, r
  <2>2. CASE y.replied
    <3>1. new \in Seq(Lines) /\ Len(new) = 1 /\ new[1] = r /\ DOMAIN new = {1}
      BY <1>3, <2>1, <2>2
    <3>2. e.last = {r} /\ r \in ToSet(new)
      BY <1>4, <2>2, <3>1 DEF ToSet
    <3>3. QED
      BY <1>1, <1>2, <1>3, <1>4, <1>5, <3>1, <3>2 DEF NewOK, Follows, Distinct, From, Loose, e, new
  <2>3. CASE ~y.replied
    <3>1. new \in Seq(Lines) /\ DOMAIN new = {}
      BY <2>1, <2>3
    <3>2. e.last = {}
      BY <1>4, <2>3
    <3>3. QED
      BY <1>1, <1>2, <1>4, <1>5, <3>1, <3>2 DEF NewOK, Follows, Distinct, From, Loose, e, new
  <2>4. QED
    BY <2>2, <2>3
<1>6. CASE ~y.compacted
  <2> DEFINE fresh == SubSeq(y.msgs, n + 1, Len(y.msgs))
  <2>1. y.msgs \in Seq(Lines)
    BY <1>1 DEF Runs
  <2>2. /\ n <= Len(y.msgs)
        /\ Follows(y.msgs, n) /\ Distinct(y.msgs, n) /\ Owned(y.msgs, n, s, y.step)
        /\ Complete(y.msgs, n) \/ y.unhandled # {} \/ (y.status = "success" /\ y.final # {})
        /\ y.replied => \E i \in DOMAIN y.msgs : i > n /\ y.msgs[i] = r
    BY <1>1, <1>6 DEF AddedOK
  <2>3. /\ fresh \in Seq(Lines) /\ Len(fresh) = Len(y.msgs) - n
        /\ \A i \in DOMAIN fresh : n + i \in DOMAIN y.msgs /\ fresh[i] = y.msgs[n + i] /\ i \in Nat /\ i > 0
        /\ \A j \in DOMAIN y.msgs : j > n => j - n \in DOMAIN fresh /\ fresh[j - n] = y.msgs[j]
        /\ Follows(fresh, 0) /\ Distinct(fresh, 0)
        /\ Complete(y.msgs, n) => Complete(fresh, 0)
    <3> DEFINE q == y.msgs
    <3>1. fresh = After(q, n) /\ q \in Seq(Lines) /\ n <= Len(q)
      BY <2>1, <2>2 DEF After
    <3> HIDE DEF fresh, q
    <3>2. /\ fresh \in Seq(Lines) /\ Len(fresh) = Len(q) - n
          /\ \A i \in DOMAIN fresh : n + i \in DOMAIN q /\ fresh[i] = q[n + i] /\ i \in Nat /\ i > 0
          /\ \A j \in DOMAIN q : j > n => j - n \in DOMAIN fresh /\ fresh[j - n] = q[j]
          /\ Follows(q, n) => Follows(fresh, 0)
          /\ Distinct(q, n) => Distinct(fresh, 0)
          /\ Complete(q, n) => Complete(fresh, 0)
      <4>1. /\ fresh \in Seq(Lines) /\ Len(fresh) = Len(q) - n
            /\ Follows(q, n) => Follows(fresh, 0)
            /\ Distinct(q, n) => Distinct(fresh, 0)
            /\ Complete(q, n) => Complete(fresh, 0)
        BY <3>1, SuffixKeeps
      <4>2. \A i \in DOMAIN fresh : n + i \in DOMAIN q /\ fresh[i] = q[n + i] /\ i \in Nat /\ i > 0
        BY <3>1, SuffixKeeps
      <4>3. \A j \in DOMAIN q : j > n => j - n \in DOMAIN fresh /\ fresh[j - n] = q[j]
        BY <3>1, SuffixKeeps
      <4>4. QED
        BY <4>1, <4>2, <4>3
    <3>3. QED
      BY <2>2, <3>2 DEF q
  <2>4. y.replied => r \in ToSet(fresh)
    <3> SUFFICES ASSUME y.replied
                 PROVE  r \in ToSet(fresh)
      OBVIOUS
    <3>1. PICK i \in DOMAIN y.msgs : i > n /\ y.msgs[i] = r
      BY <2>2
    <3>2. i - n \in DOMAIN fresh /\ fresh[i - n] = r
      BY <2>3, <3>1
    <3> HIDE DEF fresh
    <3>3. QED
      BY <3>2 DEF ToSet
  <2>5. new = IF fresh = <<>> /\ y.replied THEN <<r>> ELSE fresh
    BY <1>6 DEF NewMessages
  <2> HIDE DEF fresh, r, new
  <2>6. new = fresh
    <3>1. y.replied => fresh # <<>>
      BY <2>4 DEF ToSet
    <3>2. QED
      BY <2>5, <3>1
  <2>7. From(new, {s})
    <3> SUFFICES ASSUME NEW i \in DOMAIN fresh, NEW u \in fresh[i].uses
                 PROVE  u[1] = s
      BY <2>6 DEF From
    <3>1. n + i \in DOMAIN y.msgs /\ fresh[i] = y.msgs[n + i] /\ n + i > n
      BY <2>3
    <3>2. QED
      BY <2>2, <3>1 DEF Owned
  <2>8. e.last \subseteq ToSet(new)
    BY <1>4, <2>4, <2>6
  <2>9. Complete(new, 0) \/ e.loose
    BY <1>4, <2>2, <2>3, <2>6
  <2>10. QED
    BY <1>1, <1>2, <1>4, <2>3, <2>6, <2>7, <2>8, <2>9 DEF NewOK, Loose, e, new
<1>7. QED
  BY <1>5, <1>6

-----------------------------------------------------------------------------
(* Types.                                                                   *)

LEMMA NotSessions == Absent \notin Sessions /\ Torn \notin Sessions /\ Absent # Torn
<1>1. \A m \in Sessions : m.mode \in {"chat", "one_shot"}
  BY DEF Sessions
<1>2. Absent.mode = "absent" /\ Torn.mode = "torn"
  BY DEF Absent, Torn
<1>3. QED
  BY <1>1, <1>2

LEMMA CurrentType ==
    ASSUME TypeOK
    PROVE  /\ Current \in Sessions \cup {Absent, Torn}
           /\ Readable(Current) => Current \in Sessions
           /\ Readable(mem) <=> mem # Absent
BY NotSessions DEF TypeOK, Current, Readable

LEMMA FreshRuns == ASSUME NEW msgs \in Seq(Lines) PROVE Fresh(msgs) \in Runs
BY DEF Fresh, Runs

LEMMA FreshEmpty == <<>> \in Seq(Lines) /\ Fresh(<<>>) \in Runs
<1>1. <<>> \in Seq(Lines)
  OBVIOUS
<1> DEFINE e == <<>>
<1> HIDE DEF e
<1>2. e \in Seq(Lines) => Fresh(e) \in Runs
  BY FreshRuns
<1>3. QED
  BY <1>1, <1>2 DEF e

LEMMA NoLocalsSlots ==
    ASSUME NEW pc \in {"idle", "done", "lost"}
    PROVE  NoLocals(pc) \in Slots /\ NoLocals(pc).pc = pc
<1> DEFINE e == <<>>
           f == Fresh(<<>>)
<1>1. e \in Seq(Lines) /\ f \in Runs
  BY FreshEmpty
<1>2. NoLocals(pc) = [pc |-> pc, sess |-> Absent, x |-> f, prefill |-> 0, new |-> e, ending |-> {}]
  BY DEF NoLocals
<1> HIDE DEF e, f
<1>3. QED
  BY <1>1, <1>2 DEF Slots

\* No session.compact is at work.
LEMMA NoCompaction ==
    [at |-> "idle", input |-> <<>>] \in [at : {"idle", "summarising"}, input : Seq(Lines)]
<1> DEFINE e == <<>>
<1>1. e \in Seq(Lines)
  OBVIOUS
<1> HIDE DEF e
<1>2. [at |-> "idle", input |-> e] \in [at : {"idle", "summarising"}, input : Seq(Lines)]
  BY <1>1
<1>3. QED
  BY <1>2 DEF e

LEMMA JoinedLines ==
    ASSUME NEW new \in Seq(Lines), NEW broken \in BOOLEAN
    PROVE  Joined(broken, new) \in Seq(Lines)
BY DEF Joined

LEMMA SomeLines ==
    /\ \A s \in Sends : Prompt(s) \in Lines /\ <<Prompt(s)>> \in Seq(Lines)
    /\ Handoff \in Seq(Lines)
BY DEF Prompt, Reply, Message, Lines, Handoff

LEMMA PartlyWrittenLines ==
    ASSUME NEW old \in Seq(Lines), NEW broken \in BOOLEAN, NEW new \in Seq(Lines),
           PartlyWritten(old, broken, new)
    PROVE  thread' \in Seq(Lines) /\ torn' \in BOOLEAN
<1>1. PICK k \in 0..Len(new) : /\ thread' = old \o Joined(broken, SubSeq(new, 1, k))
                               /\ torn' = (broken /\ k = 0) \/ torn' = TRUE
  BY DEF PartlyWritten
<1> DEFINE part == SubSeq(new, 1, k)
<1>2. part \in Seq(Lines)
  BY PrefixKeeps
<1> HIDE DEF part
<1>3. Joined(broken, part) \in Seq(Lines)
  BY <1>2, JoinedLines
<1>4. thread' = old \o Joined(broken, part)
  BY <1>1 DEF part
<1>5. thread' \in Seq(Lines)
  BY <1>3, <1>4
<1>6. torn' \in BOOLEAN
  <2>1. (broken /\ k = 0) \in BOOLEAN
    OBVIOUS
  <2>2. QED
    BY <1>1, <2>1
<1>7. QED
  BY <1>5, <1>6

LEMMA TypeInit == Init => TypeOK
<1> SUFFICES ASSUME Init PROVE TypeOK
  OBVIOUS
<1>1. \A s \in Sends : slot[s] \in Slots
  BY NoLocalsSlots DEF Init
<1>2. slot \in [Sends -> Slots]
  BY <1>1 DEF Init
<1>3. compacting \in [at : {"idle", "summarising"}, input : Seq(Lines)]
  BY NoCompaction DEF Init
<1>4. thread \in Seq(Lines) /\ events \in Seq({"clear", "close", "compact", "crash"})
  BY DEF Init
<1>5. QED
  BY <1>2, <1>3, <1>4 DEF Init, TypeOK

LEMMA TypeStep ==
    ASSUME IInv, Next
    PROVE  TypeOK'
<1> USE DEF lines
<1>1. /\ TypeOK /\ thread \in Seq(Lines) /\ torn \in BOOLEAN /\ slot \in [Sends -> Slots]
      /\ \A s \in InFlight : slot[s].sess \in Sessions
  BY DEF IInv, TypeOK, HandlersOK
<1>2. /\ Current \in Sessions \cup {Absent, Torn}
      /\ Readable(Current) => Current \in Sessions
  BY <1>1, CurrentType
<1>3. ASSUME NEW e \in {"clear", "close", "compact", "crash"}, Happens(e)
      PROVE  events' \in Seq({"clear", "close", "compact", "crash"})
  BY <1>1, <1>3 DEF TypeOK, Happens
<1>4. ASSUME NEW s \in Sends, NEW new \in Slots, SetSlot(s, new)
      PROVE  slot' \in [Sends -> Slots]
  BY <1>1, <1>4 DEF SetSlot
<1>5. CASE Create
  <2>1. PICK mode \in Modes : mem' = [mode |-> mode, status |-> "active", runIDs |-> <<>>]
    BY <1>5 DEF Create
  <2>2. mem' \in Sessions /\ meta' = mem'
    BY <1>5, <2>1 DEF Create, Sessions
  <2>3. QED
    BY <1>1, <1>5, <2>2 DEF Create, TypeOK
<1>6. CASE Clear
  <2>1. events' \in Seq({"clear", "close", "compact", "crash"})
    BY <1>3, <1>6 DEF Clear
  <2>2. thread' \in Seq(Lines)
    BY <1>6 DEF Clear
  <2>3. QED
    BY <1>1, <1>6, <2>1, <2>2 DEF Clear, TypeOK
<1>7. CASE ClearRunIDs
  <2>1. mem' \in Sessions \cup {Absent}
    <3>1. mem = Absent \/ mem \in Sessions
      BY <1>1 DEF TypeOK
    <3>2. ASSUME mem \in Sessions
          PROVE  [mem EXCEPT !.runIDs = <<>>] \in Sessions
      <4> DEFINE e == <<>>
      <4>1. e \in Seq(Sends)
        OBVIOUS
      <4> HIDE DEF e
      <4>2. [mem EXCEPT !.runIDs = e] \in Sessions
        BY <3>2, <4>1 DEF Sessions
      <4>3. QED
        BY <4>2 DEF e
    <3>3. QED
      BY <1>7, <3>1, <3>2 DEF ClearRunIDs
  <2>2. QED
    BY <1>1, <1>7, <2>1 DEF ClearRunIDs, TypeOK
<1>8. CASE Close
  <2>1. [Current EXCEPT !.status = "closed"] \in Sessions
    <3>1. Current \in Sessions
      BY <1>2, <1>8 DEF Close
    <3>2. QED
      BY <3>1 DEF Sessions
  <2>2. mem' \in Sessions /\ meta' \in Sessions /\ overClose' \subseteq Sends
    BY <1>8, <2>1 DEF Close, Stored, WriteMeta, InFlight
  <2>3. QED
    BY <1>1, <1>3, <1>8, <2>2 DEF Close, TypeOK
<1>9. CASE CompactRead
  BY <1>1, <1>3, <1>9 DEF CompactRead, TypeOK
<1>10. CASE CompactFails
  <2>1. compacting' \in [at : {"idle", "summarising"}, input : Seq(Lines)]
    BY <1>10, NoCompaction DEF CompactFails, CompactEnds
  <2>2. QED
    BY <1>1, <1>10, <2>1 DEF CompactFails, TypeOK
<1>11. CASE WriteCompacted
  <2>1. compacting' \in [at : {"idle", "summarising"}, input : Seq(Lines)]
    BY <1>11, NoCompaction DEF WriteCompacted, CompactEnds
  <2>2. thread' \in Seq(Lines)
    BY <1>11, SomeLines DEF WriteCompacted
  <2>3. QED
    BY <1>1, <1>11, <2>1, <2>2 DEF WriteCompacted, TypeOK
<1>12. CASE Crash
  <2>1. slot' \in [Sends -> Slots]
    <3>1. \A s \in Sends : (IF s \in InFlight THEN NoLocals("lost") ELSE slot[s]) \in Slots
      BY <1>1, NoLocalsSlots
    <3>2. QED
      BY <1>12, <3>1 DEF Crash
  <2>2. events' \in Seq({"clear", "close", "compact", "crash"})
    BY <1>3, <1>12 DEF Crash
  <2>3. TornAppend => thread' \in Seq(Lines) /\ torn' \in BOOLEAN
    <3>1. ASSUME NEW s \in Sends, PartlyWritten(thread, torn, <<Prompt(s)>>)
          PROVE  thread' \in Seq(Lines) /\ torn' \in BOOLEAN
      BY <1>1, <3>1, SomeLines, PartlyWrittenLines
    <3>2. ASSUME NEW s \in Sends, PartlyWritten(thread, torn, slot[s].new)
          PROVE  thread' \in Seq(Lines) /\ torn' \in BOOLEAN
      <4>1. slot[s].new \in Seq(Lines)
        BY <1>1 DEF Slots
      <4>2. QED
        BY <1>1, <3>2, <4>1, PartlyWrittenLines
    <3>3. QED
      BY <3>1, <3>2 DEF TornAppend
  <2>4. TornCompact => thread' \in Seq(Lines) /\ torn' \in BOOLEAN
    <3>1. <<>> \in Seq(Lines) /\ FALSE \in BOOLEAN
      OBVIOUS
    <3>2. QED
      BY <3>1, SomeLines, PartlyWrittenLines DEF TornCompact
  <2>5. TornMeta => meta' = Torn
    BY DEF TornMeta
  <2>6. kept' \subseteq Endings /\ meta' \in Sessions \cup {Absent, Torn}
    BY <1>1, <1>12, <2>5 DEF Crash, TypeOK
  <2>7. thread' \in Seq(Lines) /\ torn' \in BOOLEAN
    BY <1>1, <1>12, <2>3, <2>4 DEF Crash
  <2>8. compacting' \in [at : {"idle", "summarising"}, input : Seq(Lines)]
    BY <1>12, NoCompaction DEF Crash, CompactEnds
  <2>9. mem' = Absent /\ clearing' = FALSE /\ overlapped' = overlapped /\ overClose' = overClose
    BY <1>12 DEF Crash
  <2>10. QED
    BY <1>1, <2>1, <2>2, <2>6, <2>7, <2>8, <2>9 DEF TypeOK
<1>13. ASSUME NEW s \in Sends, Get(s)
       PROVE  TypeOK'
  <2>1. (IF Accepts THEN [slot[s] EXCEPT !.pc = "got", !.sess = Current]
                    ELSE [slot[s] EXCEPT !.pc = "refused"]) \in Slots
    <3>1. slot[s] \in Slots
      BY <1>1
    <3>2. CASE Accepts
      <4>1. Current \in Sessions \cup {Absent}
        BY <1>2, <3>2 DEF Accepts
      <4>2. QED
        BY <3>1, <3>2, <4>1 DEF Slots
    <3>3. CASE ~Accepts
      BY <3>1, <3>3 DEF Slots
    <3>4. QED
      BY <3>2, <3>3
  <2>2. slot' \in [Sends -> Slots]
    BY <1>4, <1>13, <2>1 DEF Get
  <2>3. overlapped' \in BOOLEAN
    BY <1>1, <1>13 DEF Get, TypeOK
  <2>4. QED
    BY <1>1, <1>13, <2>2, <2>3 DEF Get, TypeOK
<1>14. ASSUME NEW s \in Sends, ReadHistory(s)
       PROVE  TypeOK'
  <2>1. Fresh(ReadMessages) \in Runs
    BY <1>1, TrimKeepsPrefix, FreshRuns DEF ReadMessages
  <2>2. [slot[s] EXCEPT !.pc = "read", !.x = Fresh(ReadMessages)] \in Slots
    BY <1>1, <2>1 DEF Slots
  <2>3. slot' \in [Sends -> Slots]
    BY <1>4, <1>14, <2>2 DEF ReadHistory
  <2>4. QED
    BY <1>1, <1>14, <2>3 DEF ReadHistory, TypeOK
<1>15. ASSUME NEW s \in Sends, AppendPrompt(s)
       PROVE  TypeOK'
  <2> DEFINE msgs == Append(slot[s].x.msgs, Prompt(s))
             j == Joined(torn, <<Prompt(s)>>)
  <2>1. msgs \in Seq(Lines) /\ Len(msgs) \in Nat
    BY <1>1, SomeLines DEF Slots, Runs
  <2>2. j \in Seq(Lines) /\ thread' = thread \o j
    BY <1>1, <1>15, SomeLines, JoinedLines DEF AppendPrompt, AppendMessages
  <2> HIDE DEF msgs, j
  <2>3. [slot[s] EXCEPT !.pc = "running", !.x = Fresh(msgs), !.prefill = Len(msgs)] \in Slots
    <3>1. Fresh(msgs) \in Runs
      BY <2>1, FreshRuns
    <3>2. QED
      BY <1>1, <2>1, <3>1 DEF Slots
  <2>4. slot' \in [Sends -> Slots]
    BY <1>4, <1>15, <2>3 DEF AppendPrompt, msgs
  <2>5. thread' \in Seq(Lines) /\ torn' \in BOOLEAN
    <3>1. thread' \in Seq(Lines)
      BY <1>1, <2>2
    <3>2. torn' = (torn /\ <<Prompt(s)>> = <<>>)
      BY <1>15 DEF AppendPrompt, AppendMessages
    <3>3. QED
      BY <3>1, <3>2
  <2>6. QED
    BY <1>1, <1>15, <2>4, <2>5 DEF AppendPrompt, TypeOK
<1>16. ASSUME NEW s \in Sends, Iterate(s)
       PROVE  TypeOK'
  <2> DEFINE n == slot[s].prefill
  <2>1. PICK y \in Iterations(slot[s].x, s, MaxSteps, MaxUses, Compaction) :
          SetSlot(s, IF GoesOn(y)
                     THEN [slot[s] EXCEPT !.x = y]
                     ELSE [slot[s] EXCEPT !.pc = "ended", !.x = Fresh(<<>>), !.prefill = 0,
                                          !.new = NewMessages(y, slot[s].prefill, s),
                                          !.ending = {Ending(y, s)}])
    BY <1>16 DEF Iterate
  <2>2. RunOK(slot[s].x, n, s) /\ slot[s].x \in Runs /\ n \in Nat
    BY <1>1, <1>16 DEF Iterate, IInv, RunningOK, Slots
  <2>3. y \in Runs /\ NewMessages(y, n, s) \in Seq(Lines) /\ Ending(y, s) \in Endings
    BY <2>1, <2>2, IterationKeeps
  <2>4. [slot[s] EXCEPT !.x = y] \in Slots
    BY <1>1, <2>3 DEF Slots
  <2>5. [slot[s] EXCEPT !.pc = "ended", !.x = Fresh(<<>>), !.prefill = 0,
                        !.new = NewMessages(y, slot[s].prefill, s),
                        !.ending = {Ending(y, s)}] \in Slots
    <3> DEFINE new == NewMessages(y, n, s)
               e == {Ending(y, s)}
               f == Fresh(<<>>)
    <3>1. new \in Seq(Lines) /\ e \in SUBSET Endings /\ f \in Runs
      BY <2>3, FreshEmpty
    <3> HIDE DEF new, e, f
    <3>2. [slot[s] EXCEPT !.pc = "ended", !.x = f, !.prefill = 0, !.new = new, !.ending = e] \in Slots
      BY <1>1, <3>1 DEF Slots
    <3>3. QED
      BY <3>2 DEF new, e, f
  <2>6. slot' \in [Sends -> Slots]
    BY <1>4, <2>1, <2>4, <2>5
  <2>7. QED
    BY <1>1, <1>16, <2>6 DEF Iterate, TypeOK
<1>17. ASSUME NEW s \in Sends, SaveMessages(s)
       PROVE  TypeOK'
  <2> DEFINE j == Joined(torn, slot[s].new)
  <2>1. slot[s].new \in Seq(Lines) /\ slot[s].ending \subseteq Endings /\ <<>> \in Seq(Lines)
    BY <1>1 DEF Slots
  <2>2. j \in Seq(Lines) /\ thread' = thread \o j
    BY <1>1, <1>17, <2>1, JoinedLines DEF SaveMessages, AppendMessages
  <2> HIDE DEF j
  <2>3. [slot[s] EXCEPT !.pc = "saved", !.new = <<>>, !.ending = {}] \in Slots
    BY <1>1, <2>1 DEF Slots
  <2>4. slot' \in [Sends -> Slots]
    BY <1>4, <1>17, <2>3 DEF SaveMessages
  <2>5. thread' \in Seq(Lines) /\ torn' \in BOOLEAN
    <3>1. thread' \in Seq(Lines)
      BY <1>1, <2>2
    <3>2. torn' = (torn /\ slot[s].new = <<>>)
      BY <1>17 DEF SaveMessages, AppendMessages
    <3>3. QED
      BY <3>1, <3>2
  <2>6. QED
    BY <1>1, <1>17, <2>1, <2>4, <2>5 DEF SaveMessages, TypeOK
<1>18. ASSUME NEW s \in Sends, Update(s)
       PROVE  TypeOK'
  <2> DEFINE ids == Append(slot[s].sess.runIDs, s)
             status == StatusAfter(slot[s].sess.mode)
  <2>1. slot[s].sess \in Sessions
    BY <1>1, <1>18 DEF Update, InFlight
  <2>2. ids \in Seq(Sends)
    BY <2>1 DEF Sessions
  <2>3. status \in {"active", "waiting_for_input", "closed"}
    BY DEF StatusAfter
  <2>4. mem' = [slot[s].sess EXCEPT !.runIDs = ids, !.status = status] /\ meta' = mem'
    BY <1>18 DEF Update, Stored, WriteMeta
  <2> HIDE DEF ids, status
  <2>5. mem' \in Sessions
    BY <2>1, <2>2, <2>3, <2>4 DEF Sessions
  <2>6. slot' \in [Sends -> Slots]
    BY <1>4, <1>18, NoLocalsSlots DEF Update
  <2>7. QED
    BY <1>1, <1>18, <2>4, <2>5, <2>6 DEF Update, TypeOK
<1>19. QED
  BY <1>5, <1>6, <1>7, <1>8, <1>9, <1>10, <1>11, <1>12, <1>13, <1>14, <1>15, <1>16, <1>17, <1>18
     DEF Next

-----------------------------------------------------------------------------
(* The thread.                                                              *)

LEMMA ConcatFrom ==
    ASSUME NEW p \in Seq(Lines), NEW q \in Seq(Lines), NEW T, From(p, T), From(q, T)
    PROVE  From(p \o q, T)
<1> DEFINE r == p \o q
<1>1. /\ r \in Seq(Lines) /\ Len(r) = Len(p) + Len(q)
      /\ \A i \in DOMAIN p : i \in DOMAIN r /\ r[i] = p[i]
      /\ \A i \in DOMAIN q : Len(p) + i \in DOMAIN r /\ r[Len(p) + i] = q[i]
      /\ \A i \in DOMAIN r : i \in DOMAIN p \/ (i > Len(p) /\ i - Len(p) \in DOMAIN q)
  BY ConcatHistories
<1> HIDE DEF r
<1> SUFFICES ASSUME NEW i \in DOMAIN r, NEW u \in r[i].uses
             PROVE  u[1] \in T
  BY DEF From, r
<1>2. CASE i \in DOMAIN p
  BY <1>1, <1>2 DEF From
<1>3. CASE i \notin DOMAIN p
  <2> DEFINE k == i - Len(p)
  <2>1. k \in DOMAIN q /\ i = Len(p) + k
    BY <1>1, <1>3
  <2> HIDE DEF k
  <2>2. QED
    BY <1>1, <2>1 DEF From
<1>4. QED
  BY <1>2, <1>3

LEMMA ConcatSet ==
    ASSUME NEW p \in Seq(Lines), NEW q \in Seq(Lines)
    PROVE  ToSet(p) \subseteq ToSet(p \o q) /\ ToSet(q) \subseteq ToSet(p \o q)
<1> DEFINE r == p \o q
<1>1. /\ \A i \in DOMAIN p : i \in DOMAIN r /\ r[i] = p[i]
      /\ \A i \in DOMAIN q : Len(p) + i \in DOMAIN r /\ r[Len(p) + i] = q[i]
  BY ConcatHistories
<1> HIDE DEF r
<1>2. ToSet(p) \subseteq ToSet(r) /\ ToSet(q) \subseteq ToSet(r)
  BY <1>1 DEF ToSet
<1>3. QED
  BY <1>2 DEF r

\* Messages without tool calls.
Plain(q) == \A i \in DOMAIN q : q[i].uses = {} /\ q[i].results = {}

LEMMA PlainKeeps ==
    ASSUME NEW q, Plain(q)
    PROVE  Follows(q, 0) /\ Distinct(q, 0) /\ Complete(q, 0) /\ \A T : From(q, T)
BY DEF Plain, Follows, Distinct, Complete, From

LEMMA PlainLines ==
    /\ \A s \in Sends : Plain(<<Prompt(s)>>)
    /\ Plain(Handoff)
BY DEF Plain, Prompt, Reply, Message, Handoff

LEMMA JoinedPlain ==
    ASSUME NEW q \in Seq(Lines), Plain(q), NEW broken \in BOOLEAN
    PROVE  Joined(broken, q) \in Seq(Lines) /\ Plain(Joined(broken, q))
<1>1. CASE broken /\ q # <<>>
  <2> DEFINE t == Tail(q)
  <2>1. t \in Seq(Lines) /\ \A i \in DOMAIN t : i + 1 \in DOMAIN q /\ t[i] = q[i + 1]
    BY <1>1
  <2>2. Joined(broken, q) = t
    BY <1>1 DEF Joined
  <2> HIDE DEF t
  <2>3. QED
    BY <2>1, <2>2 DEF Plain
<1>2. CASE ~(broken /\ q # <<>>)
  BY <1>2 DEF Joined
<1>3. QED
  BY <1>1, <1>2

\* What a crash leaves of messages being written after old ones.
LEMMA PartlyWrittenKeeps ==
    ASSUME NEW old \in Seq(Lines), NEW broken \in BOOLEAN, NEW new \in Seq(Lines),
           PartlyWritten(old, broken, new), NEW T,
           Follows(old, 0), Distinct(old, 0), From(old, T),
           Follows(new, 0), Distinct(new, 0), From(new, T),
           \A i \in DOMAIN old, j \in DOMAIN new : old[i].uses \cap new[j].uses = {},
           broken => Plain(new)
    PROVE  /\ Follows(thread', 0) /\ Distinct(thread', 0) /\ From(thread', T)
           /\ ToSet(old) \subseteq ToSet(thread')
<1>1. PICK k \in 0..Len(new) : thread' = old \o Joined(broken, SubSeq(new, 1, k))
  BY DEF PartlyWritten
<1> DEFINE part == SubSeq(new, 1, k)
           rest == Joined(broken, part)
<1>2. /\ part \in Seq(Lines)
      /\ \A i \in DOMAIN part : i \in DOMAIN new /\ part[i] = new[i]
      /\ Follows(part, 0) /\ Distinct(part, 0)
  <2>1. part = SubSeq(new, 1, k)
    OBVIOUS
  <2> HIDE DEF part
  <2>2. QED
    <3>1. /\ part \in Seq(Lines)
          /\ \A i \in DOMAIN part : i \in DOMAIN new /\ part[i] = new[i]
      BY <2>1, PrefixKeeps
    <3>2. Follows(part, 0)
      BY <2>1, PrefixKeeps
    <3>3. Distinct(part, 0)
      BY <2>1, PrefixKeeps
    <3>4. QED
      BY <3>1, <3>2, <3>3
<1>3. thread' = old \o rest
  BY <1>1
<1> HIDE DEF part
<1>4. /\ rest \in Seq(Lines) /\ Follows(rest, 0) /\ Distinct(rest, 0) /\ From(rest, T)
      /\ \A i \in DOMAIN old, j \in DOMAIN rest : old[i].uses \cap rest[j].uses = {}
  <2>1. CASE broken
    <3>1. Plain(part)
      BY <1>2, <2>1 DEF Plain
    <3>2. rest \in Seq(Lines) /\ Plain(rest)
      BY <1>2, <3>1, JoinedPlain
    <3> HIDE DEF rest
    <3>3. QED
      BY <3>2, PlainKeeps DEF Plain
  <2>2. CASE ~broken
    <3>1. rest = part
      BY <2>2 DEF Joined
    <3> HIDE DEF rest
    <3>2. QED
      BY <1>2, <3>1 DEF From
  <2>3. QED
    BY <2>1, <2>2
<1> HIDE DEF rest
<1>5. QED
  BY <1>3, <1>4, ConcatKeeps, ConcatFrom, ConcatSet

\* What is past stays so.
LEMMA Monotone ==
    ASSUME IInv, Next
    PROVE  /\ Gone \subseteq Gone'
           /\ ToSet(events) \subseteq ToSet(events')
           /\ Crashed => Crashed'
<1>1. TypeOK /\ slot \in [Sends -> Slots]
  BY DEF IInv, TypeOK
<1>2. ASSUME NEW s \in Sends, NEW new, SetSlot(s, new), slot[s].pc \notin {"saved", "done", "lost"}
      PROVE  Gone \subseteq Gone'
  BY <1>1, <1>2 DEF SetSlot, Gone
<1>3. ASSUME NEW e, Happens(e)
      PROVE  ToSet(events) \subseteq ToSet(events')
  <2> DEFINE n == Len(events)
  <2>1. events \in Seq({"clear", "close", "compact", "crash"}) /\ events' = Append(events, e)
    BY <1>1, <1>3 DEF Happens, TypeOK
  <2>2. \A i \in DOMAIN events : i \in DOMAIN events' /\ events'[i] = events[i]
    BY <2>1
  <2>3. QED
    BY <2>2 DEF ToSet
<1>4. CASE UNCHANGED slot /\ (UNCHANGED events \/ \E e : Happens(e))
  BY <1>3, <1>4 DEF Gone, Crashed
<1>5. CASE Crash
  <2>1. Gone \subseteq Gone'
    BY <1>1, <1>5 DEF Crash, Gone, InFlight, NoLocals
  <2>2. ToSet(events) \subseteq ToSet(events')
    BY <1>3, <1>5 DEF Crash
  <2>3. QED
    BY <2>1, <2>2 DEF Crashed
<1>6. ASSUME NEW s \in Sends,
             Get(s) \/ ReadHistory(s) \/ AppendPrompt(s) \/ Iterate(s) \/ SaveMessages(s) \/ Update(s)
      PROVE  Gone \subseteq Gone' /\ ToSet(events) \subseteq ToSet(events')
  <2>1. UNCHANGED events
    BY <1>6 DEF Get, ReadHistory, AppendPrompt, Iterate, SaveMessages, Update
  <2>2. Gone \subseteq Gone'
    <3>1. CASE Get(s)
      BY <1>2, <3>1 DEF Get
    <3>2. CASE ReadHistory(s)
      BY <1>2, <3>2 DEF ReadHistory
    <3>3. CASE AppendPrompt(s)
      BY <1>2, <3>3 DEF AppendPrompt
    <3>4. CASE Iterate(s)
      BY <1>2, <3>4 DEF Iterate
    <3>5. CASE SaveMessages(s)
      BY <1>2, <3>5 DEF SaveMessages
    <3>6. CASE Update(s)
      BY <1>1, <3>6 DEF Update, SetSlot, Gone, NoLocals
    <3>7. QED
      BY <1>6, <3>1, <3>2, <3>3, <3>4, <3>5, <3>6
  <2>3. QED
    BY <2>1, <2>2
<1>7. CASE \/ Create \/ Clear \/ ClearRunIDs \/ Close
           \/ CompactRead \/ CompactFails \/ WriteCompacted
  BY <1>4, <1>7 DEF Create, Clear, ClearRunIDs, Close, CompactRead, CompactFails, WriteCompacted
<1>8. QED
  BY <1>5, <1>6, <1>7 DEF Next, Crashed

\* A run is prompted by AppendPrompt only.
LEMMA PromptedBy ==
    ASSUME IInv, Next, ~\E s \in Sends : AppendPrompt(s)
    PROVE  Prompted' \subseteq Prompted
<1>1. slot \in [Sends -> Slots]
  BY DEF IInv, TypeOK
<1>2. ASSUME NEW s \in Sends, NEW new, SetSlot(s, new),
             new.pc \notin {"running", "ended", "saved"} \/ slot[s].pc \in {"running", "ended", "saved"}
      PROVE  Prompted' \subseteq Prompted
  BY <1>1, <1>2 DEF SetSlot, Prompted
<1>3. CASE Crash
  BY <1>1, <1>3 DEF Crash, Prompted, InFlight, NoLocals
<1>4. ASSUME NEW s \in Sends, Get(s)
      PROVE  Prompted' \subseteq Prompted
  BY <1>1, <1>4 DEF Get, Prompted, SetSlot, Slots
<1>5. ASSUME NEW s \in Sends, ReadHistory(s)
      PROVE  Prompted' \subseteq Prompted
  BY <1>1, <1>5 DEF ReadHistory, Prompted, SetSlot, Slots
<1>6. ASSUME NEW s \in Sends, Iterate(s)
      PROVE  Prompted' \subseteq Prompted
  BY <1>2, <1>6 DEF Iterate
<1>7. ASSUME NEW s \in Sends, SaveMessages(s)
      PROVE  Prompted' \subseteq Prompted
  BY <1>2, <1>7 DEF SaveMessages
<1>8. ASSUME NEW s \in Sends, Update(s)
      PROVE  Prompted' \subseteq Prompted
  BY <1>2, <1>8 DEF Update
<1>9. CASE \/ Create \/ Clear \/ ClearRunIDs \/ Close
           \/ CompactRead \/ CompactFails \/ WriteCompacted
  BY <1>9 DEF Create, Clear, ClearRunIDs, Close, CompactRead, CompactFails, WriteCompacted, Prompted
<1>10. QED
  BY <1>3, <1>4, <1>5, <1>6, <1>7, <1>8, <1>9 DEF Next

LEMMA ThreadFrame ==
    ASSUME IInv, Next, UNCHANGED <<thread, kept>>, torn' = torn, ~\E s \in Sends : AppendPrompt(s)
    PROVE  ThreadOK'
<1>1. ThreadOK
  BY DEF IInv
<1>2. Gone \subseteq Gone' /\ (Crashed => Crashed') /\ Prompted' \subseteq Prompted
  BY Monotone, PromptedBy
<1>3. From(thread, Gone) => From(thread, Gone')
  BY <1>2 DEF From
<1>4. QED
  BY <1>1, <1>2, <1>3 DEF ThreadOK, RepliesKept, Loose

LEMMA ThreadCleared ==
    ASSUME thread' = <<>> \/ thread' = Handoff, torn' = FALSE, kept' = {}
    PROVE  ThreadOK'
<1>1. Plain(thread')
  BY PlainLines DEF Plain
<1>2. QED
  BY <1>1, PlainKeeps DEF ThreadOK, RepliesKept

LEMMA ThreadStep ==
    ASSUME IInv, Next
    PROVE  ThreadOK'
<1> USE DEF lines
<1>1. /\ TypeOK /\ ThreadOK /\ thread \in Seq(Lines) /\ torn \in BOOLEAN /\ slot \in [Sends -> Slots]
      /\ Follows(thread, 0) /\ Distinct(thread, 0) /\ From(thread, Gone) /\ RepliesKept
  BY DEF IInv, TypeOK, ThreadOK
<1>2. Gone \subseteq Gone' /\ (Crashed => Crashed')
  BY Monotone
<1>3. From(thread, Gone')
  BY <1>1, <1>2 DEF From
<1>4. CASE Clear
  BY <1>4, ThreadCleared DEF Clear
<1>5. CASE WriteCompacted
  BY <1>5, ThreadCleared DEF WriteCompacted
<1>6. CASE Crash
  <2>1. Prompted' = {} /\ InFlight \subseteq Gone'
    BY <1>1, <1>6 DEF Crash, Prompted, Gone, InFlight, NoLocals
  <2>2. Crashed'
    <3>1. events \in Seq({"clear", "close", "compact", "crash"}) /\ events' = Append(events, "crash")
      BY <1>1, <1>6 DEF Crash, Happens, TypeOK
    <3>2. Len(events) + 1 \in DOMAIN events' /\ events'[Len(events) + 1] = "crash"
      BY <3>1
    <3>3. QED
      BY <3>2 DEF Crashed, ToSet
  <2>3. CASE UNCHANGED <<lines, kept>>
    BY <1>1, <1>3, <2>1, <2>2, <2>3 DEF ThreadOK, RepliesKept
  <2>4. CASE TornAppend /\ UNCHANGED kept
    <3>1. ASSUME NEW s \in Sends, PartlyWritten(thread, torn, <<Prompt(s)>>)
          PROVE  ThreadOK'
      <4> DEFINE p == <<Prompt(s)>>
      <4>1. p \in Seq(Lines) /\ Plain(p)
        BY SomeLines, PlainLines
      <4>2. PartlyWritten(thread, torn, p)
        BY <3>1
      <4> HIDE DEF p
      <4>3. /\ Follows(p, 0) /\ Distinct(p, 0) /\ From(p, Gone')
            /\ \A i \in DOMAIN thread, j \in DOMAIN p : thread[i].uses \cap p[j].uses = {}
        BY <4>1, PlainKeeps DEF Plain
      <4>4. /\ Follows(thread', 0) /\ Distinct(thread', 0) /\ From(thread', Gone')
            /\ ToSet(thread) \subseteq ToSet(thread')
        BY <1>1, <1>3, <4>1, <4>2, <4>3, PartlyWrittenKeeps
      <4>5. QED
        BY <1>1, <2>1, <2>2, <2>4, <4>4 DEF ThreadOK, RepliesKept
    <3>2. ASSUME NEW s \in Sends, slot[s].pc = "ended", PartlyWritten(thread, torn, slot[s].new)
          PROVE  ThreadOK'
      <4> DEFINE q == slot[s].new
      <4>1. q \in Seq(Lines) /\ NewOK(q, slot[s].ending, s)
        BY <1>1, <3>2 DEF IInv, EndedOK, Slots
      <4>2. PartlyWritten(thread, torn, q)
        BY <3>2
      <4> HIDE DEF q
      <4>3. ~torn
        BY <1>1, <3>2 DEF ThreadOK, Prompted
      <4>4. Follows(q, 0) /\ Distinct(q, 0) /\ From(q, {s})
        BY <4>1 DEF NewOK
      <4>5. s \in Gone' /\ s \notin Gone
        BY <2>1, <3>2 DEF InFlight, Gone
      <4>6. From(q, Gone')
        BY <4>4, <4>5 DEF From
      <4>7. \A i \in DOMAIN thread, j \in DOMAIN q : thread[i].uses \cap q[j].uses = {}
        BY <1>1, <4>4, <4>5 DEF From
      <4>8. /\ Follows(thread', 0) /\ Distinct(thread', 0) /\ From(thread', Gone')
            /\ ToSet(thread) \subseteq ToSet(thread')
        BY <1>1, <1>3, <4>1, <4>2, <4>3, <4>4, <4>6, <4>7, PartlyWrittenKeeps
      <4>9. QED
        BY <1>1, <2>1, <2>2, <2>4, <4>8 DEF ThreadOK, RepliesKept
    <3>3. QED
      BY <2>4, <3>1, <3>2 DEF TornAppend
  <2>5. CASE TornCompact /\ kept' = {}
    <3> DEFINE e == <<>>
               h == Handoff
    <3>1. /\ e \in Seq(Lines) /\ Plain(e) /\ h \in Seq(Lines) /\ Plain(h)
          /\ PartlyWritten(e, FALSE, h)
      <4>1. e \in Seq(Lines) /\ Plain(e)
        BY DEF Plain
      <4>2. PartlyWritten(e, FALSE, h)
        BY <2>5 DEF TornCompact
      <4> HIDE DEF e
      <4>3. QED
        BY <4>1, <4>2, SomeLines, PlainLines
    <3> HIDE DEF e, h
    <3>2. /\ Follows(e, 0) /\ Distinct(e, 0) /\ From(e, Gone')
          /\ Follows(h, 0) /\ Distinct(h, 0) /\ From(h, Gone')
          /\ \A i \in DOMAIN e, j \in DOMAIN h : e[i].uses \cap h[j].uses = {}
      BY <3>1, PlainKeeps DEF Plain
    <3>3. Follows(thread', 0) /\ Distinct(thread', 0) /\ From(thread', Gone')
      BY <3>1, <3>2, PartlyWrittenKeeps
    <3>4. QED
      BY <2>1, <2>2, <2>5, <3>3 DEF ThreadOK, RepliesKept
  <2>6. QED
    BY <1>6, <2>3, <2>4, <2>5 DEF Crash
<1>7. ASSUME NEW s \in Sends, AppendPrompt(s)
      PROVE  ThreadOK'
  <2> DEFINE p == <<Prompt(s)>>
             rest == Joined(torn, p)
  <2>1. p \in Seq(Lines) /\ Plain(p) /\ p # <<>>
    BY SomeLines, PlainLines
  <2>2. /\ thread' = thread \o rest /\ torn' = FALSE /\ kept' = kept /\ events' = events
    BY <1>7, <2>1 DEF AppendPrompt, AppendMessages
  <2>3. rest \in Seq(Lines) /\ Plain(rest)
    <3> HIDE DEF p
    <3>1. QED
      BY <1>1, <2>1, JoinedPlain
  <2> HIDE DEF p, rest
  <2>4. /\ Follows(rest, 0) /\ Distinct(rest, 0) /\ Complete(rest, 0) /\ From(rest, Gone')
        /\ \A i \in DOMAIN thread, j \in DOMAIN rest : thread[i].uses \cap rest[j].uses = {}
    BY <2>3, PlainKeeps DEF Plain
  <2>5. /\ Follows(thread', 0) /\ Distinct(thread', 0) /\ From(thread', Gone')
        /\ ToSet(thread) \subseteq ToSet(thread')
        /\ Complete(thread, 0) => Complete(thread', 0)
    BY <1>1, <1>3, <2>2, <2>3, <2>4, ConcatKeeps, ConcatFrom, ConcatSet, ConcatComplete
  <2>6. Complete(thread', 0) \/ Crashed' \/ Loose(kept')
    BY <1>1, <1>2, <2>2, <2>5 DEF ThreadOK
  <2>7. QED
    BY <1>1, <2>2, <2>5, <2>6 DEF ThreadOK, RepliesKept
<1>8. ASSUME NEW s \in Sends, SaveMessages(s)
      PROVE  ThreadOK'
  <2> DEFINE q == slot[s].new
             ending == slot[s].ending
  <2>1. q \in Seq(Lines) /\ NewOK(q, ending, s) /\ s \notin Gone
    BY <1>1, <1>8 DEF SaveMessages, IInv, EndedOK, Slots, Gone
  <2>2. ~torn
    BY <1>1, <1>8 DEF ThreadOK, Prompted, SaveMessages
  <2>3. s \in Gone'
    BY <1>1, <1>8 DEF SaveMessages, SetSlot, Gone, Slots
  <2>4. thread' = thread \o q /\ kept' = kept \cup ending /\ torn' = FALSE /\ events' = events
    BY <1>8, <2>2 DEF SaveMessages, AppendMessages, Joined
  <2> HIDE DEF q, ending
  <2>5. Follows(q, 0) /\ Distinct(q, 0) /\ From(q, {s}) /\ \A k \in ending : k.last \subseteq ToSet(q)
    BY <2>1 DEF NewOK
  <2>6. /\ From(q, Gone')
        /\ \A i \in DOMAIN thread, j \in DOMAIN q : thread[i].uses \cap q[j].uses = {}
    BY <1>1, <2>1, <2>3, <2>5 DEF From
  <2>7. /\ Follows(thread', 0) /\ Distinct(thread', 0) /\ From(thread', Gone')
        /\ ToSet(thread) \subseteq ToSet(thread') /\ ToSet(q) \subseteq ToSet(thread')
    BY <1>1, <1>3, <2>1, <2>4, <2>5, <2>6, ConcatKeeps, ConcatFrom, ConcatSet
  <2>8. RepliesKept'
    BY <1>1, <2>4, <2>5, <2>7 DEF RepliesKept
  <2>9. Complete(thread', 0) \/ Crashed' \/ Loose(kept')
    <3>1. CASE Crashed
      BY <1>2, <3>1
    <3>2. CASE Loose(kept) \/ Loose(ending)
      BY <2>4, <3>2 DEF Loose
    <3>3. CASE Complete(thread, 0) /\ Complete(q, 0)
      BY <1>1, <2>1, <2>4, <3>3, ConcatComplete
    <3>4. QED
      BY <1>1, <2>1, <3>1, <3>2, <3>3 DEF ThreadOK, NewOK
  <2>10. QED
    BY <2>4, <2>7, <2>8, <2>9 DEF ThreadOK
<1>9. CASE \/ Create \/ ClearRunIDs \/ Close \/ CompactRead \/ CompactFails
           \/ \E s \in Sends : Get(s) \/ ReadHistory(s) \/ Iterate(s) \/ Update(s)
  <2>1. UNCHANGED <<thread, kept>> /\ torn' = torn
    BY <1>9 DEF Create, ClearRunIDs, Close, CompactRead, CompactFails, Get, ReadHistory, Iterate, Update
  <2>2. CASE \E s \in Sends : AppendPrompt(s)
    BY <1>7, <2>2
  <2>3. QED
    BY <2>1, <2>2, ThreadFrame
<1>10. QED
  BY <1>4, <1>5, <1>6, <1>7, <1>8, <1>9 DEF Next

-----------------------------------------------------------------------------
(* The runs.                                                                *)

LEMMA RunsStep ==
    ASSUME IInv, Next
    PROVE  \A t \in Sends : RunningOK(t)' /\ EndedOK(t)'
<1>1. TypeOK /\ slot \in [Sends -> Slots] /\ \A t \in Sends : RunningOK(t) /\ EndedOK(t)
  BY DEF IInv, TypeOK
<1>2. ASSUME NEW s \in Sends, NEW new, SetSlot(s, new), new.pc \notin {"running", "ended"}
      PROVE  \A t \in Sends : RunningOK(t)' /\ EndedOK(t)'
  BY <1>1, <1>2 DEF SetSlot, RunningOK, EndedOK
<1>3. CASE UNCHANGED slot
  BY <1>1, <1>3 DEF RunningOK, EndedOK
<1>4. CASE Crash
  BY <1>1, <1>4 DEF Crash, InFlight, NoLocals, RunningOK, EndedOK
<1>5. ASSUME NEW s \in Sends, Get(s)
      PROVE  \A t \in Sends : RunningOK(t)' /\ EndedOK(t)'
  <2>1. (IF Accepts THEN [slot[s] EXCEPT !.pc = "got", !.sess = Current]
                    ELSE [slot[s] EXCEPT !.pc = "refused"]).pc \in {"got", "refused"}
    BY <1>1 DEF Slots
  <2>2. QED
    BY <1>2, <1>5, <2>1 DEF Get
<1>6. ASSUME NEW s \in Sends, ReadHistory(s)
      PROVE  \A t \in Sends : RunningOK(t)' /\ EndedOK(t)'
  <2>1. [slot[s] EXCEPT !.pc = "read", !.x = Fresh(ReadMessages)].pc = "read"
    BY <1>1 DEF Slots
  <2>2. QED
    BY <1>2, <1>6, <2>1 DEF ReadHistory
<1>7. ASSUME NEW s \in Sends, AppendPrompt(s)
      PROVE  \A t \in Sends : RunningOK(t)' /\ EndedOK(t)'
  <2> DEFINE msgs == Append(slot[s].x.msgs, Prompt(s))
             f == Fresh(msgs)
             new == [slot[s] EXCEPT !.pc = "running", !.x = f, !.prefill = Len(msgs)]
  <2>1. msgs \in Seq(Lines) /\ Len(msgs) \in Nat /\ DOMAIN msgs = 1..Len(msgs)
    BY <1>1, SomeLines DEF Slots, Runs
  <2>2. SetSlot(s, new)
    BY <1>7 DEF AppendPrompt
  <2> HIDE DEF msgs
  <2>3. RunOK(f, Len(msgs), s)
    <3>1. \A i \in DOMAIN msgs : ~(i > Len(msgs))
      BY <2>1
    <3>2. f.msgs = msgs /\ f.step = 0 /\ f.status = "running" /\ f.reason = "none" /\ f.final = {}
          /\ ~f.replied /\ ~f.compacted
      BY DEF Fresh
    <3>3. GoesOn(f)
      BY <3>2 DEF GoesOn
    <3>4. Len(msgs) <= Len(f.msgs)
      BY <2>1, <3>2
    <3> HIDE DEF f
    <3>5. QED
      BY <3>1, <3>2, <3>3, <3>4 DEF RunOK, Follows, Distinct, Complete, Owned
  <2> HIDE DEF f
  <2>4. new.pc = "running" /\ new.x = f /\ new.prefill = Len(msgs)
    BY <1>1 DEF Slots
  <2> HIDE DEF new
  <2>5. slot'[s] = new /\ \A t \in Sends : t # s => slot'[t] = slot[t]
    BY <1>1, <2>2 DEF SetSlot
  <2>6. QED
    BY <1>1, <2>3, <2>4, <2>5 DEF RunningOK, EndedOK
<1>8. ASSUME NEW s \in Sends, Iterate(s)
      PROVE  \A t \in Sends : RunningOK(t)' /\ EndedOK(t)'
  <2> DEFINE n == slot[s].prefill
  <2>1. PICK y \in Iterations(slot[s].x, s, MaxSteps, MaxUses, Compaction) :
          SetSlot(s, IF GoesOn(y)
                     THEN [slot[s] EXCEPT !.x = y]
                     ELSE [slot[s] EXCEPT !.pc = "ended", !.x = Fresh(<<>>), !.prefill = 0,
                                          !.new = NewMessages(y, slot[s].prefill, s),
                                          !.ending = {Ending(y, s)}])
    BY <1>8 DEF Iterate
  <2>2. RunOK(slot[s].x, n, s) /\ slot[s].x \in Runs /\ n \in Nat /\ slot[s].pc = "running"
    BY <1>1, <1>8 DEF Iterate, RunningOK, Slots
  <2> DEFINE new == NewMessages(y, n, s)
             e == {Ending(y, s)}
             f == Fresh(<<>>)
             more == [slot[s] EXCEPT !.x = y]
             over == [slot[s] EXCEPT !.pc = "ended", !.x = f, !.prefill = 0, !.new = new,
                                     !.ending = e]
  <2>3. (GoesOn(y) => RunOK(y, n, s)) /\ NewOK(new, e, s)
    BY <2>1, <2>2, IterationKeeps
  <2>4. slot' = [slot EXCEPT ![s] = IF GoesOn(y) THEN more ELSE over]
    BY <2>1 DEF SetSlot
  <2> HIDE DEF new, e, f
  <2>5. /\ more.pc = "running" /\ more.x = y /\ more.prefill = n
        /\ over.pc = "ended" /\ over.new = new /\ over.ending = e
    BY <1>1, <2>2 DEF Slots
  <2> HIDE DEF more, over, n
  <2>6. /\ slot'[s] = IF GoesOn(y) THEN more ELSE over
        /\ \A t \in Sends : t # s => slot'[t] = slot[t]
    BY <1>1, <2>4
  <2>7. QED
    BY <1>1, <2>3, <2>5, <2>6 DEF RunningOK, EndedOK
<1>9. ASSUME NEW s \in Sends, SaveMessages(s)
      PROVE  \A t \in Sends : RunningOK(t)' /\ EndedOK(t)'
  <2>1. [slot[s] EXCEPT !.pc = "saved", !.new = <<>>, !.ending = {}].pc = "saved"
    BY <1>1 DEF Slots
  <2>2. QED
    BY <1>2, <1>9, <2>1 DEF SaveMessages
<1>10. ASSUME NEW s \in Sends, Update(s)
       PROVE  \A t \in Sends : RunningOK(t)' /\ EndedOK(t)'
  BY <1>2, <1>10, NoLocalsSlots DEF Update
<1>11. CASE \/ Create \/ Clear \/ ClearRunIDs \/ Close
            \/ CompactRead \/ CompactFails \/ WriteCompacted
  BY <1>3, <1>11 DEF Create, Clear, ClearRunIDs, Close, CompactRead, CompactFails, WriteCompacted
<1>12. QED
  BY <1>4, <1>5, <1>6, <1>7, <1>8, <1>9, <1>10, <1>11 DEF Next

-----------------------------------------------------------------------------
(* The session and the handlers.                                            *)

\* A step that leaves the session and the handlers' copies of it alone.
LEMMA MetaFrame ==
    ASSUME IInv, Next, UNCHANGED <<mem, meta, overlapped, overClose>>,
           clearing' => clearing \/ "clear" \in ToSet(events'),
           InFlight' = InFlight, Done' = Done, Current = Absent => UNCHANGED slot,
           \A s \in InFlight : slot'[s].sess = slot[s].sess
    PROVE  MetaOK' /\ HandlersOK'
<1>1. MetaOK /\ HandlersOK
  BY DEF IInv
<1>2. ToSet(events) \subseteq ToSet(events')
  BY Monotone
<1>3. Current' = Current /\ (Readable(Current))' = Readable(Current)
      /\ (Readable(meta))' = Readable(meta) /\ (Readable(mem))' = Readable(mem)
  BY DEF Current, Readable
<1>4. MetaOK'
  BY <1>1, <1>2, <1>3 DEF MetaOK, Crashed, MetaMatches, RunIDsComplete, Done
<1>5. HandlersOK'
  BY <1>1, <1>2, <1>3 DEF HandlersOK
<1>6. QED
  BY <1>4, <1>5

LEMMA MetaCreate ==
    ASSUME IInv, Next, Create
    PROVE  MetaOK' /\ HandlersOK'
<1>1. TypeOK /\ TypeOK' /\ MetaOK /\ HandlersOK
  BY TypeStep DEF IInv
<1>2. PICK mode \in Modes : mem' = [mode |-> mode, status |-> "active", runIDs |-> <<>>]
  BY DEF Create
<1>3. /\ mem' \in Sessions /\ meta' = mem' /\ mem' # Absent /\ mem' # Torn /\ Current' = mem'
      /\ mem'.status = "active" /\ mem'.runIDs = <<>>
  <2>1. mem'.mode = mode /\ mem'.status = "active" /\ mem'.runIDs = <<>> /\ mode \in {"chat", "one_shot"}
    BY <1>2
  <2>2. mem' # Absent /\ mem' # Torn
    BY <2>1 DEF Absent, Torn
  <2>3. mem' \in Sessions
    BY <1>1, <2>2 DEF TypeOK
  <2>4. QED
    BY <2>1, <2>2, <2>3 DEF Create, Current
<1>4. \A s \in Sends : slot[s].pc = "idle"
  BY <1>1 DEF MetaOK, Current, Create
<1>5. InFlight' = {} /\ Done' = {} /\ clearing' = clearing /\ events' = events
  BY <1>4 DEF Create, InFlight, Done
<1>6. ToSet(mem'.runIDs) = {}
  BY <1>3 DEF ToSet
<1>7. MetaOK'
  BY <1>1, <1>3, <1>5, <1>6 DEF MetaOK, MetaMatches, RunIDsComplete, Readable, Done
<1>8. HandlersOK'
  BY <1>5 DEF HandlersOK
<1>9. QED
  BY <1>7, <1>8

LEMMA MetaClearRunIDs ==
    ASSUME IInv, Next, ClearRunIDs
    PROVE  MetaOK' /\ HandlersOK'
<1>1. TypeOK /\ TypeOK' /\ MetaOK /\ HandlersOK
  BY TypeStep DEF IInv
<1>2. /\ clearing /\ ~clearing' /\ events' = events /\ meta' = meta /\ overlapped' = overlapped
      /\ overClose' = overClose /\ slot' = slot
      /\ mem' = IF mem = Absent THEN mem ELSE [mem EXCEPT !.runIDs = <<>>]
  BY DEF ClearRunIDs
<1>3. "clear" \in ToSet(events)
  BY <1>1, <1>2 DEF MetaOK
<1>4. CASE mem = Absent
  <2>1. UNCHANGED mem
    BY <1>2, <1>4
  <2>2. QED
    BY <1>2, <2>1, MetaFrame DEF InFlight, Done
<1>5. CASE mem # Absent
  <2>1. mem' = [mem EXCEPT !.runIDs = <<>>] /\ mem \in Sessions
    BY <1>1, <1>2, <1>5 DEF TypeOK
  <2>2. mem'.mode = mem.mode /\ mem'.status = mem.status /\ mem'.mode # "absent" /\ mem'.mode # "torn"
    BY <2>1 DEF Sessions
  <2>3. /\ mem' # Absent /\ Readable(mem)' /\ Current' = mem' /\ Current = mem
        /\ Readable(mem)
    BY <1>5, <2>1, <2>2, NotSessions DEF Current, Readable, Absent, Torn
  <2>4. InFlight' = InFlight /\ Done' = Done
    BY <1>2 DEF InFlight, Done
  <2>5. MetaOK'
    BY <1>1, <1>2, <1>3, <1>5, <2>2, <2>3, <2>4 DEF MetaOK, Crashed, MetaMatches, RunIDsComplete, Readable
  <2>6. HandlersOK'
    BY <1>1, <1>2, <1>3, <2>2, <2>3, <2>4 DEF HandlersOK, Readable
  <2>7. QED
    BY <2>5, <2>6
<1>6. QED
  BY <1>4, <1>5

LEMMA MetaClose ==
    ASSUME IInv, Next, Close
    PROVE  MetaOK' /\ HandlersOK'
<1>1. TypeOK /\ TypeOK' /\ MetaOK /\ HandlersOK
  BY TypeStep DEF IInv
<1>2. /\ Readable(Current) /\ mem' = [Current EXCEPT !.status = "closed"] /\ meta' = mem'
      /\ slot' = slot /\ overClose' = InFlight /\ clearing' = clearing /\ overlapped' = overlapped
  BY DEF Close, Stored, WriteMeta
<1>3. Current \in Sessions
  BY <1>1, <1>2, CurrentType
<1>4. mem'.mode = Current.mode /\ mem'.status = "closed" /\ mem'.runIDs = Current.runIDs
      /\ mem'.mode # "absent" /\ mem'.mode # "torn"
  BY <1>2, <1>3 DEF Sessions
<1>5. mem' # Absent /\ mem' # Torn /\ Current' = mem'
  BY <1>4 DEF Current, Absent, Torn
<1>6. InFlight' = InFlight /\ Done' = Done
  BY <1>2 DEF InFlight, Done
<1>7. ToSet(events) \subseteq ToSet(events')
  BY Monotone
<1>8. MetaOK'
  BY <1>1, <1>2, <1>4, <1>5, <1>6, <1>7 DEF MetaOK, MetaMatches, RunIDsComplete, Readable, Done
<1>9. HandlersOK'
  BY <1>1, <1>2, <1>4, <1>5, <1>6, <1>7 DEF HandlersOK, Readable
<1>10. QED
  BY <1>8, <1>9

\* What the file held is found again, but for the run ids after a clear.
LEMMA MetaCrash ==
    ASSUME IInv, Next, Crash
    PROVE  MetaOK' /\ HandlersOK'
<1>1. TypeOK /\ MetaOK /\ HandlersOK
  BY DEF IInv
<1>2. /\ mem' = Absent /\ ~clearing' /\ overlapped' = overlapped /\ overClose' = overClose
      /\ slot' = [s \in Sends |-> IF s \in InFlight THEN NoLocals("lost") ELSE slot[s]]
      /\ meta' = meta \/ meta' = Torn
  BY DEF Crash, TornMeta
<1>3. Current' = meta' /\ ~Readable(mem)'
  BY <1>2 DEF Current, Readable
<1>4. InFlight' = {} /\ Done' = Done
  BY <1>1, <1>2 DEF InFlight, Done, NoLocals, TypeOK
<1>5. ToSet(events) \subseteq ToSet(events') /\ Crashed'
  <2>1. events \in Seq({"clear", "close", "compact", "crash"}) /\ events' = Append(events, "crash")
    BY <1>1 DEF Crash, Happens, TypeOK
  <2>2. Len(events) + 1 \in DOMAIN events' /\ events'[Len(events) + 1] = "crash"
    BY <2>1
  <2>3. QED
    BY <2>2, Monotone DEF Crashed, ToSet
<1>6. ASSUME Readable(meta')
      PROVE  /\ meta' = meta /\ Readable(Current)
             /\ Current.status = meta.status /\ Current.mode = meta.mode
             /\ "clear" \notin ToSet(events) => Current.runIDs = meta.runIDs
  <2>1. meta' = meta /\ Readable(meta)
    BY <1>2, <1>6 DEF Readable
  <2>2. CASE mem = Absent
    BY <2>1, <2>2 DEF Current
  <2>3. CASE mem # Absent
    <3>1. Readable(mem) /\ Current = mem
      BY <1>1, <2>3, CurrentType DEF Current
    <3>2. QED
      BY <1>1, <2>1, <3>1 DEF MetaOK, MetaMatches
  <2>4. QED
    BY <2>1, <2>2, <2>3
<1>7. ASSUME Current' = Absent
      PROVE  \A s \in Sends : slot'[s].pc = "idle"
  <2>1. meta = Absent
    BY <1>2, <1>3, <1>7, NotSessions
  <2>2. Current = Absent
    BY <1>1, <2>1 DEF MetaOK, Readable, Current
  <2>3. \A s \in Sends : slot[s].pc = "idle"
    BY <1>1, <2>2 DEF MetaOK
  <2>4. QED
    BY <1>2, <2>3 DEF InFlight
<1>8. RunIDsComplete'
  BY <1>1, <1>2, <1>3, <1>4, <1>5, <1>6 DEF MetaOK, RunIDsComplete, Done
<1>9. MetaOK'
  BY <1>2, <1>3, <1>5, <1>7, <1>8 DEF MetaOK, MetaMatches
<1>10. HandlersOK'
  BY <1>1, <1>2, <1>3, <1>4, <1>6 DEF HandlersOK
<1>11. QED
  BY <1>9, <1>10

LEMMA MetaGet ==
    ASSUME IInv, Next, NEW s \in Sends, Get(s)
    PROVE  MetaOK' /\ HandlersOK'
<1>1. TypeOK /\ MetaOK /\ HandlersOK /\ slot \in [Sends -> Slots] /\ slot[s] \in Slots
  BY DEF IInv, TypeOK
<1>2. /\ slot[s].pc = "idle" /\ Current # Absent /\ UNCHANGED <<mem, meta, clearing, events, overClose>>
      /\ overlapped' = (overlapped \/ (Accepts /\ InFlight # {}))
  BY DEF Get
<1>3. Current' = Current /\ ToSet(events') = ToSet(events)
  BY <1>2 DEF Current
<1>4. CASE Accepts
  <2> DEFINE new == [slot[s] EXCEPT !.pc = "got", !.sess = Current]
  <2>1. slot' = [slot EXCEPT ![s] = new]
    BY <1>4 DEF Get, SetSlot
  <2>2. new.pc = "got" /\ new.sess = Current
    BY <1>1 DEF Slots
  <2> HIDE DEF new
  <2>3. /\ slot'[s] = new /\ \A t \in Sends : t # s => slot'[t] = slot[t]
    BY <1>1, <2>1
  <2>4. InFlight' = InFlight \cup {s} /\ Done' = Done /\ s \notin InFlight
    BY <1>2, <2>2, <2>3 DEF InFlight, Done
  <2>5. Readable(Current) /\ Current \in Sessions /\ Current.status # "closed"
    BY <1>1, <1>4, CurrentType DEF Accepts
  <2>6. overlapped' = (overlapped \/ InFlight # {})
    BY <1>2, <1>4
  <2>7. MetaOK'
    BY <1>1, <1>2, <1>3, <2>4, <2>6 DEF MetaOK, Crashed, MetaMatches, RunIDsComplete, Done
  <2>8. ASSUME NEW t \in InFlight'
        PROVE  slot'[t].sess \in Sessions /\ slot'[t].sess.mode = Current.mode
    BY <1>1, <2>2, <2>3, <2>4, <2>5, <2>8 DEF HandlersOK, InFlight
  <2>9. ASSUME ~overlapped'
        PROVE  /\ ~overlapped /\ InFlight' = {s}
               /\ "clear" \notin ToSet(events) => ToSet(slot'[s].sess.runIDs) = Done
    BY <1>1, <2>2, <2>3, <2>4, <2>5, <2>6, <2>9 DEF MetaOK, RunIDsComplete, Done
  <2>10. ASSUME ~overlapped', Current.mode = "one_shot"
         PROVE  Done = {}
    BY <1>1, <2>5, <2>9, <2>10 DEF HandlersOK
  <2>11. HandlersOK'
    BY <1>3, <2>4, <2>5, <2>8, <2>9, <2>10 DEF HandlersOK
  <2>12. QED
    BY <2>7, <2>11
<1>5. CASE ~Accepts
  <2> DEFINE new == [slot[s] EXCEPT !.pc = "refused"]
  <2>1. slot' = [slot EXCEPT ![s] = new] /\ new.pc = "refused"
    BY <1>1, <1>5 DEF Get, SetSlot, Slots
  <2> HIDE DEF new
  <2>2. /\ slot'[s] = new /\ \A t \in Sends : t # s => slot'[t] = slot[t]
    BY <1>1, <2>1
  <2>3. InFlight' = InFlight /\ Done' = Done /\ s \notin InFlight /\ UNCHANGED overlapped
    BY <1>1, <1>2, <1>5, <2>1, <2>2 DEF InFlight, Done, TypeOK
  <2>4. \A t \in InFlight : slot'[t].sess = slot[t].sess
    BY <2>2, <2>3 DEF InFlight
  <2>5. QED
    BY <1>2, <2>3, <2>4, MetaFrame
<1>6. QED
  BY <1>4, <1>5

LEMMA MetaMoves ==
    ASSUME IInv, Next, NEW s \in Sends, NEW new, SetSlot(s, new), s \in InFlight,
           new.pc \in {"got", "read", "running", "ended", "saved"}, new.sess = slot[s].sess,
           UNCHANGED <<mem, meta, overlapped, overClose, clearing>>
    PROVE  MetaOK' /\ HandlersOK'
<1>1. slot \in [Sends -> Slots] /\ HandlersOK
  BY DEF IInv, TypeOK
<1>2. slot'[s] = new /\ \A t \in Sends : t # s => slot'[t] = slot[t]
  BY <1>1 DEF SetSlot
<1>3. InFlight' = InFlight /\ Done' = Done /\ \A t \in InFlight : slot'[t].sess = slot[t].sess
  BY <1>2 DEF InFlight, Done
<1>4. Current # Absent
  BY <1>1 DEF HandlersOK, Readable
<1>5. QED
  BY <1>3, <1>4, MetaFrame

LEMMA MetaUpdate ==
    ASSUME IInv, Next, NEW s \in Sends, Update(s)
    PROVE  MetaOK' /\ HandlersOK'
<1>1. TypeOK /\ TypeOK' /\ MetaOK /\ HandlersOK /\ slot \in [Sends -> Slots]
  BY TypeStep DEF IInv, TypeOK
<1> DEFINE sess == slot[s].sess
           ids == Append(sess.runIDs, s)
           status == StatusAfter(sess.mode)
<1>2. s \in InFlight /\ slot[s].pc = "saved"
  BY DEF Update, InFlight
<1>3. sess \in Sessions /\ Readable(Current) /\ sess.mode = Current.mode
  BY <1>1, <1>2 DEF HandlersOK
<1>4. ids \in Seq(Sends) /\ ToSet(ids) = ToSet(sess.runIDs) \cup {s}
  <2> DEFINE q == sess.runIDs
  <2>1. q \in Seq(Sends)
    BY <1>3 DEF Sessions
  <2> HIDE DEF q
  <2>2. /\ Append(q, s) \in Seq(Sends) /\ DOMAIN Append(q, s) = DOMAIN q \cup {Len(q) + 1}
        /\ \A i \in DOMAIN q : Append(q, s)[i] = q[i]
        /\ Append(q, s)[Len(q) + 1] = s
    BY <2>1
  <2>3. ToSet(Append(q, s)) = ToSet(q) \cup {s}
    BY <2>2 DEF ToSet
  <2>4. QED
    BY <2>2, <2>3 DEF q
<1>5. /\ mem' = [sess EXCEPT !.runIDs = ids, !.status = status] /\ meta' = mem'
      /\ SetSlot(s, NoLocals("done"))
      /\ UNCHANGED <<clearing, events, overlapped, overClose>>
  BY DEF Update, Stored, WriteMeta
<1>6. status = (IF sess.mode = "one_shot" THEN "closed" ELSE "waiting_for_input")
  BY DEF StatusAfter
<1> HIDE DEF ids, status
<1>7. /\ mem'.mode = sess.mode /\ mem'.status = status /\ mem'.runIDs = ids
      /\ mem'.mode \in {"chat", "one_shot"}
  BY <1>3, <1>5 DEF Sessions
<1>8. mem' # Absent /\ mem' # Torn /\ Current' = mem'
  BY <1>7 DEF Current, Absent, Torn
<1>9. slot'[s] = NoLocals("done") /\ \A t \in Sends : t # s => slot'[t] = slot[t]
  BY <1>1, <1>5 DEF SetSlot
<1>10. /\ InFlight' = InFlight \ {s} /\ Done' = Done \cup {s}
       /\ \A t \in InFlight' : slot'[t] = slot[t] /\ t \in InFlight
  BY <1>9, NoLocalsSlots DEF InFlight, Done
<1>11. ASSUME ~overlapped
       PROVE  /\ InFlight' = {}
              /\ "clear" \notin ToSet(events) => ToSet(ids) = Done'
              /\ sess.mode = "one_shot" => Done = {}
  <2>1. InFlight = {s}
    BY <1>1, <1>2, <1>11 DEF HandlersOK
  <2>2. "clear" \notin ToSet(events) => ToSet(sess.runIDs) = Done
    BY <1>1, <1>2, <1>11 DEF HandlersOK
  <2>3. sess.mode = "one_shot" => Done = {}
    BY <1>1, <1>2, <1>3, <1>11 DEF HandlersOK
  <2>4. QED
    BY <1>4, <1>10, <2>1, <2>2, <2>3
<1>12. MetaOK'
  BY <1>1, <1>5, <1>7, <1>8, <1>11 DEF MetaOK, MetaMatches, RunIDsComplete, Readable, Done
<1>13. \A t \in InFlight' : slot'[t].sess \in Sessions /\ slot'[t].sess.mode = mem'.mode
  BY <1>1, <1>3, <1>7, <1>10 DEF HandlersOK
<1>14. (Readable(Current))'
  BY <1>8 DEF Readable
<1>15. ASSUME ~overlapped'
       PROVE  /\ \A t, u \in InFlight' : t = u
              /\ "clear" \notin ToSet(events') => \A t \in InFlight' : ToSet(slot'[t].sess.runIDs) = Done'
              /\ mem'.mode = "one_shot" =>
                    mem'.status = "closed" /\ InFlight' = {} /\ \E t \in Sends : Done' = {t}
  BY <1>5, <1>6, <1>7, <1>10, <1>11, <1>15
<1>16. mem'.mode = "chat" => mem'.status # "closed"
  BY <1>6, <1>7
<1>17. HandlersOK'
  BY <1>8, <1>13, <1>14, <1>15, <1>16 DEF HandlersOK
<1>18. QED
  BY <1>12, <1>17

LEMMA MetaStep ==
    ASSUME IInv, Next
    PROVE  MetaOK' /\ HandlersOK'
<1>1. TypeOK /\ slot \in [Sends -> Slots]
  BY DEF IInv, TypeOK
<1>2. CASE Clear
  <2>1. events \in Seq({"clear", "close", "compact", "crash"}) /\ events' = Append(events, "clear")
    BY <1>1, <1>2 DEF Clear, Happens, TypeOK
  <2>2. Len(events) + 1 \in DOMAIN events' /\ events'[Len(events) + 1] = "clear"
    BY <2>1
  <2>3. "clear" \in ToSet(events')
    BY <2>2 DEF ToSet
  <2>4. QED
    BY <1>2, <2>3, MetaFrame DEF Clear, InFlight, Done
<1>3. CASE CompactRead \/ CompactFails \/ WriteCompacted
  BY <1>3, MetaFrame DEF CompactRead, CompactFails, WriteCompacted, InFlight, Done
<1>4. ASSUME NEW s \in Sends, ReadHistory(s)
      PROVE  MetaOK' /\ HandlersOK'
  <2> DEFINE x == Fresh(ReadMessages)
             new == [slot[s] EXCEPT !.pc = "read", !.x = x]
  <2>1. SetSlot(s, new) /\ slot[s].pc = "got" /\ UNCHANGED <<mem, meta, overlapped, overClose, clearing>>
    BY <1>4 DEF ReadHistory
  <2> HIDE DEF x
  <2>2. new.pc = "read" /\ new.sess = slot[s].sess
    BY <1>1 DEF Slots
  <2> HIDE DEF new
  <2>3. QED
    BY <2>1, <2>2, MetaMoves DEF InFlight
<1>5. ASSUME NEW s \in Sends, AppendPrompt(s)
      PROVE  MetaOK' /\ HandlersOK'
  <2> DEFINE msgs == Append(slot[s].x.msgs, Prompt(s))
             x == Fresh(msgs)
             n == Len(msgs)
             new == [slot[s] EXCEPT !.pc = "running", !.x = x, !.prefill = n]
  <2>1. SetSlot(s, new) /\ slot[s].pc = "read" /\ UNCHANGED <<mem, meta, overlapped, overClose, clearing>>
    BY <1>5 DEF AppendPrompt
  <2> HIDE DEF x, n
  <2>2. new.pc = "running" /\ new.sess = slot[s].sess
    BY <1>1 DEF Slots
  <2> HIDE DEF new
  <2>3. QED
    BY <2>1, <2>2, MetaMoves DEF InFlight
<1>6. ASSUME NEW s \in Sends, Iterate(s)
      PROVE  MetaOK' /\ HandlersOK'
  <2>1. PICK y \in Iterations(slot[s].x, s, MaxSteps, MaxUses, Compaction) :
          SetSlot(s, IF GoesOn(y)
                     THEN [slot[s] EXCEPT !.x = y]
                     ELSE [slot[s] EXCEPT !.pc = "ended", !.x = Fresh(<<>>), !.prefill = 0,
                                          !.new = NewMessages(y, slot[s].prefill, s),
                                          !.ending = {Ending(y, s)}])
    BY <1>6 DEF Iterate
  <2> DEFINE more == [slot[s] EXCEPT !.x = y]
             f == Fresh(<<>>)
             q == NewMessages(y, slot[s].prefill, s)
             e == {Ending(y, s)}
             over == [slot[s] EXCEPT !.pc = "ended", !.x = f, !.prefill = 0, !.new = q,
                                     !.ending = e]
             new == IF GoesOn(y) THEN more ELSE over
  <2>2. SetSlot(s, new) /\ slot[s].pc = "running" /\ UNCHANGED <<mem, meta, overlapped, overClose, clearing>>
    BY <1>6, <2>1 DEF Iterate
  <2> HIDE DEF f, q, e
  <2>3. more.pc = slot[s].pc /\ more.sess = slot[s].sess /\ over.pc = "ended" /\ over.sess = slot[s].sess
    BY <1>1 DEF Slots
  <2> HIDE DEF more, over
  <2>4. new.pc \in {"running", "ended"} /\ new.sess = slot[s].sess
    BY <2>2, <2>3
  <2> HIDE DEF new
  <2>5. QED
    BY <2>2, <2>4, MetaMoves DEF InFlight
<1>7. ASSUME NEW s \in Sends, SaveMessages(s)
      PROVE  MetaOK' /\ HandlersOK'
  <2> DEFINE new == [slot[s] EXCEPT !.pc = "saved", !.new = <<>>, !.ending = {}]
  <2>1. SetSlot(s, new) /\ slot[s].pc = "ended" /\ UNCHANGED <<mem, meta, overlapped, overClose, clearing>>
    BY <1>7 DEF SaveMessages
  <2>2. new.pc = "saved" /\ new.sess = slot[s].sess
    BY <1>1 DEF Slots
  <2> HIDE DEF new
  <2>3. QED
    BY <2>1, <2>2, MetaMoves DEF InFlight
<1>8. QED
  BY <1>2, <1>3, <1>4, <1>5, <1>6, <1>7, MetaCreate, MetaClearRunIDs, MetaClose, MetaCrash,
     MetaGet, MetaUpdate DEF Next

-----------------------------------------------------------------------------
(* The theorems.                                                            *)

LEMMA InvInit == Init => IInv
<1> SUFFICES ASSUME Init PROVE IInv
  OBVIOUS
<1>1. \A s \in Sends : slot[s].pc = "idle"
  BY DEF Init, NoLocals
<1>2. ThreadOK
  <2>1. Plain(thread)
    BY DEF Init, Plain
  <2>2. QED
    BY <2>1, PlainKeeps DEF Init, ThreadOK, RepliesKept
<1>3. \A s \in Sends : RunningOK(s) /\ EndedOK(s)
  BY <1>1 DEF RunningOK, EndedOK
<1>4. InFlight = {} /\ Done = {}
  BY <1>1 DEF InFlight, Done
<1>5. ~Readable(Current) /\ mem = Absent /\ meta # Torn /\ ~clearing /\ ~Readable(mem)
  BY NotSessions DEF Init, Current, Readable
<1>6. MetaOK /\ HandlersOK
  BY <1>1, <1>4, <1>5 DEF MetaOK, HandlersOK, MetaMatches, RunIDsComplete
<1>7. QED
  BY <1>2, <1>3, <1>6, TypeInit DEF IInv

LEMMA InvStep == IInv /\ [Next]_vars => IInv'
<1> SUFFICES ASSUME IInv, [Next]_vars PROVE IInv'
  OBVIOUS
<1>1. CASE Next
  BY <1>1, TypeStep, ThreadStep, RunsStep, MetaStep DEF IInv
<1>2. CASE UNCHANGED vars
  <2>1. ThreadOK' /\ TypeOK'
    BY <1>2 DEF vars, IInv, ThreadOK, TypeOK, Gone, Prompted, RepliesKept, Crashed
  <2>2. \A s \in Sends : RunningOK(s)' /\ EndedOK(s)'
    BY <1>2 DEF vars, IInv, RunningOK, EndedOK
  <2>3. MetaOK' /\ HandlersOK'
    BY <1>2 DEF vars, IInv, MetaOK, HandlersOK, MetaMatches, RunIDsComplete, Current, InFlight,
                Done, Crashed
  <2>4. QED
    BY <2>1, <2>2, <2>3 DEF IInv
<1>3. QED
  BY <1>1, <1>2

\* The strengthening holds in every state: what is in the thread, what the runs under way
\* have added, the session in memory and on disk, and the copies of it the handlers hold.
THEOREM InductiveInvariant == Spec => []IInv
<1>1. QED
  BY InvInit, InvStep, PTL DEF Spec

\* Every variable keeps its shape, however many sends overlap.
THEOREM TypeCorrect == Spec => []TypeOK
<1>1. IInv => TypeOK
  BY DEF IInv
<1>2. QED
  BY <1>1, InductiveInvariant, PTL

\* What ReadMessages returns is a history in which every tool call is followed by its
\* results, whatever overlapping sends, clears, compactions, failed runs and crashes have
\* left in the thread; and a tool call is left there without its result only by a crash,
\* by a run that was compacted, by a reply that has calls and yet ends the turn, or by one
\* that has calls and a stop reason the loop has no case for.
THEOREM HistoryAlwaysSound == Spec => []HistorySound
<1>1. ASSUME IInv
      PROVE  HistorySound
  <2>1. thread \in Seq(Lines) /\ ThreadOK
    BY <1>1 DEF IInv, TypeOK
  <2>2. HistoryPaired
    BY <2>1, TrimPaired DEF HistoryPaired, ReadMessages, ThreadOK
  <2>3. OrphansExplained
    <3>1. CASE Complete(thread, 0)
      BY <2>1, <3>1, CompleteHasNoOrphans DEF OrphansExplained
    <3>2. CASE Crashed \/ Loose(kept)
      BY <3>2 DEF OrphansExplained, Crashed, Loose
    <3>3. QED
      BY <2>1, <3>1, <3>2 DEF ThreadOK
  <2>4. QED
    BY <2>2, <2>3 DEF HistorySound
<1>2. QED
  BY <1>1, InductiveInvariant, PTL

\* The last reply of a run that was saved is in the thread until session.clear or
\* session.compact erases it, also when the run compacted its own history and when other
\* sends and crashes have written since.
THEOREM SavedRepliesKept == Spec => []RepliesKept
<1>1. IInv => RepliesKept
  BY DEF IInv, ThreadOK
<1>2. QED
  BY <1>1, InductiveInvariant, PTL

\* A session vanishes from session.list only by a crash; a restart finds the status and
\* the run ids that were in memory; without overlap and clears the session holds the id of
\* every answered run; and a one_shot session answers one run.
THEOREM MetaAlwaysTrue == Spec => []MetaTrue
<1>1. ASSUME IInv
      PROVE  MetaTrue
  <2>1. TypeOK /\ MetaOK /\ HandlersOK
    BY <1>1 DEF IInv
  <2>2. NeverVanishes
    <3> SUFFICES ASSUME List = {}, Current # Absent
                 PROVE  Crashed
      BY DEF NeverVanishes, Crashed
    <3>1. mem = Absent /\ Current = meta
      BY DEF List, Current
    <3>2. ~Readable(meta)
      BY <3>1 DEF List, OnDisk
    <3>3. QED
      BY <2>1, <3>1, <3>2 DEF Readable, MetaOK
  <2>3. OneShotRunsOnce
    <3> SUFFICES ASSUME Readable(Current), Current.mode = "one_shot", ~overlapped
                 PROVE  Cardinality(Done) <= 1
      BY DEF OneShotRunsOnce, Done
    <3>1. Done = {} \/ \E s \in Sends : Done = {s}
      BY <2>1 DEF HandlersOK
    <3>2. Cardinality(Done) = 0 \/ Cardinality(Done) = 1
      BY <3>1, FS_EmptySet, FS_Singleton
    <3>3. QED
      BY <3>2
  <2>4. QED
    BY <2>1, <2>2, <2>3 DEF MetaTrue, MetaOK
<1>2. QED
  BY <1>1, InductiveInvariant, PTL

\* A step that takes a session from closed to open is the Update of a run that was in
\* flight at the last close.
LEMMA ReopenStep ==
    ASSUME IInv, Next, Readable(Current), Current.status = "closed", Readable(Current'),
           Current'.status # "closed"
    PROVE  \E s \in overClose : slot[s].pc = "saved" /\ slot'[s].pc = "done"
<1>1. TypeOK /\ MetaOK /\ HandlersOK /\ slot \in [Sends -> Slots] /\ Current \in Sessions
  BY CurrentType DEF IInv, TypeOK
<1>2. ~(UNCHANGED <<mem, meta>>)
  BY DEF Current
<1>3. CASE Create
  BY <1>1, <1>3 DEF Create, Current, Readable
<1>4. CASE ClearRunIDs
  <2>1. mem # Absent /\ mem \in Sessions /\ mem' = [mem EXCEPT !.runIDs = <<>>]
    BY <1>1, <1>2, <1>4 DEF ClearRunIDs, TypeOK
  <2>2. mem'.status = mem.status /\ mem'.mode \in {"chat", "one_shot"}
    BY <2>1 DEF Sessions
  <2>3. Current = mem /\ Current' = mem'
    BY <2>1, <2>2 DEF Current, Absent
  <2>4. QED
    BY <2>2, <2>3
<1>5. CASE Close
  <2>1. mem' = [Current EXCEPT !.status = "closed"]
    BY <1>5 DEF Close, Stored
  <2>2. mem'.status = "closed" /\ mem'.mode \in {"chat", "one_shot"}
    BY <1>1, <2>1 DEF Sessions
  <2>3. Current' = mem'
    BY <2>2 DEF Current, Absent
  <2>4. QED
    BY <2>2, <2>3
<1>6. CASE Crash
  <2>1. mem' = Absent /\ (meta' = meta \/ meta' = Torn)
    BY <1>6 DEF Crash, TornMeta
  <2>2. Current' = meta /\ Readable(meta)
    BY <2>1 DEF Current, Readable
  <2>3. mem # Absent /\ Current = mem
    BY <2>2 DEF Current
  <2>4. mem.status = meta.status
    BY <1>1, <2>2, <2>3 DEF MetaOK, MetaMatches
  <2>5. QED
    BY <2>2, <2>3, <2>4
<1>7. ASSUME NEW s \in Sends, Update(s)
      PROVE  s \in overClose /\ slot[s].pc = "saved" /\ slot'[s].pc = "done"
  <2> DEFINE sess == slot[s].sess
             ids == Append(sess.runIDs, s)
             status == StatusAfter(sess.mode)
  <2>1. s \in InFlight /\ slot[s].pc = "saved" /\ slot'[s] = NoLocals("done")
    BY <1>1, <1>7 DEF Update, InFlight, SetSlot
  <2>2. sess \in Sessions /\ sess.mode = Current.mode
    BY <1>1, <2>1 DEF HandlersOK
  <2>3. mem' = [sess EXCEPT !.runIDs = ids, !.status = status]
    BY <1>7 DEF Update, Stored
  <2> HIDE DEF ids, status
  <2>4. mem'.status = status /\ mem'.mode = sess.mode /\ sess.mode \in {"chat", "one_shot"}
    BY <2>2, <2>3 DEF Sessions
  <2>5. Current' = mem'
    BY <2>4 DEF Current, Absent
  <2>6. sess.mode = "chat"
    BY <2>4, <2>5 DEF status, StatusAfter
  <2>7. InFlight \subseteq overClose
    BY <1>1, <2>2, <2>6 DEF HandlersOK
  <2>8. QED
    BY <2>1, <2>7, NoLocalsSlots
<1>8. CASE \/ Clear \/ CompactRead \/ CompactFails \/ WriteCompacted
           \/ \E s \in Sends : \/ Get(s) \/ ReadHistory(s) \/ AppendPrompt(s)
                               \/ Iterate(s) \/ SaveMessages(s)
  BY <1>2, <1>8 DEF Clear, CompactRead, CompactFails, WriteCompacted, Get, ReadHistory,
                    AppendPrompt, Iterate, SaveMessages
<1>9. QED
  BY <1>3, <1>4, <1>5, <1>6, <1>7, <1>8 DEF Next

\* A closed session is opened again only when the Update of a run that was in flight at the
\* close writes the status it computed; clears, compactions, further sends and restarts
\* leave it closed.
THEOREM ClosedStaysClosed == Spec => ReopenedOnlyByOverlap
<1> DEFINE Reopens == Readable(Current) /\ Current.status = "closed" /\ Readable(Current')
                        /\ Current'.status # "closed"
           ByRun == \E s \in overClose : slot[s].pc = "saved" /\ slot'[s].pc = "done"
<1>1. IInv /\ [Next]_vars => [Reopens => ByRun]_vars
  BY ReopenStep
<1>2. Spec => [][Reopens => ByRun]_vars
  BY <1>1, InductiveInvariant, PTL DEF Spec
<1>3. QED
  BY <1>2 DEF ReopenedOnlyByOverlap
=============================================================================
