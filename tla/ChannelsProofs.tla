--------------------------- MODULE ChannelsProofs ---------------------------
(***************************************************************************)
(* Proofs about Channels, for any number of senders, updates and restarts,  *)
(* and buffers of any size.                                                 *)
(***************************************************************************)
EXTENDS Channels, SequenceTheorems, TLAPS

USE ChannelAssumption DEF ChannelAssumption, Updates, Nothing

-----------------------------------------------------------------------------
(* The inductive invariant.                                                 *)

\* Where the messages are: a sender's own queues, and those that all senders share.
Handled(s) == ToSet(handled[s])
Working(s) == ToSet(Held(worker[s].msg))
Queued(s)  == ToSet(queue[s])
Reading    == ToSet(Held(reader.msg))
Received   == ToSet(recv.buf)
Batch      == ToSet(poll.batch)
Shared     == Reading \cup Received \cup Batch
Own(s)     == Handled(s) \cup Working(s) \cup Queued(s)

Less(A, B) == \A u \in A, v \in B : u < v
Increasing(q) == \A i, j \in DOMAIN q : i < j => q[i] < q[j]

\* A goroutine holds a message only while it works on it.
HeldOK ==
    /\ reader.at = "dispatching" <=> reader.msg # Nothing
    /\ \A s \in Senders : worker[s].at = "processing" <=> worker[s].msg # Nothing

\* No queue overtakes another, and each sender's own queues hold his messages only.
OrderOK ==
    /\ Increasing(recv.buf) /\ Increasing(poll.batch)
    /\ Less(Reading, Received \cup Batch) /\ Less(Received, Batch)
    /\ \A s \in Senders :
          /\ Increasing(handled[s]) /\ Increasing(queue[s])
          /\ Less(Handled(s), Working(s) \cup Queued(s)) /\ Less(Working(s), Queued(s))
          /\ Less(Own(s), Shared)
          /\ Own(s) \subseteq Of(s)

\* What has been fetched in this life: all that was not confirmed, up to the offset of the
\* next poll, and nothing after it.
FetchedOK ==
    /\ Shared \subseteq fetched /\ \A s \in Senders : Own(s) \subseteq fetched
    /\ \A u \in fetched, w \in 1..arrived : confirmed < w /\ w <= u => w \in fetched
    /\ \A w \in 1..arrived : confirmed < w /\ (w < poll.offset \/ w < poll.next) => w \in fetched
    /\ poll.at \in {"asking", "waiting"} => poll.batch = <<>> /\ \A u \in fetched : u < poll.offset
    /\ poll.at = "delivering" => \A u \in fetched : u < poll.next \/ u \in Batch

\* Where each message is that this process has fetched, or the platform has forgotten.
KeptOK ==
    /\ process = "up" => \A s \in Senders : fetched \cap Of(s) \subseteq Handled(s) \cup InMemory(s)
    /\ process = "stopping" =>
          \A s \in Senders : fetched \cap Of(s) \subseteq Handled(s) \cup InMemory(s) \cup abandoned
    /\ \A s \in Senders : Handled(s) \subseteq done
    /\ \A u \in Texts \cap 1..confirmed :
          \/ u \in done \cup abandoned
          \/ process # "down" /\ u \in InMemory(SenderOf[u])

\* A message processed in an earlier life is forgotten by the platform, and not fetched
\* again, or it is unsettled.
SettledOK ==
    /\ again \subseteq unsettled
    /\ \A u \in done \ unsettled :
          \/ process # "down" /\ u \in Handled(SenderOf[u])
          \/ u <= confirmed /\ (process # "down" => u \notin fetched)

IInv == TypeOK /\ HeldOK /\ OrderOK /\ FetchedOK /\ KeptOK /\ SettledOK

-----------------------------------------------------------------------------
(* Rising queues.                                                           *)

LEMMA AppendSet ==
    ASSUME NEW S, NEW q \in Seq(S), NEW u, NEW t, t = Append(q, u)
    PROVE  \A x : x \in ToSet(t) <=> (x \in ToSet(q) \/ x = u)
<1>1. /\ DOMAIN q = 1..Len(q) /\ DOMAIN t = 1..(Len(q) + 1) /\ Len(q) \in Nat
      /\ t[Len(q) + 1] = u /\ \A i \in DOMAIN q : t[i] = q[i]
  OBVIOUS
<1>2. \A i \in DOMAIN t : i \in DOMAIN q \/ i = Len(q) + 1
  BY <1>1
<1>3. \A x \in ToSet(t) : x \in ToSet(q) \/ x = u
  BY <1>1, <1>2 DEF ToSet
<1>4. Len(q) + 1 \in DOMAIN t /\ \A i \in DOMAIN q : i \in DOMAIN t
  BY <1>1
<1>5. u \in ToSet(t) /\ \A x \in ToSet(q) : x \in ToSet(t)
  BY <1>1, <1>4 DEF ToSet
<1>6. QED
  BY <1>3, <1>5

LEMMA AppendRises ==
    ASSUME NEW S \in SUBSET Nat, NEW q \in Seq(S), NEW u \in S, Increasing(q), Less(ToSet(q), {u}),
           NEW t, t = Append(q, u)
    PROVE  t \in Seq(S) /\ Increasing(t) /\ Len(t) = Len(q) + 1
<1>1. /\ t \in Seq(S) /\ Len(t) = Len(q) + 1 /\ Len(q) \in Nat /\ t[Len(q) + 1] = u
      /\ DOMAIN q = 1..Len(q) /\ DOMAIN t = 1..(Len(q) + 1)
      /\ \A i \in DOMAIN q : t[i] = q[i]
  OBVIOUS
<1>2. \A i \in DOMAIN t : i \in DOMAIN q \/ i = Len(q) + 1
  BY <1>1
<1>4. \A i \in DOMAIN q : q[i] < u
  BY DEF Less, ToSet
<1>5. Increasing(t)
  <2> SUFFICES ASSUME NEW i \in DOMAIN t, NEW j \in DOMAIN t, i < j
               PROVE  t[i] < t[j]
    BY DEF Increasing
  <2>1. i \in DOMAIN q
    BY <1>1
  <2>2. CASE j \in DOMAIN q
    BY <1>1, <2>1, <2>2 DEF Increasing
  <2>3. CASE j = Len(q) + 1
    BY <1>1, <1>4, <2>1, <2>3
  <2>4. QED
    BY <1>2, <2>2, <2>3
<1>6. QED
  BY <1>1, <1>5

LEMMA TailSet ==
    ASSUME NEW S, NEW q \in Seq(S), q # <<>>, NEW h, h = Head(q), NEW t, t = Tail(q)
    PROVE  \A x : x \in ToSet(q) <=> (x = h \/ x \in ToSet(t))
<1>1. /\ DOMAIN q = 1..Len(q) /\ DOMAIN t = 1..(Len(q) - 1) /\ Len(q) \in Nat \ {0}
      /\ h = q[1] /\ \A i \in DOMAIN t : i + 1 \in DOMAIN q /\ t[i] = q[i + 1]
  OBVIOUS
<1>2. ASSUME NEW x \in ToSet(q), x # h
      PROVE  x \in ToSet(t)
  <2>1. PICK i \in DOMAIN q : q[i] = x
    BY DEF ToSet
  <2>2. i - 1 \in DOMAIN t /\ (i - 1) + 1 = i
    BY <1>1, <1>2, <2>1
  <2>3. t[i - 1] = x
    BY <1>1, <2>1, <2>2
  <2>4. QED
    BY <2>2, <2>3 DEF ToSet
<1>3. 1 \in DOMAIN q
  BY <1>1
<1>4. h \in ToSet(q) /\ \A x \in ToSet(t) : x \in ToSet(q)
  BY <1>1, <1>3 DEF ToSet
<1>5. QED
  BY <1>2, <1>4

LEMMA TailRises ==
    ASSUME NEW S \in SUBSET Nat, NEW q \in Seq(S), q # <<>>, Increasing(q),
           NEW h, h = Head(q), NEW t, t = Tail(q)
    PROVE  /\ h \in S /\ t \in Seq(S) /\ Increasing(t) /\ Len(t) = Len(q) - 1
           /\ Less({h}, ToSet(t))
<1>1. /\ t \in Seq(S) /\ Len(t) = Len(q) - 1 /\ Len(q) \in Nat \ {0} /\ h = q[1] /\ h \in S
      /\ DOMAIN q = 1..Len(q) /\ DOMAIN t = 1..(Len(q) - 1)
      /\ \A i \in DOMAIN t : i + 1 \in DOMAIN q /\ t[i] = q[i + 1]
  OBVIOUS
<1>3. 1 \in DOMAIN q
  BY <1>1
<1>5. Increasing(t)
  <2> SUFFICES ASSUME NEW i \in DOMAIN t, NEW j \in DOMAIN t, i < j
               PROVE  t[i] < t[j]
    BY DEF Increasing
  <2>1. i + 1 \in DOMAIN q /\ j + 1 \in DOMAIN q /\ i + 1 < j + 1
    BY <1>1
  <2>2. q[i + 1] < q[j + 1]
    BY <2>1 DEF Increasing
  <2>3. QED
    BY <1>1, <2>2
<1>6. \A i \in DOMAIN t : h < t[i]
  <2>1. ASSUME NEW i \in DOMAIN t
        PROVE  h < t[i]
    <3>1. i + 1 \in DOMAIN q /\ 1 < i + 1 /\ t[i] = q[i + 1]
      BY <1>1
    <3>2. QED
      BY <1>1, <1>3, <3>1 DEF Increasing
  <2>2. QED
    BY <2>1
<1>7. Less({h}, ToSet(t))
  BY <1>6 DEF Less, ToSet
<1>8. QED
  BY <1>1, <1>5, <1>7

LEMMA Consecutive ==
    ASSUME NEW c \in Nat, NEW a \in Nat, c <= a, a <= MaxUpdates
    PROVE  LET q == [k \in 1..(a - c) |-> c + k]
           IN  q \in Seq(Updates) /\ Increasing(q) /\ ToSet(q) = (c + 1)..a
<1> DEFINE n == a - c
           q == [k \in 1..n |-> c + k]
<1>1. n \in Nat /\ c + n = a /\ DOMAIN q = 1..n /\ \A k \in 1..n : q[k] = c + k
  OBVIOUS
<1>2. q \in Seq(Updates)
  <2>1. \A k \in 1..n : c + k \in Updates
    BY <1>1
  <2> HIDE DEF n
  <2>2. QED
    BY <1>1, <2>1
<1> HIDE DEF n, q
<1>3. Increasing(q)
  BY <1>1 DEF Increasing
<1>4. ASSUME NEW w \in (c + 1)..a
      PROVE  w \in ToSet(q)
  <2>1. w - c \in 1..n /\ c + (w - c) = w
    BY <1>1
  <2>2. QED
    BY <1>1, <2>1 DEF ToSet
<1>5. \A w \in ToSet(q) : w \in (c + 1)..a
  BY <1>1 DEF ToSet
<1>6. ToSet(q) = (c + 1)..a
  BY <1>4, <1>5
<1>7. QED
  BY <1>2, <1>3, <1>6 DEF q, n

LEMMA HeldSet ==
    ASSUME NEW m
    PROVE  /\ m = Nothing => ToSet(Held(m)) = {}
           /\ m # Nothing => ToSet(Held(m)) = {m}
BY DEF Held, ToSet

LEMMA EmptySet == ToSet(<<>>) = {} /\ Increasing(<<>>)
BY DEF ToSet, Increasing

LEMMA InMemoryIs ==
    /\ \A s \in Senders : InMemory(s) = Of(s) \cap (Working(s) \cup Queued(s) \cup Shared)
    /\ \A s \in Senders : InMemory(s)' = Of(s) \cap (Working(s)' \cup Queued(s)' \cup Shared')
BY DEF InMemory, Working, Queued, Shared, Reading, Received, Batch

LEMMA OfSenders ==
    /\ \A u \in Texts : SenderOf[u] \in Senders /\ u \in Of(SenderOf[u])
    /\ \A s \in Senders : \A u \in Of(s) : u \in Texts /\ SenderOf[u] = s
    /\ Texts \subseteq Nat
BY DEF Of

LEMMA NoTextIsNothing == Nothing \notin Texts
OBVIOUS

\* A step after which every message is where it was, or on its way to the same worker.
LEMMA SameMemory ==
    ASSUME TypeOK, KeptOK, SettledOK,
           UNCHANGED <<confirmed, process, fetched, handled, done, again, abandoned, unsettled>>,
           \A s \in Senders : InMemory(s)' = InMemory(s)
    PROVE  KeptOK' /\ SettledOK'
<1>1. \A s \in Senders : Handled(s)' = Handled(s)
  BY DEF Handled
<1>2. KeptOK'
  BY <1>1, OfSenders DEF KeptOK
<1>3. \A u \in done : SenderOf[u] \in Senders
  BY OfSenders DEF TypeOK
<1>4. SettledOK'
  BY <1>1, <1>3 DEF SettledOK
<1>5. QED
  BY <1>2, <1>4

\* A step that moves no message.
LEMMA SameQueues ==
    ASSUME IInv, UNCHANGED <<reader, recv, queue, worker, handled>>, poll'.batch = poll.batch
    PROVE  /\ HeldOK' /\ OrderOK'
           /\ Reading' = Reading /\ Received' = Received /\ Batch' = Batch /\ Shared' = Shared
           /\ \A s \in Senders : /\ Handled(s)' = Handled(s) /\ Own(s)' = Own(s)
                                 /\ InMemory(s)' = InMemory(s)
<1>1. /\ Reading' = Reading /\ Received' = Received /\ Batch' = Batch /\ Shared' = Shared
      /\ \A s \in Senders : /\ Handled(s)' = Handled(s) /\ Working(s)' = Working(s)
                            /\ Queued(s)' = Queued(s) /\ Own(s)' = Own(s)
  BY DEF Reading, Received, Batch, Shared, Handled, Working, Queued, Own
<1>2. HeldOK'
  BY DEF IInv, HeldOK
<1>3. OrderOK'
  BY <1>1 DEF IInv, OrderOK
<1>4. QED
  BY <1>1, <1>2, <1>3, InMemoryIs

\* A step that fetches nothing and goes on with what was fetched.
LEMMA SameFetched ==
    ASSUME TypeOK, FetchedOK, UNCHANGED <<arrived, fetched>>, confirmed' \in Nat,
           confirmed <= confirmed', Shared' = Shared, Batch' = Batch,
           \A s \in Senders : Own(s)' = Own(s),
           poll'.offset = poll.offset, poll'.next = poll.next, poll'.batch = poll.batch,
           poll'.at \in {"asking", "waiting"} => poll.at \in {"asking", "waiting"},
           poll'.at = "delivering" => poll.at = "delivering"
    PROVE  FetchedOK'
<1>1. confirmed \in Nat /\ arrived \in Nat
  BY DEF TypeOK
<1>2. Shared' \subseteq fetched' /\ \A s \in Senders : Own(s)' \subseteq fetched'
  BY DEF FetchedOK
<1>3. /\ \A u \in fetched', w \in 1..arrived' : confirmed' < w /\ w <= u => w \in fetched'
      /\ \A w \in 1..arrived' :
            confirmed' < w /\ (w < poll'.offset \/ w < poll'.next) => w \in fetched'
  <2>1. \A w \in 1..arrived : confirmed' < w => confirmed < w
    BY <1>1
  <2>2. QED
    BY <2>1 DEF FetchedOK
<1>4. /\ poll'.at \in {"asking", "waiting"} =>
            poll'.batch = <<>> /\ \A u \in fetched' : u < poll'.offset
      /\ poll'.at = "delivering" => \A u \in fetched' : u < poll'.next \/ u \in Batch'
  BY DEF FetchedOK
<1>5. QED
  BY <1>2, <1>3, <1>4 DEF FetchedOK

-----------------------------------------------------------------------------
(* The poll.                                                                *)

LEMMA ArriveKeeps ==
    ASSUME IInv, Arrive
    PROVE  IInv'
<1> USE DEF platform, past
<1>1. /\ TypeOK /\ arrived \in Nat /\ arrived' = arrived + 1 /\ arrived < MaxUpdates
      /\ UNCHANGED <<confirmed, process, poll, recv, reader, queue, worker, past>>
  <2>1. TypeOK
    BY DEF IInv
  <2>2. arrived \in Nat
    BY <2>1 DEF TypeOK
  <2>3. QED
    BY <2>1, <2>2 DEF Arrive
<1>2. TypeOK'
  <2>1. /\ arrived' \in 0..MaxUpdates /\ confirmed \in 0..arrived'
        /\ poll.offset <= arrived' + 1 /\ poll.next <= arrived' + 1 /\ fetched \subseteq 1..arrived'
    BY <1>1 DEF TypeOK
  <2>2. QED
    BY <1>1, <2>1 DEF TypeOK
<1>3. /\ HeldOK' /\ OrderOK' /\ Shared' = Shared /\ Batch' = Batch
      /\ \A s \in Senders : /\ Handled(s)' = Handled(s) /\ Own(s)' = Own(s)
                            /\ InMemory(s)' = InMemory(s)
  BY <1>1, SameQueues
<1>4. FetchedOK'
  <2>1. fetched \subseteq 1..arrived /\ poll.offset <= arrived + 1 /\ poll.next <= arrived + 1
        /\ poll.offset \in Nat /\ poll.next \in Nat
    BY <1>1 DEF TypeOK
  <2>2. ASSUME NEW w \in 1..arrived', w < poll.offset \/ w < poll.next \/ \E u \in fetched : w <= u
        PROVE  w \in 1..arrived
    BY <1>1, <2>1, <2>2
  <2>3. QED
    BY <1>1, <1>3, <2>2 DEF IInv, FetchedOK
<1>5. KeptOK' /\ SettledOK'
  BY <1>1, <1>3, OfSenders DEF IInv, KeptOK, SettledOK, TypeOK
<1>6. QED
  BY <1>2, <1>3, <1>4, <1>5 DEF IInv

LEMMA AskKeeps ==
    ASSUME IInv, AskUpdates
    PROVE  IInv'
<1> USE DEF platform, past
<1>1. /\ TypeOK /\ poll.at = "asking"
      /\ UNCHANGED <<platform, process, recv, reader, queue, worker, past>>
      /\ poll' = [poll EXCEPT !.at = IF process = "up" THEN "waiting" ELSE "gone"]
  BY DEF IInv, AskUpdates
<1>2. /\ poll'.at \in {"waiting", "gone"} /\ poll'.offset = poll.offset /\ poll'.next = poll.next
      /\ poll'.batch = poll.batch
      /\ poll' \in [at : {"asking", "waiting", "delivering", "gone"}, offset : Nat, next : Nat,
                    batch : Seq(Updates)]
  BY <1>1 DEF TypeOK
<1>3. TypeOK'
  BY <1>1, <1>2 DEF TypeOK
<1>4. /\ HeldOK' /\ OrderOK' /\ Shared' = Shared /\ Batch' = Batch
      /\ \A s \in Senders : /\ Handled(s)' = Handled(s) /\ Own(s)' = Own(s)
                            /\ InMemory(s)' = InMemory(s)
  BY <1>1, <1>2, SameQueues
<1>5. FetchedOK'
  <2>1. FetchedOK /\ confirmed \in Nat
    BY <1>1 DEF IInv, TypeOK
  <2>2. QED
    BY <1>1, <1>2, <1>4, <2>1, SameFetched
<1>6. KeptOK' /\ SettledOK'
  <2>1. KeptOK /\ SettledOK
    BY DEF IInv
  <2>2. QED
    BY <1>1, <1>4, <2>1, SameMemory
<1>7. QED
  BY <1>3, <1>4, <1>5, <1>6 DEF IInv

\* What a request confirms has all been fetched in this life, or was confirmed before.
LEMMA ConfirmKeeps ==
    ASSUME IInv, process # "down", Confirm \/ UNCHANGED confirmed
    PROVE  /\ confirmed' \in confirmed..arrived
           /\ Confirm => poll.offset <= confirmed' + 1
           /\ \A w \in 1..arrived : confirmed < w /\ w <= confirmed' => w \in fetched
           /\ \A u \in Texts \cap 1..confirmed' :
                 u \in done \cup abandoned \/ u \in InMemory(SenderOf[u])
<1>1. TypeOK /\ FetchedOK /\ KeptOK
  BY DEF IInv
<1>2. confirmed \in Nat /\ arrived \in Nat /\ confirmed <= arrived /\ poll.offset \in Nat
      /\ poll.offset <= arrived + 1
  BY <1>1 DEF TypeOK
<1>3. /\ confirmed' \in confirmed..arrived
      /\ Confirm => poll.offset <= confirmed' + 1
      /\ confirmed' = confirmed \/ confirmed' = poll.offset - 1
  BY <1>2 DEF Confirm
<1>4. \A w \in 1..arrived : confirmed < w /\ w <= confirmed' => w \in fetched
  <2>1. ASSUME NEW w \in 1..arrived, confirmed < w, w <= confirmed'
        PROVE  w \in fetched
    <3>1. w < poll.offset
      BY <1>2, <1>3, <2>1
    <3>2. QED
      BY <1>1, <2>1, <3>1 DEF FetchedOK
  <2>2. QED
    BY <2>1
<1>5. ASSUME NEW u \in Texts \cap 1..confirmed'
      PROVE  u \in done \cup abandoned \/ u \in InMemory(SenderOf[u])
  <2>1. CASE u <= confirmed
    <3>1. u \in Texts \cap 1..confirmed
      BY <1>2, <1>3, <2>1
    <3>2. QED
      BY <1>1, <3>1 DEF KeptOK
  <2>2. CASE confirmed < u
    <3>1. u \in fetched
      BY <1>2, <1>3, <1>4, <2>2
    <3>2. SenderOf[u] \in Senders /\ u \in Of(SenderOf[u])
      BY OfSenders
    <3>3. QED
      BY <1>1, <3>1, <3>2 DEF KeptOK, TypeOK
  <2>3. QED
    BY <1>2, <1>3, <2>1, <2>2
<1>6. QED
  BY <1>3, <1>4, <1>5

LEMMA AnswerLostKeeps ==
    ASSUME IInv, AnswerLost
    PROVE  IInv'
<1> USE DEF past
<1>1. /\ TypeOK /\ poll.at = "waiting" /\ process # "down" /\ (Confirm \/ UNCHANGED confirmed)
      /\ UNCHANGED <<arrived, process, recv, reader, queue, worker, past>>
      /\ poll' = [poll EXCEPT !.at = "asking", !.offset = poll.offset]
  BY DEF IInv, AnswerLost, SameOffset
<1>2. /\ poll'.at = "asking" /\ poll'.offset = poll.offset /\ poll'.next = poll.next
      /\ poll'.batch = poll.batch
      /\ poll' \in [at : {"asking", "waiting", "delivering", "gone"}, offset : Nat, next : Nat,
                    batch : Seq(Updates)]
  BY <1>1 DEF TypeOK
<1>3. /\ confirmed' \in confirmed..arrived /\ confirmed \in Nat /\ arrived \in Nat
      /\ \A u \in Texts \cap 1..confirmed' :
            u \in done \cup abandoned \/ u \in InMemory(SenderOf[u])
  BY <1>1, ConfirmKeeps DEF TypeOK
<1>4. TypeOK'
  <2>1. confirmed' \in 0..arrived
    BY <1>3
  <2>2. QED
    BY <1>1, <1>2, <2>1 DEF TypeOK
<1>5. /\ HeldOK' /\ OrderOK' /\ Shared' = Shared /\ Batch' = Batch
      /\ \A s \in Senders : /\ Handled(s)' = Handled(s) /\ Own(s)' = Own(s)
                            /\ InMemory(s)' = InMemory(s)
  BY <1>1, <1>2, SameQueues
<1>6. FetchedOK'
  <2>1. FetchedOK /\ UNCHANGED <<arrived, fetched>>
    BY <1>1 DEF IInv
  <2>2. confirmed' \in Nat /\ confirmed <= confirmed'
    BY <1>3
  <2>3. poll.at \in {"asking", "waiting"} /\ poll'.at # "delivering"
    BY <1>1, <1>2
  <2>4. QED
    BY <1>1, <1>2, <1>5, <2>1, <2>2, <2>3, SameFetched
<1>7. KeptOK' /\ SettledOK'
  <2>1. KeptOK /\ SettledOK /\ \A u \in done : SenderOf[u] \in Senders
    BY <1>1, OfSenders DEF IInv, TypeOK
  <2>2. KeptOK'
    BY <1>1, <1>3, <1>5, <2>1, OfSenders DEF KeptOK
  <2>3. \A u \in done : Handled(SenderOf[u])' = Handled(SenderOf[u])
    BY <1>5, <2>1
  <2>4. ASSUME NEW u \in done
        PROVE  u <= confirmed => u <= confirmed'
    <3>1. u \in Nat /\ confirmed \in Nat
      BY <1>1 DEF IInv, TypeOK
    <3>2. QED
      BY <1>3, <3>1
  <2>5. SettledOK'
    BY <1>1, <2>1, <2>3, <2>4 DEF SettledOK
  <2>6. QED
    BY <2>2, <2>5
<1>8. QED
  BY <1>4, <1>5, <1>6, <1>7 DEF IInv

LEMMA PollDoneKeeps ==
    ASSUME IInv, PollDone
    PROVE  IInv'
<1> USE DEF platform, past
<1>1. /\ TypeOK /\ poll.at = "delivering" /\ poll.batch = <<>>
      /\ UNCHANGED <<platform, process, recv, reader, queue, worker, past>>
      /\ poll' = [poll EXCEPT !.at = "asking", !.offset = poll.next]
  BY DEF IInv, PollDone
<1>2. /\ poll'.at = "asking" /\ poll'.offset = poll.next /\ poll'.next = poll.next
      /\ poll'.batch = poll.batch
      /\ poll' \in [at : {"asking", "waiting", "delivering", "gone"}, offset : Nat, next : Nat,
                    batch : Seq(Updates)]
  BY <1>1 DEF TypeOK
<1>3. TypeOK'
  BY <1>1, <1>2 DEF TypeOK
<1>4. /\ HeldOK' /\ OrderOK' /\ Shared' = Shared /\ Batch' = Batch
      /\ \A s \in Senders : /\ Handled(s)' = Handled(s) /\ Own(s)' = Own(s)
                            /\ InMemory(s)' = InMemory(s)
  BY <1>1, <1>2, SameQueues
<1>5. Batch = {}
  BY <1>1, EmptySet DEF Batch
<1>6. FetchedOK'
  <2>1. FetchedOK /\ confirmed \in Nat /\ arrived \in Nat
    BY <1>1 DEF IInv, TypeOK
  <2>2. \A u \in fetched' : u < poll'.offset
    BY <1>1, <1>2, <1>5, <2>1 DEF FetchedOK
  <2>3. QED
    BY <1>1, <1>2, <1>4, <2>1, <2>2 DEF FetchedOK
<1>7. KeptOK' /\ SettledOK'
  <2>1. KeptOK /\ SettledOK
    BY DEF IInv
  <2>2. QED
    BY <1>1, <1>4, <2>1, SameMemory
<1>8. QED
  BY <1>3, <1>4, <1>6, <1>7 DEF IInv

LEMMA AnswerKeeps ==
    ASSUME IInv, Answer
    PROVE  IInv'
<1> DEFINE new == [k \in 1..(arrived - confirmed') |-> confirmed' + k]
           off == poll.offset
<1>1. /\ TypeOK /\ poll.at = "waiting" /\ process # "down" /\ Confirm
      /\ UNCHANGED <<arrived, process, recv, reader, queue, worker, lives, handled, done, again,
                     abandoned, unsettled>>
      /\ poll' = [poll EXCEPT !.at = "delivering", !.next = off, !.batch = new]
      /\ fetched' = fetched \cup (confirmed' + 1)..arrived
  BY DEF IInv, Answer
<1>2. /\ confirmed' \in Nat /\ confirmed <= confirmed' /\ confirmed' <= arrived
      /\ confirmed \in Nat /\ arrived \in Nat
      /\ arrived <= MaxUpdates /\ off <= confirmed' + 1 /\ off \in Nat /\ off <= arrived + 1
  <2>1. confirmed' \in confirmed..arrived /\ off <= confirmed' + 1
    BY <1>1, ConfirmKeeps
  <2>2. /\ confirmed \in Nat /\ arrived \in Nat /\ arrived <= MaxUpdates
        /\ off \in Nat /\ off <= arrived + 1
    BY <1>1 DEF TypeOK
  <2> HIDE DEF off
  <2>3. confirmed' \in Nat /\ confirmed <= confirmed' /\ confirmed' <= arrived
    BY <2>1, <2>2
  <2>4. QED
    BY <2>1, <2>2, <2>3
<1>2a. \A u \in Texts \cap 1..confirmed' :
          u \in done \cup abandoned \/ u \in InMemory(SenderOf[u])
  BY <1>1, ConfirmKeeps
<1>3. /\ new \in Seq(Updates) /\ Increasing(new) /\ ToSet(new) = (confirmed' + 1)..arrived
  BY <1>2, Consecutive
<1> HIDE DEF new, off
<1>4. /\ poll'.at = "delivering" /\ poll'.offset = poll.offset /\ poll'.next = off /\ poll'.batch = new
      /\ poll' \in [at : {"asking", "waiting", "delivering", "gone"}, offset : Nat, next : Nat,
                    batch : Seq(Updates)]
  BY <1>1, <1>2, <1>3 DEF TypeOK
<1>5. off = poll.offset
  BY DEF off
<1>6. TypeOK'
  <2>1. confirmed' \in 0..arrived
    BY <1>2
  <2>4. fetched' \subseteq 1..arrived
    <3>1. fetched \subseteq 1..arrived /\ fetched' = fetched \cup (confirmed' + 1)..arrived
      BY <1>1 DEF TypeOK
    <3>2. confirmed' \in Nat /\ arrived \in Nat
      BY <1>2
    <3>3. \A w \in (confirmed' + 1)..arrived : w \in 1..arrived
      <4>1. PICK c \in Nat : c = confirmed'
        BY <3>2
      <4>2. \A w \in (c + 1)..arrived : w \in 1..arrived
        BY <3>2
      <4>3. QED
        BY <4>1, <4>2
    <3>4. QED
      BY ONLY <3>1, <3>3, Zenon
  <2>2. poll'.offset <= arrived + 1 /\ poll'.next <= arrived + 1
    BY <1>1, <1>2, <1>4, <1>5 DEF TypeOK
  <2>3. QED
    BY <1>1, <1>4, <2>1, <2>4, <2>2 DEF TypeOK
<1>7. poll.batch = <<>> /\ \A u \in fetched : u < off
  BY <1>1, <1>5 DEF IInv, FetchedOK
<1>8. /\ Batch = {} /\ Batch' = (confirmed' + 1)..arrived /\ Reading' = Reading /\ Received' = Received
      /\ Shared = Reading \cup Received /\ Shared' = Reading \cup Received \cup Batch'
      /\ \A s \in Senders : /\ Handled(s)' = Handled(s) /\ Own(s)' = Own(s)
                            /\ Working(s)' = Working(s) /\ Queued(s)' = Queued(s)
  BY <1>1, <1>3, <1>4, <1>7, EmptySet
     DEF Batch, Reading, Received, Shared, Handled, Own, Working, Queued
<1>9. HeldOK'
  BY <1>1 DEF IInv, HeldOK
<1>10. Shared \subseteq fetched /\ \A s \in Senders : Own(s) \subseteq fetched
  BY DEF IInv, FetchedOK
<1>11. \A u \in fetched, v \in Batch' : u < v
  <2>1. PICK c \in Nat, n \in Nat : c = confirmed' /\ n = off /\ n <= c + 1
    BY <1>2
  <2>2. \A u \in fetched : u \in Nat /\ u < n
    BY <1>1, <1>7, <2>1 DEF TypeOK
  <2>3. Batch' = (c + 1)..arrived
    BY <1>8, <2>1
  <2>4. ASSUME NEW u \in fetched, NEW v \in (c + 1)..arrived
        PROVE  u < v
    <3>1. u \in Nat /\ u < n /\ n <= c + 1
      BY <2>1, <2>2
    <3>2. c + 1 <= v /\ v \in Int
      OBVIOUS
    <3>3. QED
      BY <3>1, <3>2
  <2>5. QED
    BY <2>3, <2>4
<1>12. OrderOK'
  BY <1>1, <1>3, <1>4, <1>8, <1>10, <1>11 DEF IInv, OrderOK, Less
<1>13. FetchedOK'
  <2>1. ASSUME NEW u \in fetched', NEW w \in 1..arrived, confirmed' < w, w <= u
        PROVE  w \in fetched'
    BY <1>1, <1>2, <2>1
  <2>2. ASSUME NEW w \in 1..arrived, confirmed' < w
        PROVE  w \in fetched'
    BY <1>1, <1>2, <2>2
  <2>3. QED
    BY <1>1, <1>4, <1>5, <1>7, <1>8, <1>10, <2>1, <2>2 DEF FetchedOK
<1>14. \A s \in Senders : InMemory(s)' = InMemory(s) \cup (Of(s) \cap Batch')
  BY <1>8, InMemoryIs
<1>15. KeptOK'
  BY <1>1, <1>2a, <1>8, <1>14, OfSenders DEF IInv, KeptOK
<1>16. SettledOK'
  <2>1. ASSUME NEW u \in done \ unsettled, u \notin Handled(SenderOf[u])
        PROVE  u <= confirmed' /\ u \notin fetched'
    <3>1. u <= confirmed /\ u \notin fetched /\ u \in Nat
      BY <1>1, <2>1, OfSenders DEF IInv, SettledOK, TypeOK
    <3>2. QED
      BY <1>1, <1>2, <3>1
  <2>2. \A u \in done : SenderOf[u] \in Senders
    BY <1>1, OfSenders DEF TypeOK
  <2>3. QED
    BY <1>1, <1>8, <2>1, <2>2 DEF IInv, SettledOK
<1>17. QED
  BY <1>6, <1>9, <1>12, <1>13, <1>15, <1>16 DEF IInv

\* One update is taken from the batch.
LEMMA BatchAdvances ==
    ASSUME IInv, poll.at = "delivering", poll.batch # <<>>, poll' = Advanced(poll),
           NEW u, u = Head(poll.batch)
    PROVE  /\ u \in Updates /\ u \in fetched /\ poll'.at = "delivering"
           /\ poll'.offset = poll.offset /\ poll'.next <= arrived + 1
           /\ poll' \in [at : {"asking", "waiting", "delivering", "gone"}, offset : Nat, next : Nat,
                         batch : Seq(Updates)]
           /\ Batch = {u} \cup Batch' /\ Less({u}, Batch') /\ Increasing(poll'.batch)
           /\ poll.next <= poll'.next /\ u < poll'.next
           /\ \A w \in 1..arrived : confirmed < w /\ w < poll'.next => w \in fetched
<1>1. /\ TypeOK /\ poll.batch \in Seq(Updates) /\ Increasing(poll.batch) /\ Batch \subseteq fetched
      /\ arrived \in Nat /\ fetched \subseteq 1..arrived /\ poll.next \in Nat
      /\ poll.next <= arrived + 1
      /\ poll \in [at : {"asking", "waiting", "delivering", "gone"}, offset : Nat, next : Nat,
                   batch : Seq(Updates)]
  <2>1. TypeOK /\ OrderOK /\ FetchedOK
    BY DEF IInv
  <2>2. Increasing(poll.batch) /\ Batch \subseteq fetched
    BY <2>1 DEF OrderOK, FetchedOK, Shared
  <2>3. /\ arrived \in Nat /\ fetched \subseteq 1..arrived /\ poll.next <= arrived + 1
        /\ poll \in [at : {"asking", "waiting", "delivering", "gone"}, offset : Nat, next : Nat,
                     batch : Seq(Updates)]
    BY <2>1 DEF TypeOK
  <2>4. poll.batch \in Seq(Updates) /\ poll.next \in Nat
    BY <2>3
  <2>5. QED
    BY <2>1, <2>2, <2>3, <2>4
<1> DEFINE t == Tail(poll.batch)
           n == IF u + 1 > poll.next THEN u + 1 ELSE poll.next
<1>2. poll' = [poll EXCEPT !.batch = t, !.next = n]
  BY DEF Advanced, After
<1>3. /\ u \in Updates /\ t \in Seq(Updates) /\ Increasing(t)
      /\ ToSet(poll.batch) = {u} \cup ToSet(t) /\ Less({u}, ToSet(t))
  <2> DEFINE q == poll.batch
             S == Updates
  <2>1. /\ S \in SUBSET Nat /\ q \in Seq(S) /\ q # <<>> /\ Increasing(q)
        /\ u = Head(q) /\ t = Tail(q)
    BY <1>1
  <2> HIDE DEF t, q, S
  <2>2. u \in S /\ t \in Seq(S) /\ Increasing(t)
    BY <2>1, TailRises
  <2>3. ToSet(q) = {u} \cup ToSet(t)
    <3>1. \A x : x \in ToSet(q) <=> (x = u \/ x \in ToSet(t))
      BY <2>1, TailSet
    <3>2. QED
      BY <3>1
  <2>4. Less({u}, ToSet(t))
    BY <2>1, TailRises
  <2>5. QED
    BY <2>2, <2>3, <2>4 DEF q, S
<1> HIDE DEF t
<1>4. u \in fetched /\ u \in 1..arrived
  BY <1>1, <1>3 DEF Batch
<1>5. n \in Nat /\ n <= arrived + 1 /\ poll.next <= n /\ u < n
  BY <1>1, <1>4
<1>6. ASSUME NEW w \in 1..arrived, confirmed < w, w < n
      PROVE  w \in fetched
  <2>1. CASE w < poll.next
    BY <1>6, <2>1 DEF IInv, FetchedOK
  <2>2. CASE w <= u
    BY <1>4, <1>6, <2>2 DEF IInv, FetchedOK
  <2>3. QED
    BY <1>1, <1>4, <1>6, <2>1, <2>2
<1> HIDE DEF n
<1>7. /\ poll'.at = "delivering" /\ poll'.offset = poll.offset /\ poll'.next = n /\ poll'.batch = t
      /\ poll' \in [at : {"asking", "waiting", "delivering", "gone"}, offset : Nat, next : Nat,
                    batch : Seq(Updates)]
  BY <1>1, <1>2, <1>3, <1>5
<1>8. Batch' = ToSet(t)
  BY <1>7 DEF Batch
<1>9. QED
  BY <1>3, <1>4, <1>5, <1>6, <1>7, <1>8 DEF Batch

LEMMA DeliverKeeps ==
    ASSUME IInv, Deliver
    PROVE  IInv'
<1> DEFINE u == Head(poll.batch)
<1> USE DEF platform, past
<1>1. /\ TypeOK /\ process # "down" /\ poll.at = "delivering" /\ poll.batch # <<>>
      /\ UNCHANGED <<platform, process, reader, queue, worker, past>>
      /\ \/ u \notin Texts /\ poll' = Advanced(poll) /\ UNCHANGED recv
         \/ /\ u \in Texts /\ Len(recv.buf) < RecvSize
            /\ poll' = Advanced(poll) /\ recv' = [recv EXCEPT !.buf = Append(@, u)]
         \/ poll' = [poll EXCEPT !.at = "gone"] /\ process = "stopping" /\ UNCHANGED recv
  BY DEF IInv, Deliver, Fits
<1>2. u = Head(poll.batch)
  OBVIOUS
<1> HIDE DEF u
<1>3. CASE poll' = [poll EXCEPT !.at = "gone"] /\ process = "stopping" /\ UNCHANGED recv
  <2>1. /\ poll'.at = "gone" /\ poll'.offset = poll.offset /\ poll'.next = poll.next
        /\ poll'.batch = poll.batch
        /\ poll' \in [at : {"asking", "waiting", "delivering", "gone"}, offset : Nat, next : Nat,
                      batch : Seq(Updates)]
    BY <1>1, <1>3 DEF TypeOK
  <2>2. TypeOK'
    BY <1>1, <1>3, <2>1 DEF TypeOK
  <2>3. /\ HeldOK' /\ OrderOK' /\ Shared' = Shared /\ Batch' = Batch
        /\ \A s \in Senders : /\ Handled(s)' = Handled(s) /\ Own(s)' = Own(s)
                              /\ InMemory(s)' = InMemory(s)
    BY <1>1, <1>3, <2>1, SameQueues
  <2>4. FetchedOK'
    <3>1. FetchedOK /\ confirmed \in Nat
      BY <1>1 DEF IInv, TypeOK
    <3>2. QED
      BY <1>1, <2>1, <2>3, <3>1, SameFetched
  <2>5. KeptOK' /\ SettledOK'
    <3>1. KeptOK /\ SettledOK
      BY DEF IInv
    <3>2. QED
      BY <1>1, <2>3, <3>1, SameMemory
  <2>6. QED
    BY <2>2, <2>3, <2>4, <2>5 DEF IInv
<1>4. CASE poll' = Advanced(poll)
  <2>1. /\ u \in Updates /\ u \in fetched /\ poll'.at = "delivering"
        /\ poll'.offset = poll.offset /\ poll'.next <= arrived + 1
        /\ poll' \in [at : {"asking", "waiting", "delivering", "gone"}, offset : Nat, next : Nat,
                      batch : Seq(Updates)]
        /\ Batch = {u} \cup Batch' /\ Less({u}, Batch') /\ Increasing(poll'.batch)
        /\ poll.next <= poll'.next /\ u < poll'.next
        /\ \A w \in 1..arrived : confirmed < w /\ w < poll'.next => w \in fetched
    BY <1>1, <1>2, <1>4, BatchAdvances
  <2>2. /\ recv' \in [buf : Seq(Texts), open : BOOLEAN] /\ Len(recv'.buf) <= RecvSize
        /\ Increasing(recv'.buf)
        /\ \/ u \notin Texts /\ Received' = Received
           \/ u \in Texts /\ Received' = Received \cup {u}
    <3>1. CASE u \notin Texts
      BY <1>1, <1>4, <3>1 DEF TypeOK, IInv, OrderOK, Received
    <3>2. CASE u \in Texts
      <4> DEFINE q == recv.buf
                 t == Append(q, u)
      <4>1. q \in Seq(Texts) /\ Increasing(q) /\ Less(ToSet(q), {u}) /\ Texts \in SUBSET Nat
        BY <1>1, <2>1, OfSenders DEF TypeOK, IInv, OrderOK, Received, Less
      <4>2. /\ recv \in [buf : Seq(Texts), open : BOOLEAN] /\ Len(q) < RecvSize
            /\ recv' = [recv EXCEPT !.buf = Append(q, u)] /\ t = Append(q, u)
        <5>1. poll' # [poll EXCEPT !.at = "gone"]
          BY <1>1, <2>1 DEF TypeOK
        <5>2. QED
          BY <1>1, <3>2, <5>1 DEF TypeOK
      <4> HIDE DEF t, q
      <4>3. /\ t \in Seq(Texts) /\ Increasing(t)
            /\ ToSet(t) = ToSet(q) \cup {u} /\ Len(t) = Len(q) + 1
        <5>1. t \in Seq(Texts) /\ Increasing(t)
          BY <3>2, <4>1, <4>2, AppendRises
        <5>2. Len(t) = Len(q) + 1
          BY <3>2, <4>1, <4>2, AppendRises
        <5>2a. \A x : x \in ToSet(t) <=> (x \in ToSet(q) \/ x = u)
          BY <3>2, <4>1, <4>2, AppendSet
        <5>3. ToSet(t) = ToSet(q) \cup {u}
          BY <5>2a
        <5>4. QED
          BY <5>1, <5>2, <5>3
      <4>4. recv'.buf = t /\ recv' \in [buf : Seq(Texts), open : BOOLEAN]
        BY <1>1, <4>2, <4>3 DEF TypeOK
      <4>5. Len(t) <= RecvSize
        BY <4>1, <4>2, <4>3
      <4>6. QED
        BY <3>2, <4>3, <4>4, <4>5 DEF Received, q
    <3>3. QED
      BY <3>1, <3>2
  <2>3. TypeOK'
    BY <1>1, <2>1, <2>2 DEF TypeOK
  <2>4. HeldOK'
    BY <1>1 DEF IInv, HeldOK
  <2>5. /\ Reading' = Reading /\ Shared' \subseteq Shared /\ Shared \cap Texts \subseteq Shared'
        /\ Shared = Reading \cup Received \cup Batch /\ Shared' = Reading \cup Received' \cup Batch'
        /\ \A s \in Senders : /\ Handled(s)' = Handled(s) /\ Own(s)' = Own(s)
                              /\ Working(s)' = Working(s) /\ Queued(s)' = Queued(s)
    BY <1>1, <2>1, <2>2 DEF Reading, Shared, Handled, Own, Working, Queued
  <2>6. \A s \in Senders : InMemory(s)' = InMemory(s)
    BY <2>5, InMemoryIs, OfSenders
  <2>7. OrderOK'
    <3>1. /\ Less(Reading, Received \cup Batch) /\ Less(Received, Batch)
      BY DEF IInv, OrderOK
    <3>2. Less(Reading', Received' \cup Batch') /\ Less(Received', Batch')
      BY <2>1, <2>2, <2>5, <3>1 DEF Less
    <3>3. QED
      BY <1>1, <2>1, <2>2, <2>5, <3>2 DEF IInv, OrderOK, Less
  <2>8. FetchedOK'
    <3>1. \A x \in fetched : x < poll'.next \/ x \in Batch'
      <4> SUFFICES ASSUME NEW x \in fetched, x \notin Batch'
                   PROVE  x < poll'.next
        OBVIOUS
      <4>1. x < poll.next \/ x = u
        BY <1>1, <2>1 DEF IInv, FetchedOK
      <4>2. x \in Nat /\ poll.next \in Nat /\ poll'.next \in Nat
        BY <1>1, <2>1 DEF TypeOK
      <4>3. QED
        BY <2>1, <4>1, <4>2
    <3>2. QED
      BY <1>1, <2>1, <2>5, <3>1 DEF IInv, FetchedOK
  <2>9. KeptOK' /\ SettledOK'
    BY <1>1, <2>6, SameMemory DEF IInv
  <2>10. QED
    BY <2>3, <2>4, <2>7, <2>8, <2>9 DEF IInv
<1>5. QED
  BY <1>1, <1>3, <1>4

-----------------------------------------------------------------------------
(* The manager.                                                             *)

LEMMA ReceiveKeeps ==
    ASSUME IInv, Receive
    PROVE  IInv'
<1> DEFINE q == recv.buf
           u == Head(q)
           t == Tail(q)
<1> USE DEF platform, past
<1>1. /\ TypeOK /\ HeldOK /\ OrderOK /\ FetchedOK /\ KeptOK /\ SettledOK
      /\ process # "down" /\ reader.at = "reading" /\ q # <<>>
      /\ reader' = [at |-> "dispatching", msg |-> u]
      /\ recv' = [recv EXCEPT !.buf = t]
      /\ UNCHANGED <<platform, process, poll, queue, worker, past>>
  BY DEF IInv, Receive
<1>2. /\ q \in Seq(Texts) /\ Increasing(q) /\ Texts \in SUBSET Nat
      /\ u = Head(q) /\ t = Tail(q)
      /\ recv \in [buf : Seq(Texts), open : BOOLEAN] /\ Len(q) <= RecvSize
  BY <1>1, OfSenders DEF TypeOK, OrderOK
<1>3. Received = ToSet(q)
  BY DEF Received
<1> HIDE DEF q, u, t
<1>4. u \in Texts /\ t \in Seq(Texts) /\ Increasing(t) /\ Len(t) = Len(q) - 1 /\ Less({u}, ToSet(t))
  BY <1>1, <1>2, TailRises
<1>5. \A x : x \in ToSet(q) <=> (x = u \/ x \in ToSet(t))
  BY <1>1, <1>2, TailSet
<1>6. recv'.buf = t /\ recv' \in [buf : Seq(Texts), open : BOOLEAN]
  BY <1>1, <1>2, <1>4
<1>7. Len(recv'.buf) <= RecvSize
  BY <1>2, <1>4, <1>6
<1>8. reader'.at = "dispatching" /\ reader'.msg = u
  BY <1>1
<1>9. TypeOK'
  BY <1>1, <1>4, <1>6, <1>7 DEF TypeOK
<1>10. HeldOK'
  BY <1>1, <1>2, <1>4, <1>8, NoTextIsNothing DEF HeldOK
<1>11. reader.msg = Nothing /\ u # Nothing
  BY <1>1, <1>2, <1>4, NoTextIsNothing DEF HeldOK
<1>12. Reading = {} /\ Reading' = {u} /\ Received = {u} \cup Received' /\ Received' = ToSet(t)
  <2>1. Reading = {} /\ Reading' = {u} /\ Received' = ToSet(t)
    BY <1>6, <1>8, <1>11, HeldSet DEF Reading, Received
  <2>2. QED
    BY <1>3, <1>5, <2>1
<1>13. /\ Batch' = Batch /\ Shared' = Shared
       /\ \A s \in Senders : /\ Handled(s)' = Handled(s) /\ Own(s)' = Own(s)
                             /\ Working(s)' = Working(s) /\ Queued(s)' = Queued(s)
  BY <1>1, <1>12 DEF Batch, Reading, Shared, Handled, Own, Working, Queued
<1>14. \A s \in Senders : InMemory(s)' = InMemory(s)
  BY <1>13, InMemoryIs
<1>15. OrderOK'
  <2>1. Less(Reading', Received' \cup Batch') /\ Less(Received', Batch')
    <3>1. Less(Received, Batch)
      BY <1>1 DEF OrderOK
    <3>2. QED
      BY <1>4, <1>12, <1>13, <3>1 DEF Less
  <2>2. Increasing(recv'.buf) /\ Increasing(poll'.batch) /\ handled' = handled /\ queue' = queue
    BY <1>1, <1>4, <1>6 DEF OrderOK
  <2>3. QED
    BY <1>1, <1>13, <2>1, <2>2 DEF OrderOK
<1>16. FetchedOK'
  BY <1>1, <1>13 DEF FetchedOK
<1>17. KeptOK' /\ SettledOK'
  BY <1>1, <1>14, SameMemory
<1>18. QED
  BY <1>9, <1>10, <1>15, <1>16, <1>17 DEF IInv

LEMMA DispatchKeeps ==
    ASSUME IInv, Dispatch
    PROVE  IInv'
<1> USE DEF platform, past
<1>0. PICK u, r, q, t : u = reader.msg /\ r = SenderOf[u] /\ q = queue[r] /\ t = Append(q, u)
  OBVIOUS
<1>1. /\ TypeOK /\ HeldOK /\ OrderOK /\ FetchedOK /\ KeptOK /\ SettledOK
      /\ process # "down" /\ reader.at = "dispatching" /\ Len(q) < QueueSize
      /\ queue' = [queue EXCEPT ![r] = t]
      /\ worker' = IF worker[r].at = "none" THEN [worker EXCEPT ![r].at = "idle"] ELSE worker
      /\ reader' = [at |-> "reading", msg |-> Nothing]
      /\ UNCHANGED <<platform, process, poll, recv, past>>
  BY <1>0 DEF IInv, Dispatch, Fits
<1>2. u \in Texts /\ u # Nothing /\ r \in Senders /\ Texts \in SUBSET Nat /\ u \in Of(r)
  BY <1>0, <1>1, OfSenders DEF TypeOK, HeldOK
<1>3. /\ queue \in [Senders -> Seq(Texts)] /\ q \in Seq(Texts) /\ t = Append(q, u)
      /\ worker \in [Senders -> [at : {"none", "idle", "processing", "gone"},
                                 msg : Texts \cup {Nothing}]]
  BY <1>0, <1>1, <1>2 DEF TypeOK
<1>4. /\ Reading = {u} /\ Reading' = {}
      /\ Queued(r) = ToSet(q)
  BY <1>0, <1>1, <1>2, HeldSet DEF Reading, Queued
<1>5. Increasing(q) /\ Less(ToSet(q), {u}) /\ Less(Own(r), Shared)
  <2>1. Increasing(queue[r]) /\ Less(Own(r), Shared)
    BY <1>1, <1>2 DEF OrderOK
  <2>2. ToSet(q) \subseteq Own(r) /\ u \in Shared
    BY <1>4 DEF Own, Shared
  <2>3. Less(ToSet(q), {u})
    BY <2>1, <2>2 DEF Less
  <2>4. QED
    BY <1>0, <2>1, <2>3
<1>7. t \in Seq(Texts) /\ Increasing(t) /\ Len(t) = Len(q) + 1
  <2>1. q \in Seq(Texts) /\ u \in Texts /\ Texts \in SUBSET Nat /\ t = Append(q, u)
        /\ Increasing(q) /\ Less(ToSet(q), {u})
    BY <1>2, <1>3, <1>5
  <2>2. QED
    BY <2>1, AppendRises
<1>8. \A x : x \in ToSet(t) <=> (x \in ToSet(q) \/ x = u)
  BY <1>3, AppendSet
<1>9. /\ queue' \in [Senders -> Seq(Texts)] /\ queue'[r] = t
      /\ \A s \in Senders : s # r => queue'[s] = queue[s]
  BY <1>0, <1>1, <1>2, <1>3, <1>7
<1>10. Len(t) <= QueueSize
  BY <1>1, <1>3, <1>7
<1>11. \A s \in Senders : Len(queue'[s]) <= QueueSize
  BY <1>1, <1>9, <1>10 DEF TypeOK
<1>12. /\ worker' \in [Senders -> [at : {"none", "idle", "processing", "gone"},
                                   msg : Texts \cup {Nothing}]]
       /\ \A s \in Senders : /\ worker'[s].msg = worker[s].msg
                             /\ worker'[s].at = "processing" <=> worker[s].at = "processing"
  BY <1>1, <1>2, <1>3
<1>13. TypeOK'
  BY <1>1, <1>9, <1>11, <1>12 DEF TypeOK
<1>14. HeldOK'
  BY <1>1, <1>12 DEF HeldOK
<1>15. /\ Queued(r)' = Queued(r) \cup {u}
       /\ \A s \in Senders : s # r => Queued(s)' = Queued(s)
       /\ \A s \in Senders : Handled(s)' = Handled(s) /\ Working(s)' = Working(s)
  <2>1. ToSet(t) = ToSet(q) \cup {u}
    BY <1>8
  <2>2. Queued(r)' = ToSet(t) /\ Queued(r) = ToSet(q)
    BY <1>4, <1>9 DEF Queued
  <2>3. \A s \in Senders : s # r => Queued(s)' = Queued(s)
    BY <1>9 DEF Queued
  <2>4. \A s \in Senders : Handled(s)' = Handled(s) /\ Working(s)' = Working(s)
    BY <1>1, <1>12 DEF Handled, Working
  <2>5. QED
    BY <2>1, <2>2, <2>3, <2>4
<1>16. /\ Received' = Received /\ Batch' = Batch /\ Shared = {u} \cup Shared'
       /\ Shared' = Received \cup Batch
  BY <1>1, <1>4 DEF Received, Batch, Shared
<1>17. \A s \in Senders : s # r => Own(s)' = Own(s)
  BY <1>15 DEF Own
<1>18. Own(r)' = Own(r) \cup {u}
  <2>1. Handled(r)' = Handled(r) /\ Working(r)' = Working(r) /\ Queued(r)' = Queued(r) \cup {u}
    BY <1>2, <1>15
  <2>2. QED
    BY <2>1 DEF Own
<1>19. \A s \in Senders : InMemory(s)' = InMemory(s)
  <2>1. ASSUME NEW s \in Senders, s # r
        PROVE  u \notin Of(s)
    BY <1>0, <1>2, <2>1, OfSenders
  <2>2. ASSUME NEW s \in Senders
        PROVE  Of(s) \cap (Working(s)' \cup Queued(s)' \cup Shared')
                 = Of(s) \cap (Working(s) \cup Queued(s) \cup Shared)
    <3>1. CASE s = r
      <4>1. Working(s)' = Working(s) /\ Queued(s)' = Queued(s) \cup {u}
        BY <1>15, <3>1
      <4>2. QED
        BY <1>16, <4>1
    <3>2. CASE s # r
      <4>1. Working(s)' = Working(s) /\ Queued(s)' = Queued(s)
        BY <1>15, <3>2
      <4>2. QED
        BY <1>16, <2>1, <3>2, <4>1
    <3>3. QED
      BY <3>1, <3>2
  <2>3. QED
    BY <2>2, InMemoryIs
<1>20. OrderOK'
  <2>1. /\ Less(Reading', Received' \cup Batch') /\ Less(Received', Batch')
        /\ Increasing(recv'.buf) /\ Increasing(poll'.batch)
    BY <1>1, <1>4, <1>16 DEF OrderOK, Less
  <2>2. ASSUME NEW s \in Senders, s # r
        PROVE  /\ Increasing(handled'[s]) /\ Increasing(queue'[s])
               /\ Less(Handled(s)', Working(s)' \cup Queued(s)') /\ Less(Working(s)', Queued(s)')
               /\ Less(Own(s)', Shared')
               /\ Own(s)' \subseteq Of(s)
    <3>1. /\ handled' = handled /\ queue'[s] = queue[s] /\ Handled(s)' = Handled(s)
          /\ Working(s)' = Working(s) /\ Queued(s)' = Queued(s) /\ Own(s)' = Own(s)
          /\ Shared' \subseteq Shared
      BY <1>1, <1>9, <1>15, <1>16, <1>17, <2>2
    <3>2. /\ Increasing(handled[s]) /\ Increasing(queue[s])
          /\ Less(Handled(s), Working(s) \cup Queued(s)) /\ Less(Working(s), Queued(s))
          /\ Less(Own(s), Shared) /\ Own(s) \subseteq Of(s)
      BY <1>1 DEF OrderOK
    <3>3. Less(Own(s), Shared')
      BY <3>1, <3>2 DEF Less
    <3>4. QED
      BY <3>1, <3>2, <3>3
  <2>3. /\ Increasing(handled[r])
        /\ Less(Handled(r), Working(r) \cup Queued(r)) /\ Less(Working(r), Queued(r))
        /\ Less(Own(r), Shared) /\ Own(r) \subseteq Of(r)
    BY <1>1, <1>2 DEF OrderOK
  <2>4. /\ Less(Own(r), {u}) /\ Less(Own(r), Shared') /\ Less({u}, Shared')
    <3>1. Less(Reading, Received \cup Batch)
      BY <1>1 DEF OrderOK
    <3>2. QED
      BY <1>4, <1>16, <2>3, <3>1 DEF Less
  <2>5. Less(Handled(r)', Working(r)' \cup Queued(r)') /\ Less(Working(r)', Queued(r)')
    <3>1. Handled(r)' = Handled(r) /\ Working(r)' = Working(r) /\ Queued(r)' = Queued(r) \cup {u}
      BY <1>2, <1>15
    <3>2. Less(Handled(r), {u}) /\ Less(Working(r), {u})
      BY <2>4 DEF Less, Own
    <3>3. QED
      BY <2>3, <3>1, <3>2 DEF Less
  <2>6. Less(Own(r)', Shared') /\ Own(r)' \subseteq Of(r)
    BY <1>2, <1>18, <2>3, <2>4 DEF Less
  <2>7. Increasing(handled'[r]) /\ Increasing(queue'[r])
    BY <1>1, <1>7, <1>9, <2>3
  <2>8. \A s \in Senders :
              /\ Increasing(handled'[s]) /\ Increasing(queue'[s])
              /\ Less(Handled(s)', Working(s)' \cup Queued(s)') /\ Less(Working(s)', Queued(s)')
              /\ Less(Own(s)', Shared')
              /\ Own(s)' \subseteq Of(s)
    BY <2>2, <2>5, <2>6, <2>7
  <2>9. QED
    BY <2>1, <2>8 DEF OrderOK
<1>21. FetchedOK'
  <2>1. u \in fetched /\ Shared' \subseteq fetched
    BY <1>1, <1>16 DEF FetchedOK
  <2>2. \A s \in Senders : Own(s)' \subseteq fetched
    <3>1. \A s \in Senders : Own(s) \subseteq fetched
      BY <1>1 DEF FetchedOK
    <3>2. QED
      BY <1>17, <1>18, <2>1, <3>1
  <2>3. QED
    BY <1>1, <1>16, <2>1, <2>2 DEF FetchedOK
<1>22. KeptOK' /\ SettledOK'
  BY <1>1, <1>19, SameMemory
<1>23. QED
  BY <1>13, <1>14, <1>20, <1>21, <1>22 DEF IInv

LEMMA TakeKeeps ==
    ASSUME IInv, NEW r \in Senders, Take(r)
    PROVE  IInv'
<1> USE DEF platform, past
<1>0. PICK q, u, t : q = queue[r] /\ u = Head(q) /\ t = Tail(q)
  OBVIOUS
<1>1. /\ TypeOK /\ HeldOK /\ OrderOK /\ FetchedOK /\ KeptOK /\ SettledOK
      /\ process # "down" /\ worker[r].at = "idle" /\ q # <<>>
      /\ worker' = [worker EXCEPT ![r] = [at |-> "processing", msg |-> u]]
      /\ queue' = [queue EXCEPT ![r] = t]
      /\ UNCHANGED <<platform, process, poll, recv, reader, past>>
  BY <1>0 DEF IInv, Take
<1>2. /\ queue \in [Senders -> Seq(Texts)] /\ q \in Seq(Texts) /\ Increasing(q)
      /\ Texts \in SUBSET Nat /\ Len(q) <= QueueSize
      /\ worker \in [Senders -> [at : {"none", "idle", "processing", "gone"},
                                 msg : Texts \cup {Nothing}]]
  <2>1. Increasing(queue[r])
    BY <1>1 DEF OrderOK
  <2>2. /\ queue \in [Senders -> Seq(Texts)] /\ Len(queue[r]) <= QueueSize
        /\ worker \in [Senders -> [at : {"none", "idle", "processing", "gone"},
                                   msg : Texts \cup {Nothing}]]
    BY <1>1 DEF TypeOK
  <2>3. Texts \in SUBSET Nat /\ q \in Seq(Texts)
    BY <1>0, <2>2, OfSenders
  <2>4. QED
    BY <1>0, <2>1, <2>2, <2>3
<1>3. u \in Texts /\ t \in Seq(Texts) /\ Increasing(t) /\ Len(t) = Len(q) - 1 /\ Less({u}, ToSet(t))
  BY <1>0, <1>1, <1>2, TailRises
<1>4. \A x : x \in ToSet(q) <=> (x = u \/ x \in ToSet(t))
  <2>1. q \in Seq(Texts) /\ q # <<>> /\ u = Head(q) /\ t = Tail(q)
    BY <1>0, <1>1, <1>2
  <2>2. QED
    BY <2>1, TailSet
<1>5. u # Nothing /\ worker[r].msg = Nothing
  BY <1>1, <1>3, NoTextIsNothing DEF HeldOK
<1>6. /\ queue' \in [Senders -> Seq(Texts)] /\ queue'[r] = t
      /\ \A s \in Senders : s # r => queue'[s] = queue[s]
  BY <1>1, <1>2, <1>3
<1>7. \A s \in Senders : Len(queue'[s]) <= QueueSize
  <2>1. Len(t) <= QueueSize
    BY <1>2, <1>3
  <2>2. QED
    BY <1>1, <1>6, <2>1 DEF TypeOK
<1>8. /\ worker' \in [Senders -> [at : {"none", "idle", "processing", "gone"},
                                  msg : Texts \cup {Nothing}]]
      /\ worker'[r].at = "processing" /\ worker'[r].msg = u
      /\ \A s \in Senders : s # r => worker'[s] = worker[s]
  BY <1>1, <1>2, <1>3
<1>9. TypeOK'
  BY <1>1, <1>6, <1>7, <1>8 DEF TypeOK
<1>10. HeldOK'
  BY <1>1, <1>5, <1>8 DEF HeldOK
<1>11. /\ Working(r) = {} /\ Working(r)' = {u} /\ Queued(r) = {u} \cup Queued(r)'
       /\ Queued(r)' = ToSet(t)
  <2>1. Working(r) = {} /\ Working(r)' = {u}
    BY <1>5, <1>8, HeldSet DEF Working
  <2>2. Queued(r) = ToSet(q) /\ Queued(r)' = ToSet(t)
    BY <1>0, <1>6 DEF Queued
  <2>3. ToSet(q) = {u} \cup ToSet(t)
    BY <1>4
  <2>4. QED
    BY <2>1, <2>2, <2>3
<1>12. \A s \in Senders : s # r => Queued(s)' = Queued(s) /\ Working(s)' = Working(s)
  BY <1>6, <1>8 DEF Queued, Working
<1>13. /\ Shared' = Shared /\ Reading' = Reading /\ Received' = Received /\ Batch' = Batch
       /\ \A s \in Senders : Handled(s)' = Handled(s)
  BY <1>1 DEF Shared, Reading, Received, Batch, Handled
<1>14. \A s \in Senders : Working(s)' \cup Queued(s)' = Working(s) \cup Queued(s)
  BY <1>11, <1>12
<1>15. \A s \in Senders : InMemory(s)' = InMemory(s)
  BY <1>13, <1>14, InMemoryIs
<1>16. \A s \in Senders : Own(s)' = Own(s)
  BY <1>13, <1>14 DEF Own
<1>17. OrderOK'
  <2>1. ASSUME NEW s \in Senders
        PROVE  /\ Increasing(handled'[s]) /\ Increasing(queue'[s]) /\ Less(Working(s)', Queued(s)')
               /\ Less(Handled(s), Working(s) \cup Queued(s))
               /\ Less(Own(s), Shared) /\ Own(s) \subseteq Of(s)
    <3>1. /\ Increasing(handled[s]) /\ Increasing(queue[s]) /\ Less(Working(s), Queued(s))
          /\ Less(Handled(s), Working(s) \cup Queued(s))
          /\ Less(Own(s), Shared) /\ Own(s) \subseteq Of(s)
      BY <1>1 DEF OrderOK
    <3>2. CASE s = r
      <4>1. Less(Working(s)', Queued(s)')
        BY <1>3, <1>11, <3>2
      <4>2. QED
        BY <1>1, <1>3, <1>6, <3>1, <3>2, <4>1
    <3>3. CASE s # r
      BY <1>1, <1>6, <1>12, <3>1, <3>3
    <3>4. QED
      BY <3>2, <3>3
  <2>2. ASSUME NEW s \in Senders
        PROVE  /\ Less(Handled(s)', Working(s)' \cup Queued(s)')
               /\ Less(Own(s)', Shared') /\ Own(s)' \subseteq Of(s)
    <3>1. /\ Handled(s)' = Handled(s) /\ Own(s)' = Own(s) /\ Shared' = Shared
          /\ Working(s)' \cup Queued(s)' = Working(s) \cup Queued(s)
      BY <1>13, <1>14, <1>16
    <3>2. QED
      BY <2>1, <3>1
  <2>3. /\ Less(Reading', Received' \cup Batch') /\ Less(Received', Batch')
        /\ Increasing(recv'.buf) /\ Increasing(poll'.batch)
    BY <1>1, <1>13 DEF OrderOK
  <2>4. QED
    BY <2>1, <2>2, <2>3 DEF OrderOK
<1>18. FetchedOK'
  BY <1>1, <1>13, <1>16 DEF FetchedOK
<1>19. KeptOK' /\ SettledOK'
  BY <1>1, <1>15, SameMemory
<1>20. QED
  BY <1>9, <1>10, <1>17, <1>18, <1>19 DEF IInv

LEMMA ProcessedKeeps ==
    ASSUME IInv, NEW r \in Senders, Processed(r)
    PROVE  IInv'
<1> USE DEF platform
<1>0. PICK q, u, t : q = handled[r] /\ u = worker[r].msg /\ t = Append(q, u)
  OBVIOUS
<1>1. /\ TypeOK /\ HeldOK /\ OrderOK /\ FetchedOK /\ KeptOK /\ SettledOK
      /\ process # "down" /\ worker[r].at = "processing"
      /\ handled' = [handled EXCEPT ![r] = t]
      /\ done' = done \cup {u}
      /\ again' = IF u \in done THEN again \cup {u} ELSE again
      /\ worker' = [worker EXCEPT ![r] = [at |-> "idle", msg |-> Nothing]]
      /\ UNCHANGED <<platform, process, poll, recv, reader, queue, lives, fetched, abandoned,
                     unsettled>>
  BY <1>0 DEF IInv, Processed, NextMessage
<1>2. /\ handled \in [Senders -> Seq(Texts)] /\ q \in Seq(Texts) /\ Texts \in SUBSET Nat
      /\ u \in Texts /\ u # Nothing
      /\ worker \in [Senders -> [at : {"none", "idle", "processing", "gone"},
                                 msg : Texts \cup {Nothing}]]
  <2>1. /\ handled \in [Senders -> Seq(Texts)] /\ Texts \in SUBSET Nat
        /\ worker \in [Senders -> [at : {"none", "idle", "processing", "gone"},
                                   msg : Texts \cup {Nothing}]]
    BY <1>1 DEF TypeOK
  <2>2. worker[r].msg # Nothing
    BY <1>1 DEF HeldOK
  <2>3. QED
    BY <1>0, <2>1, <2>2
<1>3. /\ Increasing(handled[r]) /\ Increasing(queue[r])
      /\ Less(Handled(r), Working(r) \cup Queued(r)) /\ Less(Working(r), Queued(r))
      /\ Less(Own(r), Shared) /\ Own(r) \subseteq Of(r)
  BY <1>1 DEF OrderOK
<1>4. Working(r) = {u} /\ Handled(r) = ToSet(q)
  BY <1>0, <1>2, HeldSet DEF Working, Handled
<1>5. Increasing(q) /\ Less(ToSet(q), {u})
  BY <1>0, <1>3, <1>4 DEF Less
<1>6. t \in Seq(Texts) /\ Increasing(t)
  BY <1>0, <1>2, <1>5, AppendRises
<1>7. \A x : x \in ToSet(t) <=> (x \in ToSet(q) \/ x = u)
  <2>1. q \in Seq(Texts) /\ t = Append(q, u)
    BY <1>0, <1>2
  <2>2. QED
    BY <2>1, AppendSet
<1>8. /\ handled' \in [Senders -> Seq(Texts)] /\ handled'[r] = t
      /\ \A s \in Senders : s # r => handled'[s] = handled[s]
  BY <1>1, <1>2, <1>6
<1>9. /\ worker' \in [Senders -> [at : {"none", "idle", "processing", "gone"},
                                  msg : Texts \cup {Nothing}]]
      /\ worker'[r].at = "idle" /\ worker'[r].msg = Nothing
      /\ \A s \in Senders : s # r => worker'[s] = worker[s]
  BY <1>1, <1>2
<1>10. HeldOK'
  BY <1>1, <1>9 DEF HeldOK
<1>11. /\ Working(r)' = {} /\ Handled(r)' = Handled(r) \cup {u} /\ Queued(r)' = Queued(r)
       /\ \A s \in Senders : s # r => /\ Working(s)' = Working(s) /\ Handled(s)' = Handled(s)
                                      /\ Queued(s)' = Queued(s)
  <2>1. Working(r)' = {}
    BY <1>9, HeldSet DEF Working
  <2>2. Handled(r)' = ToSet(t)
    BY <1>8 DEF Handled
  <2>3. ToSet(t) = ToSet(q) \cup {u}
    BY <1>7
  <2>4. Queued(r)' = Queued(r) /\ \A s \in Senders : Queued(s)' = Queued(s)
    BY <1>1 DEF Queued
  <2>5. \A s \in Senders : s # r => Working(s)' = Working(s) /\ Handled(s)' = Handled(s)
    BY <1>8, <1>9 DEF Working, Handled
  <2>6. QED
    BY <1>4, <2>1, <2>2, <2>3, <2>4, <2>5
<1>12. Shared' = Shared /\ Reading' = Reading /\ Received' = Received /\ Batch' = Batch
  BY <1>1 DEF Shared, Reading, Received, Batch
<1>13. \A s \in Senders : Own(s)' = Own(s)
  <2>1. Own(r)' = Own(r)
    BY <1>4, <1>11 DEF Own
  <2>2. QED
    BY <1>11, <2>1 DEF Own
<1>14. u \in Of(r) /\ SenderOf[u] = r /\ u \notin Handled(r) /\ u \in fetched
  <2>1. u \in Own(r)
    BY <1>4 DEF Own
  <2>2. u \in Of(r) /\ SenderOf[u] = r
    BY <1>3, <2>1, OfSenders
  <2>3. u \in fetched
    BY <1>1, <2>1 DEF FetchedOK
  <2>4. u \notin Handled(r)
    BY <1>2, <1>4, <1>5 DEF Less
  <2>5. QED
    BY <2>2, <2>3, <2>4
\* One that was processed before is unsettled: it is in memory, so this process has
\* fetched it, and it is not among the messages this process has processed.
<1>15. u \in done => u \in unsettled
  BY <1>1, <1>14 DEF SettledOK
<1>16. /\ done' \subseteq Texts /\ again' \subseteq done' /\ again' \subseteq unsettled
       /\ unsettled' \subseteq done' /\ done \subseteq done'
  BY <1>1, <1>2, <1>15 DEF TypeOK, SettledOK
<1>17. TypeOK'
  BY <1>1, <1>8, <1>9, <1>16 DEF TypeOK
<1>18. \A s \in Senders : Handled(s)' \cup InMemory(s)' = Handled(s) \cup InMemory(s)
  <2>1. Handled(r)' \cup InMemory(r)' = Handled(r) \cup InMemory(r)
    BY <1>4, <1>11, <1>12, <1>14, InMemoryIs
  <2>2. QED
    BY <1>11, <1>12, <2>1, InMemoryIs
<1>19. \A s \in Senders : InMemory(s) \subseteq InMemory(s)' \cup {u}
  <2>1. InMemory(r) \subseteq InMemory(r)' \cup {u}
    BY <1>4, <1>11, <1>12, InMemoryIs
  <2>2. QED
    BY <1>11, <1>12, <2>1, InMemoryIs
<1>20. OrderOK'
  <2>1. ASSUME NEW s \in Senders
        PROVE  /\ Increasing(handled'[s]) /\ Increasing(queue'[s]) /\ Less(Working(s)', Queued(s)')
               /\ Less(Handled(s)', Working(s)' \cup Queued(s)')
               /\ Less(Own(s)', Shared') /\ Own(s)' \subseteq Of(s)
    <3>1. /\ Increasing(handled[s]) /\ Increasing(queue[s]) /\ Less(Working(s), Queued(s))
          /\ Less(Handled(s), Working(s) \cup Queued(s))
          /\ Less(Own(s), Shared) /\ Own(s) \subseteq Of(s)
      BY <1>1 DEF OrderOK
    <3>2. CASE s = r
      <4>1. Less(Working(s)', Queued(s)') /\ Less(Handled(s)', Working(s)' \cup Queued(s)')
        BY <1>3, <1>4, <1>11, <3>2 DEF Less
      <4>2. Own(s)' = Own(s) /\ Shared' = Shared
        BY <1>12, <1>13
      <4>3. QED
        BY <1>1, <1>6, <1>8, <3>1, <3>2, <4>1, <4>2
    <3>3. CASE s # r
      <4>1. Own(s)' = Own(s) /\ Shared' = Shared
        BY <1>12, <1>13
      <4>2. handled'[s] = handled[s] /\ queue'[s] = queue[s]
        BY <1>1, <1>8, <3>3
      <4>3. Working(s)' = Working(s) /\ Handled(s)' = Handled(s) /\ Queued(s)' = Queued(s)
        BY <1>11, <3>3
      <4>4. QED
        BY <3>1, <4>1, <4>2, <4>3
    <3>4. QED
      BY <3>2, <3>3
  <2>2. /\ Less(Reading', Received' \cup Batch') /\ Less(Received', Batch')
        /\ Increasing(recv'.buf) /\ Increasing(poll'.batch)
    BY <1>1, <1>12 DEF OrderOK
  <2>3. QED
    BY <2>1, <2>2 DEF OrderOK
<1>21. FetchedOK'
  BY <1>1, <1>12, <1>13 DEF FetchedOK
<1>22. KeptOK'
  <2>1. /\ process' = "up" =>
              \A s \in Senders : fetched' \cap Of(s) \subseteq Handled(s)' \cup InMemory(s)'
        /\ process' = "stopping" =>
              \A s \in Senders : fetched' \cap Of(s) \subseteq Handled(s)' \cup InMemory(s)' \cup abandoned'
    BY <1>1, <1>18 DEF KeptOK
  <2>2. \A s \in Senders : Handled(s)' \subseteq done'
    <3>1. \A s \in Senders : Handled(s) \subseteq done
      BY <1>1 DEF KeptOK
    <3>2. QED
      BY <1>1, <1>11, <3>1
  <2>3. ASSUME NEW v \in Texts \cap 1..confirmed'
        PROVE  v \in done' \cup abandoned' \/ v \in InMemory(SenderOf[v])'
    <3>1. v \in done \cup abandoned \/ v \in InMemory(SenderOf[v])
      BY <1>1, <2>3 DEF KeptOK
    <3>2. SenderOf[v] \in Senders
      BY OfSenders
    <3>3. QED
      BY <1>1, <1>19, <3>1, <3>2
  <2>4. QED
    BY <1>1, <2>1, <2>2, <2>3 DEF KeptOK
<1>23. SettledOK'
  <2>1. ASSUME NEW v \in done' \ unsettled'
        PROVE  v \in Handled(SenderOf[v])' \/ (v <= confirmed' /\ v \notin fetched')
    <3>1. CASE v = u
      BY <1>11, <1>14, <3>1
    <3>2. CASE v # u
      <4>1. v \in done \ unsettled /\ SenderOf[v] \in Senders
        BY <1>1, <1>16, <2>1, <3>2, OfSenders
      <4>2. v \in Handled(SenderOf[v]) \/ (v <= confirmed /\ v \notin fetched)
        BY <1>1, <4>1 DEF SettledOK
      <4>3. Handled(SenderOf[v]) \subseteq Handled(SenderOf[v])'
        BY <1>11, <4>1
      <4>4. QED
        BY <1>1, <4>2, <4>3
    <3>3. QED
      BY <3>1, <3>2
  <2>2. QED
    BY <1>1, <1>16, <2>1 DEF SettledOK
<1>24. QED
  BY <1>10, <1>17, <1>20, <1>21, <1>22, <1>23 DEF IInv

LEMMA LeaveKeeps ==
    ASSUME IInv, Leave
    PROVE  IInv'
<1> USE DEF platform
<1>1. /\ TypeOK /\ HeldOK /\ OrderOK /\ FetchedOK /\ KeptOK /\ SettledOK
      /\ process = "stopping"
      /\ UNCHANGED <<platform, process, poll, recv, queue, lives, fetched, handled, done, again,
                     unsettled>>
  BY DEF IInv, Leave
<1>2. /\ Received' = Received /\ Batch' = Batch
      /\ \A s \in Senders : Handled(s)' = Handled(s) /\ Queued(s)' = Queued(s)
  BY <1>1 DEF Received, Batch, Handled, Queued
<1>3. CASE /\ reader' = [at |-> IF reader.at = "dispatching" THEN "reading" ELSE "gone",
                          msg |-> Nothing]
           /\ abandoned' = abandoned \cup Reading
           /\ UNCHANGED worker
  <2>1. Reading \subseteq Texts /\ Reading' = {}
    <3>1. reader.msg \in Texts \cup {Nothing} /\ reader'.msg = Nothing
      BY <1>1, <1>3 DEF TypeOK
    <3>2. QED
      BY <3>1, HeldSet DEF Reading
  <2>2. /\ reader' \in [at : {"reading", "dispatching", "gone"}, msg : Texts \cup {Nothing}]
        /\ reader'.at \in {"reading", "gone"} /\ reader'.msg = Nothing
    BY <1>3
  <2>3. TypeOK'
    BY <1>1, <1>3, <2>1, <2>2 DEF TypeOK
  <2>4. HeldOK'
    BY <1>1, <1>3, <2>2 DEF HeldOK
  <2>5. \A s \in Senders : Working(s)' = Working(s) /\ Own(s)' = Own(s)
    BY <1>2, <1>3 DEF Working, Own
  <2>6. Shared' \subseteq Shared /\ Shared = Shared' \cup Reading
    BY <1>2, <2>1 DEF Shared
  <2>7. OrderOK'
    BY <1>1, <1>2, <2>1, <2>5, <2>6 DEF OrderOK, Less
  <2>8. FetchedOK'
    BY <1>1, <1>2, <2>5, <2>6 DEF FetchedOK
  <2>9. \A s \in Senders : InMemory(s) \subseteq InMemory(s)' \cup abandoned'
    BY <1>2, <1>3, <2>5, <2>6, InMemoryIs
  <2>10. KeptOK'
    <3>1. \A s \in Senders :
             fetched' \cap Of(s) \subseteq Handled(s)' \cup InMemory(s)' \cup abandoned'
      BY <1>1, <1>2, <1>3, <2>9 DEF KeptOK
    <3>2. ASSUME NEW u \in Texts \cap 1..confirmed'
          PROVE  u \in done' \cup abandoned' \/ u \in InMemory(SenderOf[u])'
      BY <1>1, <1>3, <2>9, <3>2, OfSenders DEF KeptOK
    <3>3. QED
      BY <1>1, <1>2, <3>1, <3>2 DEF KeptOK
  <2>11. SettledOK'
    <3>1. \A u \in done : SenderOf[u] \in Senders
      BY <1>1, OfSenders DEF TypeOK
    <3>2. QED
      BY <1>1, <1>2, <3>1 DEF SettledOK
  <2>12. QED
    BY <2>3, <2>4, <2>7, <2>8, <2>10, <2>11 DEF IInv
<1>4. ASSUME NEW r \in Senders, worker[r].at = "idle",
             worker' = [worker EXCEPT ![r].at = "gone"], UNCHANGED <<reader, abandoned>>
      PROVE  IInv'
  <2>1. /\ worker' \in [Senders -> [at : {"none", "idle", "processing", "gone"},
                                    msg : Texts \cup {Nothing}]]
        /\ \A s \in Senders : /\ worker'[s].msg = worker[s].msg
                              /\ worker'[s].at = "processing" <=> worker[s].at = "processing"
    BY <1>1, <1>4 DEF TypeOK
  <2>2. TypeOK'
    BY <1>1, <1>4, <2>1 DEF TypeOK
  <2>3. HeldOK'
    BY <1>1, <1>4, <2>1 DEF HeldOK
  <2>4. /\ Reading' = Reading /\ Shared' = Shared
        /\ \A s \in Senders : Working(s)' = Working(s) /\ Own(s)' = Own(s)
    BY <1>2, <1>4, <2>1 DEF Reading, Shared, Working, Own
  <2>5. \A s \in Senders : InMemory(s)' = InMemory(s)
    BY <1>2, <2>4, InMemoryIs
  <2>6. OrderOK'
    BY <1>1, <1>2, <2>4 DEF OrderOK
  <2>7. FetchedOK'
    BY <1>1, <1>2, <2>4 DEF FetchedOK
  <2>8. KeptOK' /\ SettledOK'
    BY <1>1, <1>4, <2>5, SameMemory
  <2>9. QED
    BY <2>2, <2>3, <2>6, <2>7, <2>8 DEF IInv
<1>5. QED
  BY <1>3, <1>4 DEF Leave, Reading

-----------------------------------------------------------------------------
(* The process.                                                             *)

LEMMA CancelKeeps ==
    ASSUME IInv, Cancel
    PROVE  IInv'
<1> USE DEF platform, past
<1>1. /\ TypeOK /\ HeldOK /\ OrderOK /\ FetchedOK /\ KeptOK /\ SettledOK
      /\ process = "up" /\ process' = "stopping"
      /\ UNCHANGED <<platform, poll, recv, reader, queue, worker, past>>
  BY DEF IInv, Cancel
<1>2. TypeOK'
  BY <1>1 DEF TypeOK
<1>3. /\ HeldOK' /\ OrderOK' /\ Shared' = Shared /\ Batch' = Batch
      /\ \A s \in Senders : /\ Handled(s)' = Handled(s) /\ Own(s)' = Own(s)
                            /\ InMemory(s)' = InMemory(s)
  BY <1>1, SameQueues
<1>4. FetchedOK'
  BY <1>1, <1>3 DEF FetchedOK
<1>5. KeptOK'
  BY <1>1, <1>3, OfSenders DEF KeptOK
<1>6. \A u \in done : SenderOf[u] \in Senders
  BY <1>1, OfSenders DEF TypeOK
<1>7. SettledOK'
  BY <1>1, <1>3, <1>6 DEF SettledOK
<1>8. QED
  BY <1>2, <1>3, <1>4, <1>5, <1>7 DEF IInv

LEMMA DisconnectKeeps ==
    ASSUME IInv, Disconnect
    PROVE  IInv'
<1> USE DEF platform, past
<1>1. /\ TypeOK /\ HeldOK /\ OrderOK /\ FetchedOK /\ KeptOK /\ SettledOK
      /\ recv' = [recv EXCEPT !.open = FALSE]
      /\ UNCHANGED <<platform, process, poll, reader, queue, worker, past>>
  BY DEF IInv, Disconnect
<1>2. recv' \in [buf : Seq(Texts), open : BOOLEAN] /\ recv'.buf = recv.buf
  BY <1>1 DEF TypeOK
<1>3. TypeOK'
  BY <1>1, <1>2 DEF TypeOK
<1>4. /\ Received' = Received /\ Reading' = Reading /\ Batch' = Batch /\ Shared' = Shared
      /\ \A s \in Senders : /\ Handled(s)' = Handled(s) /\ Working(s)' = Working(s)
                            /\ Queued(s)' = Queued(s) /\ Own(s)' = Own(s)
  BY <1>1, <1>2 DEF Received, Reading, Batch, Shared, Handled, Working, Queued, Own
<1>5. \A s \in Senders : InMemory(s)' = InMemory(s)
  BY <1>4, InMemoryIs
<1>6. HeldOK'
  BY <1>1 DEF HeldOK
<1>7. OrderOK'
  BY <1>1, <1>2, <1>4 DEF OrderOK
<1>8. FetchedOK'
  BY <1>1, <1>4 DEF FetchedOK
<1>9. KeptOK' /\ SettledOK'
  BY <1>1, <1>5, SameMemory
<1>10. QED
  BY <1>3, <1>6, <1>7, <1>8, <1>9 DEF IInv

LEMMA EndsKeeps ==
    ASSUME IInv, process # "down", Ends
    PROVE  IInv'
<1> USE DEF platform
<1>1. /\ TypeOK /\ HeldOK /\ OrderOK /\ FetchedOK /\ KeptOK /\ SettledOK
      /\ process' = "down"
      /\ abandoned' = abandoned \cup UNION {InMemory(s) : s \in Senders}
      /\ unsettled' = unsettled \cup {u \in done : u > confirmed}
      /\ UNCHANGED <<platform, poll, recv, reader, queue, worker, lives, fetched, handled, done, again>>
  BY DEF IInv, Ends
<1>2. \A s \in Senders : InMemory(s) \subseteq abandoned' /\ InMemory(s) \subseteq Texts
  BY <1>1, InMemoryIs DEF Of
<1>3. abandoned \subseteq abandoned' /\ abandoned' \subseteq Texts
  <2>1. abandoned \subseteq Texts
    BY <1>1 DEF TypeOK
  <2>2. UNION {InMemory(s) : s \in Senders} \subseteq Texts
    BY <1>2
  <2>3. QED
    BY <1>1, <2>1, <2>2
<1>4. unsettled' \subseteq done /\ unsettled \subseteq unsettled'
  BY <1>1 DEF TypeOK
<1>5. TypeOK'
  BY <1>1, <1>3, <1>4 DEF TypeOK
<1>6. /\ HeldOK' /\ OrderOK' /\ Shared' = Shared /\ Batch' = Batch
      /\ \A s \in Senders : /\ Handled(s)' = Handled(s) /\ Own(s)' = Own(s)
                            /\ InMemory(s)' = InMemory(s)
  BY <1>1, SameQueues
<1>7. FetchedOK'
  BY <1>1, <1>6 DEF FetchedOK
<1>8. ASSUME NEW u \in Texts \cap 1..confirmed
      PROVE  u \in done \cup abandoned'
  BY <1>1, <1>2, <1>3, <1>8, OfSenders DEF KeptOK
<1>9. KeptOK'
  <2>1. \A s \in Senders : Handled(s)' \subseteq done'
    BY <1>1, <1>6 DEF KeptOK
  <2>2. QED
    BY <1>1, <1>8, <2>1 DEF KeptOK
<1>10. ASSUME NEW u \in done \ unsettled'
       PROVE  u <= confirmed
  BY <1>1, <1>10 DEF TypeOK
<1>11. SettledOK'
  BY <1>1, <1>4, <1>10 DEF SettledOK
<1>12. QED
  BY <1>5, <1>6, <1>7, <1>9, <1>11 DEF IInv

LEMMA Emptied ==
    ASSUME poll' = NewPoll, recv' = [buf |-> <<>>, open |-> TRUE],
           reader' = [at |-> "reading", msg |-> Nothing],
           queue' = [s \in Senders |-> <<>>], worker' = [s \in Senders |-> Idle],
           handled' = [s \in Senders |-> <<>>], fetched' = {}
    PROVE  /\ HeldOK' /\ OrderOK' /\ FetchedOK'
           /\ \A s \in Senders : Handled(s)' = {} /\ InMemory(s)' = {}
           /\ poll' \in [at : {"asking", "waiting", "delivering", "gone"}, offset : Nat, next : Nat,
                         batch : Seq(Updates)]
           /\ poll'.offset = 0 /\ poll'.next = 0
           /\ recv' \in [buf : Seq(Texts), open : BOOLEAN] /\ Len(recv'.buf) = 0
           /\ reader' \in [at : {"reading", "dispatching", "gone"}, msg : Texts \cup {Nothing}]
           /\ queue' \in [Senders -> Seq(Texts)] /\ \A s \in Senders : Len(queue'[s]) = 0
           /\ handled' \in [Senders -> Seq(Texts)]
           /\ worker' \in [Senders -> [at : {"none", "idle", "processing", "gone"},
                                       msg : Texts \cup {Nothing}]]
<1>1. /\ poll'.batch = <<>> /\ poll'.offset = 0 /\ poll'.next = 0 /\ recv'.buf = <<>>
      /\ reader'.at = "reading" /\ reader'.msg = Nothing
      /\ \A s \in Senders : /\ queue'[s] = <<>> /\ handled'[s] = <<>>
                            /\ worker'[s].at = "none" /\ worker'[s].msg = Nothing
  BY DEF NewPoll, Idle
<1>2. /\ poll' \in [at : {"asking", "waiting", "delivering", "gone"}, offset : Nat, next : Nat,
                    batch : Seq(Updates)]
      /\ recv' \in [buf : Seq(Texts), open : BOOLEAN] /\ Len(recv'.buf) = 0
      /\ reader' \in [at : {"reading", "dispatching", "gone"}, msg : Texts \cup {Nothing}]
      /\ queue' \in [Senders -> Seq(Texts)] /\ \A s \in Senders : Len(queue'[s]) = 0
      /\ handled' \in [Senders -> Seq(Texts)]
      /\ worker' \in [Senders -> [at : {"none", "idle", "processing", "gone"},
                                  msg : Texts \cup {Nothing}]]
  BY <1>1 DEF NewPoll, Idle
<1>3. /\ Reading' = {} /\ Received' = {} /\ Batch' = {} /\ Shared' = {}
      /\ \A s \in Senders : Handled(s)' = {} /\ Working(s)' = {} /\ Queued(s)' = {} /\ Own(s)' = {}
  BY <1>1, HeldSet, EmptySet DEF Reading, Received, Batch, Shared, Handled, Working, Queued, Own
<1>4. HeldOK'
  BY <1>1 DEF HeldOK
<1>5. OrderOK'
  BY <1>1, <1>3, EmptySet DEF OrderOK, Less
<1>6. FetchedOK'
  BY <1>1, <1>3 DEF FetchedOK
<1>7. \A s \in Senders : InMemory(s)' = {}
  BY <1>3, InMemoryIs
<1>8. QED
  BY <1>1, <1>2, <1>3, <1>4, <1>5, <1>6, <1>7

LEMMA RestartKeeps ==
    ASSUME IInv, Restart
    PROVE  IInv'
<1> USE DEF platform
<1>1. /\ TypeOK /\ KeptOK /\ SettledOK
      /\ process = "down" /\ process' = "up" /\ lives < MaxLives /\ lives' = lives + 1
      /\ poll' = NewPoll /\ recv' = [buf |-> <<>>, open |-> TRUE]
      /\ reader' = [at |-> "reading", msg |-> Nothing]
      /\ queue' = [s \in Senders |-> <<>>] /\ worker' = [s \in Senders |-> Idle]
      /\ fetched' = {} /\ handled' = [s \in Senders |-> <<>>]
      /\ UNCHANGED <<platform, done, again, abandoned, unsettled>>
  BY DEF IInv, Restart
<1>2. HeldOK' /\ OrderOK' /\ FetchedOK' /\ \A s \in Senders : Handled(s)' = {}
  BY <1>1, Emptied
<1>3. /\ poll' \in [at : {"asking", "waiting", "delivering", "gone"}, offset : Nat, next : Nat,
                    batch : Seq(Updates)]
      /\ poll'.offset = 0 /\ poll'.next = 0
      /\ recv' \in [buf : Seq(Texts), open : BOOLEAN] /\ Len(recv'.buf) = 0
      /\ reader' \in [at : {"reading", "dispatching", "gone"}, msg : Texts \cup {Nothing}]
      /\ queue' \in [Senders -> Seq(Texts)] /\ \A s \in Senders : Len(queue'[s]) = 0
      /\ handled' \in [Senders -> Seq(Texts)]
      /\ worker' \in [Senders -> [at : {"none", "idle", "processing", "gone"},
                                  msg : Texts \cup {Nothing}]]
  BY <1>1, Emptied
<1>4. TypeOK'
  BY <1>1, <1>3 DEF TypeOK
<1>5. KeptOK'
  BY <1>1, <1>2 DEF KeptOK
<1>6. SettledOK'
  BY <1>1 DEF SettledOK
<1>7. QED
  BY <1>2, <1>4, <1>5, <1>6 DEF IInv

-----------------------------------------------------------------------------
(* The theorems.                                                            *)

LEMMA InvInit ==
    ASSUME Init
    PROVE  IInv
<1>1. /\ poll.batch = <<>> /\ poll.offset = 0 /\ poll.next = 0 /\ recv.buf = <<>>
      /\ reader.at = "reading" /\ reader.msg = Nothing
      /\ \A s \in Senders : /\ queue[s] = <<>> /\ handled[s] = <<>>
                            /\ worker[s].at = "none" /\ worker[s].msg = Nothing
  BY DEF Init, NewPoll, Idle
<1>2. /\ poll \in [at : {"asking", "waiting", "delivering", "gone"}, offset : Nat, next : Nat,
                   batch : Seq(Updates)]
      /\ recv \in [buf : Seq(Texts), open : BOOLEAN] /\ Len(recv.buf) = 0
      /\ reader \in [at : {"reading", "dispatching", "gone"}, msg : Texts \cup {Nothing}]
      /\ queue \in [Senders -> Seq(Texts)] /\ \A s \in Senders : Len(queue[s]) = 0
      /\ handled \in [Senders -> Seq(Texts)]
      /\ worker \in [Senders -> [at : {"none", "idle", "processing", "gone"},
                                 msg : Texts \cup {Nothing}]]
  BY <1>1 DEF Init, NewPoll, Idle
<1>3. TypeOK
  BY <1>1, <1>2 DEF Init, TypeOK
<1>4. /\ Reading = {} /\ Received = {} /\ Batch = {} /\ Shared = {}
      /\ \A s \in Senders : Handled(s) = {} /\ Working(s) = {} /\ Queued(s) = {} /\ Own(s) = {}
  BY <1>1, HeldSet, EmptySet DEF Reading, Received, Batch, Shared, Handled, Working, Queued, Own
<1>5. HeldOK
  BY <1>1 DEF HeldOK
<1>6. OrderOK
  BY <1>1, <1>4, EmptySet DEF OrderOK, Less
<1>7. FetchedOK
  BY <1>1, <1>4 DEF FetchedOK, Init
<1>8. KeptOK
  BY <1>4 DEF KeptOK, Init
<1>9. SettledOK
  BY DEF SettledOK, Init
<1>10. QED
  BY <1>3, <1>5, <1>6, <1>7, <1>8, <1>9 DEF IInv

LEMMA InvStep ==
    ASSUME IInv, [Next]_vars
    PROVE  IInv'
<1>1. CASE Arrive
  BY <1>1, ArriveKeeps
<1>2. CASE AskUpdates
  BY <1>2, AskKeeps
<1>3. CASE Answer
  BY <1>3, AnswerKeeps
<1>4. CASE AnswerLost
  BY <1>4, AnswerLostKeeps
<1>5. CASE Deliver
  BY <1>5, DeliverKeeps
<1>6. CASE PollDone
  BY <1>6, PollDoneKeeps
<1>7. CASE Receive
  BY <1>7, ReceiveKeeps
<1>8. CASE Dispatch
  BY <1>8, DispatchKeeps
<1>9. CASE Leave
  BY <1>9, LeaveKeeps
<1>10. ASSUME NEW s \in Senders, Take(s) \/ Processed(s)
       PROVE  IInv'
  BY <1>10, TakeKeeps, ProcessedKeeps
<1>11. CASE Cancel
  BY <1>11, CancelKeeps
<1>12. CASE Disconnect
  BY <1>12, DisconnectKeeps
<1>13. CASE SendOnClosed \/ Exit
  BY <1>13, EndsKeeps DEF SendOnClosed, Exit
<1>14. CASE Restart
  BY <1>14, RestartKeeps
<1>15. CASE UNCHANGED vars
  <2>1. /\ UNCHANGED <<arrived, confirmed, process, poll, recv, reader, queue, worker>>
        /\ UNCHANGED <<lives, fetched, handled, done, again, abandoned, unsettled>>
    BY <1>15 DEF vars
  <2>2. TypeOK /\ HeldOK /\ OrderOK /\ FetchedOK /\ KeptOK /\ SettledOK
    BY DEF IInv
  <2>3. /\ HeldOK' /\ OrderOK' /\ Shared' = Shared /\ Batch' = Batch
        /\ \A s \in Senders : /\ Handled(s)' = Handled(s) /\ Own(s)' = Own(s)
                              /\ InMemory(s)' = InMemory(s)
    BY <2>1, SameQueues
  <2>4. TypeOK'
    BY <2>1, <2>2 DEF TypeOK
  <2>5. FetchedOK'
    BY <2>1, <2>2, <2>3 DEF FetchedOK
  <2>6. KeptOK' /\ SettledOK'
    BY <2>1, <2>2, <2>3, SameMemory
  <2>7. QED
    BY <2>3, <2>4, <2>5, <2>6 DEF IInv
<1>16. QED
  BY <1>1, <1>2, <1>3, <1>4, <1>5, <1>6, <1>7, <1>8, <1>9, <1>10, <1>11, <1>12, <1>13, <1>14,
     <1>15 DEF Next

\* The inductive invariant holds in every state: the queues never overtake each other,
\* what a process fetched is on its way or processed, and the past is accounted for.
THEOREM InductiveInvariant == Spec => []IInv
<1>1. Init => IInv
  BY InvInit
<1>2. IInv /\ [Next]_vars => IInv'
  BY InvStep
<1>3. QED
  BY <1>1, <1>2, PTL DEF Spec

\* No buffer ever holds more than the size the manager or the Telegram channel gives it,
\* and the offset of the long poll never runs ahead of what has arrived.
THEOREM TypeCorrect == Spec => []TypeOK
<1>1. IInv => TypeOK
  BY DEF IInv
<1>2. QED
  BY <1>1, InductiveInvariant, PTL

\* What two queues hold, one nearer to the worker than the other.
LEMMA InOrderFrom ==
    ASSUME NEW h, NEW w, NEW q, NEW r, NEW b, NEW p,
           Increasing(h), Increasing(w), Increasing(q), Increasing(r), Increasing(b), Increasing(p),
           Less(ToSet(h), ToSet(w) \cup ToSet(q) \cup ToSet(r) \cup ToSet(b) \cup ToSet(p)),
           Less(ToSet(w), ToSet(q) \cup ToSet(r) \cup ToSet(b) \cup ToSet(p)),
           Less(ToSet(q), ToSet(r) \cup ToSet(b) \cup ToSet(p)),
           Less(ToSet(r), ToSet(b) \cup ToSet(p)),
           Less(ToSet(b), ToSet(p))
    PROVE  InOrder(<<h, w, q, r, b, p>>)
<1> DEFINE six == <<h, w, q, r, b, p>>
<1>1. /\ DOMAIN six = 1..6 /\ six[1] = h /\ six[2] = w /\ six[3] = q
      /\ six[4] = r /\ six[5] = b /\ six[6] = p
  OBVIOUS
<1> HIDE DEF six
<1>2. ASSUME NEW a \in 1..6, NEW c \in 1..6, NEW i \in DOMAIN six[a], NEW j \in DOMAIN six[c],
             a < c \/ (a = c /\ i < j)
      PROVE  six[a][i] < six[c][j]
  <2>1. CASE a = c
    <3>1. Increasing(six[a])
      BY <1>1
    <3>2. QED
      BY <1>2, <2>1, <3>1 DEF Increasing
  <2>2. CASE a < c
    <3>1. Less(ToSet(six[a]), ToSet(six[c]))
      <4>1. a \in {1, 2, 3, 4, 5} /\ c \in {2, 3, 4, 5, 6}
        BY <2>2
      <4>2. QED
        BY <1>1, <2>2, <4>1 DEF Less
    <3>2. six[a][i] \in ToSet(six[a]) /\ six[c][j] \in ToSet(six[c])
      BY DEF ToSet
    <3>3. QED
      BY <3>1, <3>2 DEF Less
  <2>3. QED
    BY <1>2, <2>1, <2>2
<1>3. InOrder(six)
  BY <1>1, <1>2 DEF InOrder
<1>4. QED
  BY <1>3 DEF six

LEMMA HeldRises == \A m : Increasing(Held(m))
BY DEF Held, Increasing

\* While the process is up, nothing that was fetched is lost, duplicated or overtaken:
\* what was fetched from a sender is, in order and each once, what his worker processed
\* and what is on its way to it, through five queues and with any buffer sizes.
THEOREM MessagesConserved == Spec => []Conserved
<1>1. IInv => Conserved
  <2> SUFFICES ASSUME IInv, process = "up", NEW s \in Senders
               PROVE  /\ InOrder(<<handled[s], Held(worker[s].msg), queue[s],
                                   Held(reader.msg), recv.buf, poll.batch>>)
                      /\ ToSet(handled[s]) \cup InMemory(s) = fetched \cap Of(s)
    BY DEF Conserved
  <2>1. /\ Increasing(recv.buf) /\ Increasing(poll.batch)
        /\ Less(Reading, Received \cup Batch) /\ Less(Received, Batch)
        /\ Increasing(handled[s]) /\ Increasing(queue[s])
        /\ Less(Handled(s), Working(s) \cup Queued(s)) /\ Less(Working(s), Queued(s))
        /\ Less(Own(s), Shared) /\ Own(s) \subseteq Of(s)
    BY DEF IInv, OrderOK
  <2>2. Increasing(Held(worker[s].msg)) /\ Increasing(Held(reader.msg))
    BY HeldRises
  <2>3. Less(Handled(s), Working(s) \cup Queued(s) \cup Reading \cup Received \cup Batch)
    BY <2>1 DEF Less, Own, Shared
  <2>4. Less(Working(s), Queued(s) \cup Reading \cup Received \cup Batch)
    BY <2>1 DEF Less, Own, Shared
  <2>5. Less(Queued(s), Reading \cup Received \cup Batch)
    BY <2>1 DEF Less, Own, Shared
  <2>6. InOrder(<<handled[s], Held(worker[s].msg), queue[s], Held(reader.msg), recv.buf, poll.batch>>)
    BY <2>1, <2>2, <2>3, <2>4, <2>5, InOrderFrom
       DEF Handled, Working, Queued, Reading, Received, Batch
  <2>7. fetched \cap Of(s) \subseteq Handled(s) \cup InMemory(s)
    BY DEF IInv, KeptOK
  <2>8. Handled(s) \cup InMemory(s) \subseteq fetched \cap Of(s)
    <3>1. Shared \subseteq fetched /\ Own(s) \subseteq fetched
      BY DEF IInv, FetchedOK
    <3>2. QED
      BY <2>1, <3>1, InMemoryIs DEF Own
  <2>9. QED
    BY <2>6, <2>7, <2>8 DEF Handled
<1>2. QED
  BY <1>1, InductiveInvariant, PTL

\* Over any number of restarts, a message that the platform has forgotten was processed,
\* is in memory, or was in the memory of a process that ended, and a message is processed
\* twice only if its process ended before a poll had confirmed it.
THEOREM RestartsAlwaysExplained == Spec => []RestartsExplained
<1>1. IInv => RestartsExplained
  BY DEF IInv, KeptOK, SettledOK, RestartsExplained
<1>2. QED
  BY <1>1, InductiveInvariant, PTL
=============================================================================
