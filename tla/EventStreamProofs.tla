------------------------- MODULE EventStreamProofs -------------------------
(***************************************************************************)
(* Proofs about EventStream for any size of the buffer, any trace and any   *)
(* number of events and subscriptions.                                      *)
(***************************************************************************)
EXTENDS EventStream, SequenceTheorems, TLAPS

USE StreamAssumption DEF StreamAssumption, Subs, Events

-----------------------------------------------------------------------------
(* Sequences cut in two: what has been written, and the buffer.             *)

\* An element appended to the second part is appended to the whole.
LEMMA AppendToSecond ==
    ASSUME NEW S, NEW s \in Seq(S), NEW t \in Seq(S), NEW e \in S
    PROVE  /\ Len(s \o Append(t, e)) = Len(s \o t) + 1
           /\ \A i \in 1..Len(s \o t) : (s \o Append(t, e))[i] = (s \o t)[i]
           /\ (s \o Append(t, e))[Len(s \o t) + 1] = e
<1>1. Append(t, e) \in Seq(S) /\ Len(Append(t, e)) = Len(t) + 1
      /\ (\A i \in 1..Len(t) : Append(t, e)[i] = t[i]) /\ Append(t, e)[Len(t) + 1] = e
  BY AppendProperties
<1>2. Len(s) \in Nat /\ Len(t) \in Nat
  BY LenProperties
<1>3. /\ Len(s \o t) = Len(s) + Len(t)
      /\ \A i \in 1..Len(s) + Len(t) : (s \o t)[i] = IF i <= Len(s) THEN s[i] ELSE t[i - Len(s)]
  BY ConcatProperties
<1>4. /\ Len(s \o Append(t, e)) = Len(s) + Len(t) + 1
      /\ \A i \in 1..Len(s) + (Len(t) + 1) :
            (s \o Append(t, e))[i] = IF i <= Len(s) THEN s[i] ELSE Append(t, e)[i - Len(s)]
  <2> DEFINE u == Append(t, e)
  <2>1. u \in Seq(S) /\ Len(u) = Len(t) + 1
    BY <1>1
  <2> HIDE DEF u
  <2>2. /\ Len(s \o u) = Len(s) + Len(u)
        /\ \A i \in 1..Len(s) + Len(u) : (s \o u)[i] = IF i <= Len(s) THEN s[i] ELSE u[i - Len(s)]
    BY <2>1, ConcatProperties
  <2>3. Len(s) + (Len(t) + 1) = Len(s) + Len(t) + 1
    BY <1>2
  <2>4. QED
    BY <2>1, <2>2, <2>3 DEF u
<1>5. ASSUME NEW i \in 1..Len(s) + Len(t) PROVE (s \o Append(t, e))[i] = (s \o t)[i]
  <2>1. CASE i <= Len(s)
    BY <1>2, <1>3, <1>4, <2>1
  <2>2. CASE i > Len(s)
    <3>1. i - Len(s) \in 1..Len(t)
      BY <1>2, <2>2
    <3>2. QED
      BY <1>1, <1>2, <1>3, <1>4, <2>2, <3>1
  <2>3. QED
    BY <1>2, <2>1, <2>2
<1>6. (s \o Append(t, e))[Len(s) + Len(t) + 1] = e
  <2>1. Len(s) + Len(t) + 1 - Len(s) = Len(t) + 1
    BY <1>2
  <2>2. QED
    BY <1>1, <1>2, <1>4, <2>1
<1>7. QED
  BY <1>3, <1>4, <1>5, <1>6, <1>2

\* The head of the second part moved to the first: the whole is the same.
LEMMA MoveHead ==
    ASSUME NEW S, NEW s \in Seq(S), NEW t \in Seq(S), t # <<>>
    PROVE  Append(s, Head(t)) \o Tail(t) = s \o t
<1>1. Head(t) \in S /\ Head(t) = t[1] /\ Tail(t) \in Seq(S) /\ Len(Tail(t)) = Len(t) - 1
      /\ \A i \in 1..Len(Tail(t)) : Tail(t)[i] = t[i + 1]
  BY HeadTailProperties
<1>2. Append(s, Head(t)) \in Seq(S) /\ Len(Append(s, Head(t))) = Len(s) + 1
      /\ (\A i \in 1..Len(s) : Append(s, Head(t))[i] = s[i]) /\ Append(s, Head(t))[Len(s) + 1] = Head(t)
  BY <1>1, AppendProperties
<1>3. Len(s) \in Nat /\ Len(t) \in Nat /\ Len(t) # 0
  BY LenProperties, EmptySeq
<1> DEFINE left == Append(s, Head(t)) \o Tail(t)
           right == s \o t
<1>4. /\ left \in Seq(S) /\ Len(left) = Len(s) + Len(t)
      /\ \A i \in 1..Len(s) + Len(t) :
            left[i] = IF i <= Len(s) + 1 THEN Append(s, Head(t))[i] ELSE Tail(t)[i - (Len(s) + 1)]
  BY <1>1, <1>2, <1>3, ConcatProperties
<1>5. /\ right \in Seq(S) /\ Len(right) = Len(s) + Len(t)
      /\ \A i \in 1..Len(s) + Len(t) : right[i] = IF i <= Len(s) THEN s[i] ELSE t[i - Len(s)]
  BY ConcatProperties
<1>6. ASSUME NEW i \in 1..Len(left) PROVE left[i] = right[i]
  <2>0. i \in 1..Len(s) + Len(t)
    BY <1>4
  <2>1. CASE i <= Len(s)
    BY <1>2, <1>3, <1>4, <1>5, <2>0, <2>1
  <2>2. CASE i = Len(s) + 1
    BY <1>1, <1>2, <1>3, <1>4, <1>5, <2>0, <2>2
  <2>3. CASE i > Len(s) + 1
    <3>1. i - (Len(s) + 1) \in 1..Len(Tail(t)) /\ i - (Len(s) + 1) + 1 = i - Len(s)
      BY <1>1, <1>3, <2>0, <2>3
    <3>2. QED
      BY <1>1, <1>3, <1>4, <1>5, <2>0, <2>3, <3>1
  <2>4. QED
    BY <1>3, <2>0, <2>1, <2>2, <2>3
<1>7. left = right
  BY <1>4, <1>5, <1>6, SeqEqual
<1>8. QED
  BY <1>7

\* The head of the second part lost: the whole is without it, in the same order.
LEMMA LoseHead ==
    ASSUME NEW S, NEW s \in Seq(S), NEW t \in Seq(S), t # <<>>
    PROVE  /\ s \o Tail(t) \in Seq(S)
           /\ Len(s \o Tail(t)) = Len(s \o t) - 1
           /\ \A i \in 1..Len(s \o Tail(t)) :
                 (s \o Tail(t))[i] = IF i <= Len(s) THEN (s \o t)[i] ELSE (s \o t)[i + 1]
<1>1. Tail(t) \in Seq(S) /\ Len(Tail(t)) = Len(t) - 1
      /\ \A i \in 1..Len(Tail(t)) : Tail(t)[i] = t[i + 1]
  BY HeadTailProperties
<1>2. Len(s) \in Nat /\ Len(t) \in Nat /\ Len(t) # 0
  BY LenProperties, EmptySeq
<1>3. /\ Len(s \o t) = Len(s) + Len(t)
      /\ \A i \in 1..Len(s) + Len(t) : (s \o t)[i] = IF i <= Len(s) THEN s[i] ELSE t[i - Len(s)]
  BY ConcatProperties
<1>4. /\ s \o Tail(t) \in Seq(S) /\ Len(s \o Tail(t)) = Len(s) + (Len(t) - 1)
      /\ \A i \in 1..Len(s) + (Len(t) - 1) :
            (s \o Tail(t))[i] = IF i <= Len(s) THEN s[i] ELSE Tail(t)[i - Len(s)]
  BY <1>1, ConcatProperties
<1>5. ASSUME NEW i \in 1..Len(s) + (Len(t) - 1), i > Len(s)
      PROVE  (s \o Tail(t))[i] = (s \o t)[i + 1]
  <2>1. i - Len(s) \in 1..Len(Tail(t)) /\ i + 1 - Len(s) = i - Len(s) + 1
        /\ i + 1 \in 1..Len(s) + Len(t) /\ ~(i + 1 <= Len(s))
    BY <1>1, <1>2, <1>5
  <2>2. QED
    BY <1>1, <1>2, <1>3, <1>4, <1>5, <2>1
<1>6. QED
  BY <1>2, <1>3, <1>4, <1>5

-----------------------------------------------------------------------------
(* What each step does to the record of its subscription, field by field.   *)

SameBuffer(k) == sub'[k].buf = sub[k].buf /\ sub'[k].next = sub[k].next
SameLink(k) ==
    /\ sub'[k].open = sub[k].open /\ sub'[k].detached = sub[k].detached
    /\ sub'[k].writer = sub[k].writer
SamePhase(k) == sub'[k].at = sub[k].at /\ sub'[k].active = sub[k].active

\* No record but that of k changes, and all stay records of subscribers.
OnlyOf(k) == sub' \in [Subs -> Subscribers] /\ \A j \in Subs \ {k} : sub'[j] = sub[j]

LEMMA OnlyOne ==
    ASSUME sub \in [Subs -> Subscribers], NEW k \in Subs, NEW r \in Subscribers,
           sub' = [sub EXCEPT ![k] = r]
    PROVE  OnlyOf(k) /\ sub'[k] = r
BY DEF OnlyOf

LEMMA SetBuffer ==
    ASSUME NEW r \in Subscribers, NEW b \in Seq(Items)
    PROVE  LET q == [r EXCEPT !.buf = b] IN
           /\ q \in Subscribers /\ q.at = r.at /\ q.active = r.active /\ q.buf = b
           /\ q.next = r.next /\ q.open = r.open /\ q.detached = r.detached
           /\ q.writer = r.writer
BY DEF Subscribers

LEMMA ReadRequestEffect ==
    ASSUME TypeOK, NEW k \in Subs, ReadRequest(k)
    PROVE  /\ OnlyOf(k) /\ SameBuffer(k) /\ SameLink(k) /\ sub'[k].active = sub[k].active
           /\ sub[k].at = "none" /\ sub'[k].at = "requested"
           /\ UNCHANGED <<traced, publishing, entry, peer, connOpen, reader, sent, due>>
<1>1. sub[k] \in Subscribers
  BY DEF TypeOK
<1>2. PICK replay \in BOOLEAN : sub' = [sub EXCEPT ![k].at = "requested", ![k].replay = replay]
  BY DEF ReadRequest
<1> DEFINE r == [sub[k] EXCEPT !.at = "requested", !.replay = replay]
<1>3. sub' = [sub EXCEPT ![k] = r]
  BY <1>2 DEF TypeOK
<1>4. /\ r \in Subscribers /\ r.at = "requested" /\ r.active = sub[k].active /\ r.buf = sub[k].buf
      /\ r.next = sub[k].next /\ r.open = sub[k].open /\ r.detached = sub[k].detached
      /\ r.writer = sub[k].writer
  BY <1>1 DEF Subscribers
<1> HIDE DEF r
<1>5. QED
  BY <1>3, <1>4, OnlyOne DEF ReadRequest, TypeOK, SameBuffer, SameLink, traceVars

LEMMA SubscribeEffect ==
    ASSUME TypeOK, NEW k \in Subs, Subscribe(k)
    PROVE  /\ sub' \in [Subs -> Subscribers]
           /\ \A j \in Subs : SameBuffer(j)
           /\ sub[k].at = "requested" /\ sub'[k].at \in {"replaying", "replayed"}
           /\ sub'[k].open /\ sub'[k].writer = "running" /\ ~sub'[k].active /\ entry' = k
           /\ \A j \in Subs \ {k} :
                 /\ SamePhase(j) /\ sub'[j].writer = sub[j].writer
                 /\ sub'[j].open = IF j = entry THEN FALSE ELSE sub[j].open
           /\ UNCHANGED <<traced, publishing, peer, connOpen, reader, sent, due>>
<1>1. \A j \in Subs : sub[j] \in Subscribers
  BY DEF TypeOK
<1> DEFINE mine == [sub[k] EXCEPT !.at = IF sub[k].replay THEN "replaying" ELSE "replayed",
                                  !.open = TRUE, !.writer = "running", !.active = FALSE]
           old(j) == [sub[j] EXCEPT !.detached = TRUE, !.open = FALSE]
<1>2. sub' = [j \in Subs |-> IF j = k THEN mine ELSE IF j = entry THEN old(j) ELSE sub[j]]
  BY DEF Subscribe, StartsActive
<1>3. /\ mine \in Subscribers /\ mine.at \in {"replaying", "replayed"} /\ mine.open
      /\ mine.writer = "running" /\ ~mine.active /\ mine.buf = sub[k].buf
      /\ mine.next = sub[k].next
  BY <1>1 DEF Subscribers
<1>4. ASSUME NEW j \in Subs
      PROVE  /\ old(j) \in Subscribers /\ old(j).at = sub[j].at /\ old(j).active = sub[j].active
             /\ old(j).writer = sub[j].writer /\ old(j).open = FALSE /\ old(j).buf = sub[j].buf
             /\ old(j).next = sub[j].next
  BY <1>1 DEF Subscribers
<1> HIDE DEF mine, old
<1>5. sub'[k] = mine /\ \A j \in Subs \ {k} : sub'[j] = IF j = entry THEN old(j) ELSE sub[j]
  BY <1>2
<1>6. sub' \in [Subs -> Subscribers]
  BY <1>1, <1>2, <1>3, <1>4
<1>7. \A j \in Subs : SameBuffer(j)
  BY <1>3, <1>4, <1>5 DEF SameBuffer
<1>8. ASSUME NEW j \in Subs \ {k}
      PROVE  /\ SamePhase(j) /\ sub'[j].writer = sub[j].writer
             /\ sub'[j].open = IF j = entry THEN FALSE ELSE sub[j].open
  <2>1. CASE j = entry
    BY <1>4, <1>5, <2>1 DEF SamePhase
  <2>2. CASE j # entry
    <3>1. sub'[j] = sub[j] /\ sub[j].open \in BOOLEAN
      BY <1>1, <1>5, <2>2 DEF Subscribers
    <3>2. QED
      BY <2>2, <3>1 DEF SamePhase
  <2>3. QED
    BY <2>1, <2>2
<1>9. QED
  BY <1>3, <1>5, <1>6, <1>7, <1>8 DEF Subscribe, traceVars

\* A step that only moves the handler of k on: the end of the replay, by itself or because
\* the channel was closed, and the activation.
LEMMA HandlerEffect ==
    ASSUME TypeOK, NEW k \in Subs,
           \/ ReplayEnds(k)
           \/ Activate(k)
           \/ ReplaySend(k) /\ ~(sub[k].open /\ Fits(k))
    PROVE  /\ OnlyOf(k) /\ SameBuffer(k) /\ SameLink(k)
           /\ \/ /\ sub[k].at = "replaying" /\ sub'[k].at = "replayed"
                 /\ sub'[k].active = sub[k].active
              \/ /\ sub[k].at = "replayed" /\ sub'[k].at = "answered" /\ sub'[k].active
           /\ UNCHANGED <<traced, publishing, entry, peer, connOpen, reader, sent, due>>
<1>1. sub[k] \in Subscribers
  BY DEF TypeOK
<1>2. UNCHANGED <<traced, publishing, entry, peer, connOpen, reader, sent, due>>
  BY DEF ReplayEnds, Activate, ReplaySend, traceVars
<1>3. CASE sub[k].at = "replaying" /\ sub' = [sub EXCEPT ![k].at = "replayed"]
  <2> DEFINE r == [sub[k] EXCEPT !.at = "replayed"]
  <2>1. sub' = [sub EXCEPT ![k] = r]
    BY <1>3
  <2>2. /\ r \in Subscribers /\ r.at = "replayed" /\ r.active = sub[k].active
        /\ r.buf = sub[k].buf /\ r.next = sub[k].next /\ r.open = sub[k].open
        /\ r.detached = sub[k].detached /\ r.writer = sub[k].writer
    BY <1>1 DEF Subscribers
  <2> HIDE DEF r
  <2>3. QED
    BY <1>2, <1>3, <2>1, <2>2, OnlyOne DEF TypeOK, SameBuffer, SameLink
<1>4. CASE Activate(k)
  <2> DEFINE r == [sub[k] EXCEPT !.at = "answered", !.active = TRUE]
  <2>1. sub' = [sub EXCEPT ![k] = r] /\ sub[k].at = "replayed"
    BY <1>4 DEF Activate
  <2>2. /\ r \in Subscribers /\ r.at = "answered" /\ r.active
        /\ r.buf = sub[k].buf /\ r.next = sub[k].next /\ r.open = sub[k].open
        /\ r.detached = sub[k].detached /\ r.writer = sub[k].writer
    BY <1>1 DEF Subscribers
  <2> HIDE DEF r
  <2>3. QED
    BY <1>2, <2>1, <2>2, OnlyOne DEF TypeOK, SameBuffer, SameLink
<1>5. QED
  BY <1>3, <1>4 DEF ReplayEnds, ReplaySend

\* An event of the trace goes into the buffer.
LEMMA ReplayEffect ==
    ASSUME TypeOK, NEW k \in Subs, ReplaySend(k), sub[k].open, Fits(k)
    PROVE  /\ OnlyOf(k) /\ SameLink(k) /\ SamePhase(k) /\ sub[k].at = "replaying"
           /\ sub[k].next \in 1..traced /\ Item("replay", sub[k].next) \in Items
           /\ sub'[k].next = sub[k].next + 1
           /\ sub'[k].buf = Append(sub[k].buf, Item("replay", sub[k].next))
           /\ Len(sub'[k].buf) <= BufSize
           /\ UNCHANGED <<traced, publishing, entry, peer, connOpen, reader, sent, due>>
<1>1. sub[k] \in Subscribers
  BY DEF TypeOK
<1>2. sub[k].at = "replaying" /\ sub[k].next <= traced
  BY DEF ReplaySend
<1>3. sub[k].next \in 1..traced /\ Item("replay", sub[k].next) \in Items
  BY <1>1, <1>2 DEF TypeOK, Subscribers, Items, Item
<1> DEFINE b == Append(sub[k].buf, Item("replay", sub[k].next))
           r == [sub[k] EXCEPT !.buf = b, !.next = @ + 1]
<1>4. sub' = [sub EXCEPT ![k] = r]
  BY DEF ReplaySend
<1>5. b \in Seq(Items) /\ sub[k].next + 1 \in 1..(MaxEvents + 1)
  BY <1>1, <1>3 DEF Subscribers, TypeOK
<1>6. Len(b) <= BufSize
  BY <1>1, <1>3 DEF Fits, Subscribers
<1> HIDE DEF b
<1>7. /\ r \in Subscribers /\ r.at = sub[k].at /\ r.active = sub[k].active
      /\ r.buf = b /\ r.next = sub[k].next + 1
      /\ r.open = sub[k].open /\ r.detached = sub[k].detached /\ r.writer = sub[k].writer
  BY <1>1, <1>5 DEF Subscribers
<1> HIDE DEF r
<1>8. QED
  BY <1>2, <1>3, <1>4, <1>7, <1>5, <1>6, OnlyOne
     DEF ReplaySend, traceVars, TypeOK, SamePhase, SameLink, b

\* A live event goes into the buffer of the subscriber in the map.
LEMMA LiveEffect ==
    ASSUME TypeOK, NEW k \in Subs, NEW e \in Events, Fits(k),
           sub' = [sub EXCEPT ![k].buf = Append(@, Item("live", e))]
    PROVE  /\ OnlyOf(k) /\ SameLink(k) /\ SamePhase(k) /\ sub'[k].next = sub[k].next
           /\ Item("live", e) \in Items
           /\ sub'[k].buf = Append(sub[k].buf, Item("live", e))
           /\ Len(sub'[k].buf) <= BufSize
<1>1. sub[k] \in Subscribers
  BY DEF TypeOK
<1>2. Item("live", e) \in Items
  BY DEF Items, Item
<1> DEFINE b == Append(sub[k].buf, Item("live", e))
           r == [sub[k] EXCEPT !.buf = b]
<1>3. sub' = [sub EXCEPT ![k] = r]
  OBVIOUS
<1>4. b \in Seq(Items) /\ Len(b) <= BufSize
  BY <1>1, <1>2 DEF Fits, Subscribers
<1>5. /\ r \in Subscribers /\ r.at = sub[k].at /\ r.active = sub[k].active
      /\ r.buf = b /\ r.next = sub[k].next
      /\ r.open = sub[k].open /\ r.detached = sub[k].detached /\ r.writer = sub[k].writer
  BY <1>1, <1>4, SetBuffer
<1> HIDE DEF r
<1>6. QED
  BY <1>2, <1>3, <1>4, <1>5, OnlyOne DEF TypeOK, SamePhase, SameLink

\* The channel of the subscriber in the map is closed.
LEMMA CloseEffect ==
    ASSUME TypeOK, NEW k \in Subs, sub' = [sub EXCEPT ![k].open = FALSE]
    PROVE  OnlyOf(k) /\ SameBuffer(k) /\ SamePhase(k) /\ sub'[k].open = FALSE
           /\ sub'[k].writer = sub[k].writer
<1>1. sub[k] \in Subscribers
  BY DEF TypeOK
<1> DEFINE r == [sub[k] EXCEPT !.open = FALSE]
<1>2. sub' = [sub EXCEPT ![k] = r]
  OBVIOUS
<1>3. /\ r \in Subscribers /\ r.at = sub[k].at /\ r.active = sub[k].active
      /\ r.buf = sub[k].buf /\ r.next = sub[k].next
      /\ r.open = FALSE /\ r.detached = sub[k].detached /\ r.writer = sub[k].writer
  BY <1>1 DEF Subscribers
<1> HIDE DEF r
<1>4. QED
  BY <1>2, <1>3, OnlyOne DEF TypeOK, SamePhase, SameBuffer

LEMMA WriteEffect ==
    ASSUME TypeOK, NEW k \in Subs, Write(k)
    PROVE  /\ OnlyOf(k) /\ SameLink(k) /\ SamePhase(k) /\ sub'[k].next = sub[k].next
           /\ sub[k].buf # <<>> /\ sub'[k].buf = Tail(sub[k].buf) /\ Len(sub'[k].buf) <= BufSize
           /\ sent' \in [Subs -> Seq(Items)] /\ sent'[k] = Append(sent[k], Head(sub[k].buf))
           /\ \A j \in Subs \ {k} : sent'[j] = sent[j]
           /\ UNCHANGED <<traced, publishing, entry, peer, connOpen, reader, due>>
<1>1. sub[k] \in Subscribers /\ Len(sub[k].buf) <= BufSize
  BY DEF TypeOK
<1>2. sub[k].buf # <<>> /\ sub[k].buf \in Seq(Items)
  BY <1>1 DEF Write, Subscribers
<1> DEFINE b == Tail(sub[k].buf)
           r == [sub[k] EXCEPT !.buf = b]
<1>3. sub' = [sub EXCEPT ![k] = r]
  BY DEF Write
<1>4. /\ r \in Subscribers /\ r.at = sub[k].at /\ r.active = sub[k].active
      /\ r.buf = b /\ r.next = sub[k].next
      /\ r.open = sub[k].open /\ r.detached = sub[k].detached /\ r.writer = sub[k].writer
  <2>1. b \in Seq(Items)
    BY <1>2
  <2>2. QED
    BY <1>1, <2>1, SetBuffer
<1>5. Len(r.buf) <= BufSize
  <2>1. Len(Tail(sub[k].buf)) = Len(sub[k].buf) - 1 /\ Len(sub[k].buf) \in Nat
    BY <1>2
  <2>2. QED
    BY <1>1, <1>4, <2>1
<1>6. Head(sub[k].buf) \in Items
  BY <1>2
<1>7. sent' \in [Subs -> Seq(Items)] /\ sent'[k] = Append(sent[k], Head(sub[k].buf))
      /\ \A j \in Subs \ {k} : sent'[j] = sent[j]
  BY <1>6 DEF Write, TypeOK
<1> HIDE DEF r
<1>8. QED
  BY <1>2, <1>3, <1>4, <1>5, <1>7, OnlyOne DEF Write, traceVars, TypeOK, SamePhase, SameLink

LEMMA WriterExitsEffect ==
    ASSUME TypeOK, NEW k \in Subs, WriterExits(k)
    PROVE  /\ OnlyOf(k) /\ SamePhase(k) /\ sub'[k].next = sub[k].next
           /\ sub'[k].open = sub[k].open /\ sub'[k].writer = "gone"
           /\ sub'[k].buf = (IF sub[k].buf = <<>> THEN <<>> ELSE Tail(sub[k].buf))
           /\ Len(sub'[k].buf) <= BufSize /\ connOpen' \in BOOLEAN
           /\ UNCHANGED <<traced, publishing, entry, peer, reader, sent, due>>
<1>1. sub[k] \in Subscribers /\ Len(sub[k].buf) <= BufSize
  BY DEF TypeOK
<1>2. sub[k].buf \in Seq(Items)
  BY <1>1 DEF Subscribers
<1> DEFINE rest == IF sub[k].buf = <<>> THEN <<>> ELSE Tail(sub[k].buf)
           r == [sub[k] EXCEPT !.writer = "gone", !.buf = rest]
<1>3. rest \in Seq(Items) /\ Len(rest) <= BufSize
  <2>1. CASE sub[k].buf = <<>>
    BY <1>1, <2>1
  <2>2. CASE sub[k].buf # <<>>
    <3>1. Tail(sub[k].buf) \in Seq(Items) /\ Len(Tail(sub[k].buf)) = Len(sub[k].buf) - 1
          /\ Len(sub[k].buf) \in Nat
      BY <1>2, <2>2
    <3>2. QED
      BY <1>1, <2>2, <3>1
  <2>3. QED
    BY <2>1, <2>2
<1> HIDE DEF rest
<1>4. sub' = [sub EXCEPT ![k] = r]
  BY DEF WriterExits, rest
<1>5. /\ r \in Subscribers /\ r.at = sub[k].at /\ r.active = sub[k].active
      /\ r.buf = rest /\ r.next = sub[k].next
      /\ r.open = sub[k].open /\ r.detached = sub[k].detached /\ r.writer = "gone"
  BY <1>1, <1>3 DEF Subscribers
<1>6. connOpen' \in BOOLEAN
  BY <1>1 DEF WriterExits, StillOpen, TypeOK, Subscribers
<1> HIDE DEF r
<1>7. QED
  BY <1>3, <1>4, <1>5, <1>6, OnlyOne DEF WriterExits, traceVars, TypeOK, SamePhase, rest

LEMMA CleanUpEffect ==
    ASSUME TypeOK, CleanUp
    PROVE  /\ sub' \in [Subs -> Subscribers] /\ entry' = 0
           /\ \A j \in Subs : SameBuffer(j) /\ SamePhase(j) /\ sub'[j].writer = sub[j].writer
                                /\ sub'[j].open = IF j = entry THEN FALSE ELSE sub[j].open
           /\ reader' = "finished" /\ connOpen' = FALSE
           /\ UNCHANGED <<traced, publishing, peer, sent, due>>
<1>1. \A j \in Subs : sub[j] \in Subscribers
  BY DEF TypeOK
<1> DEFINE closed(j) == [sub[j] EXCEPT !.open = FALSE]
<1>2. sub' = [j \in Subs |-> IF j = entry THEN closed(j) ELSE sub[j]]
  BY DEF CleanUp, RemoveSubscriber
<1>3. ASSUME NEW j \in Subs
      PROVE  /\ closed(j) \in Subscribers /\ closed(j).at = sub[j].at
             /\ closed(j).active = sub[j].active /\ closed(j).writer = sub[j].writer
             /\ closed(j).open = FALSE /\ closed(j).buf = sub[j].buf
             /\ closed(j).next = sub[j].next
  BY <1>1 DEF Subscribers
<1> HIDE DEF closed
<1>4. sub' \in [Subs -> Subscribers]
  BY <1>1, <1>2, <1>3
<1>5. ASSUME NEW j \in Subs
      PROVE  /\ SameBuffer(j) /\ SamePhase(j) /\ sub'[j].writer = sub[j].writer
             /\ sub'[j].open = IF j = entry THEN FALSE ELSE sub[j].open
  <2>1. sub[j].open \in BOOLEAN
    BY <1>1 DEF Subscribers
  <2>2. QED
    BY <1>2, <1>3, <2>1 DEF SameBuffer, SamePhase
<1>6. QED
  BY <1>4, <1>5 DEF CleanUp, RemoveSubscriber, traceVars

-----------------------------------------------------------------------------
LEMMA TypeInit == Init => TypeOK
<1> SUFFICES ASSUME Init PROVE TypeOK
  OBVIOUS
<1>1. NoSub \in Subscribers
  BY DEF NoSub, Subscribers, Items
<1>2. <<>> \in Seq(Items) /\ <<>> \in Seq(Events) /\ Len(<<>>) = 0
  BY EmptySeq
<1>3. QED
  BY <1>1, <1>2 DEF Init, TypeOK, NoSub

\* A step on one subscription keeps every record a record, and every buffer within its size.
LEMMA OnlyOfSizes ==
    ASSUME TypeOK, NEW k \in Subs, OnlyOf(k), Len(sub'[k].buf) <= BufSize \/ SameBuffer(k)
    PROVE  sub' \in [Subs -> Subscribers] /\ \A j \in Subs : Len(sub'[j].buf) <= BufSize
BY DEF TypeOK, OnlyOf, SameBuffer

\* What CutOff and Broadcast do, by cases.
LEMMA BroadcastCases ==
    ASSUME TypeOK, NEW e \in Events, Broadcast(e)
    PROVE  /\ publishing' \subseteq Events
           /\ UNCHANGED <<traced, peer, connOpen, reader, sent>>
           /\ \/ UNCHANGED <<sub, entry, due>>
              \/ \E k \in Subs :
                    /\ entry = k /\ sub[k].active
                    /\ due' = [due EXCEPT ![k] = Append(@, e)]
                    /\ \/ /\ Fits(k) /\ entry' = entry
                          /\ sub' = [sub EXCEPT ![k].buf = Append(@, Item("live", e))]
                       \/ entry' = 0 /\ sub' = [sub EXCEPT ![k].open = FALSE]
BY DEF Broadcast, Listening, CutOff, TypeOK

LEMMA TypeStep == TypeOK /\ [Next]_vars => TypeOK'
<1> SUFFICES ASSUME TypeOK, [Next]_vars
             PROVE  TypeOK'
  OBVIOUS
<1>1. CASE Publish
  BY <1>1 DEF Publish, TypeOK
<1>2. ASSUME NEW e \in Events, Broadcast(e) PROVE TypeOK'
  <2>1. CASE UNCHANGED <<sub, entry, due>>
    BY <1>2, <2>1, BroadcastCases DEF TypeOK
  <2>2. ASSUME NEW k \in Subs, due' = [due EXCEPT ![k] = Append(@, e)], Fits(k), entry' = entry,
               sub' = [sub EXCEPT ![k].buf = Append(@, Item("live", e))]
        PROVE  TypeOK'
    <3>1. due' \in [Subs -> Seq(Events)]
      BY <2>2 DEF TypeOK
    <3>2. QED
      BY <1>2, <2>2, <3>1, LiveEffect, OnlyOfSizes, BroadcastCases DEF TypeOK
  <2>3. ASSUME NEW k \in Subs, due' = [due EXCEPT ![k] = Append(@, e)], entry' = 0,
               sub' = [sub EXCEPT ![k].open = FALSE]
        PROVE  TypeOK'
    <3>1. due' \in [Subs -> Seq(Events)]
      BY <2>3 DEF TypeOK
    <3>2. QED
      <4>1. entry' \in 0..MaxSubs
        BY <2>3
      <4>2. sub' \in [Subs -> Subscribers] /\ \A j \in Subs : Len(sub'[j].buf) <= BufSize
        BY <2>3, CloseEffect, OnlyOfSizes
      <4>3. QED
        BY <1>2, <3>1, <4>1, <4>2, BroadcastCases DEF TypeOK
  <2>4. QED
    BY <1>2, <2>1, <2>2, <2>3, BroadcastCases
<1>3. ASSUME NEW k \in Subs, ReadRequest(k) PROVE TypeOK'
  BY <1>3, ReadRequestEffect, OnlyOfSizes DEF TypeOK
<1>4. ASSUME NEW k \in Subs, Subscribe(k) PROVE TypeOK'
  <2>1. entry' \in 0..MaxSubs
    <3>1. entry' = k
      BY <1>4, SubscribeEffect
    <3>2. QED
      BY <3>1
  <2>2. \A j \in Subs : Len(sub'[j].buf) <= BufSize
    BY <1>4, SubscribeEffect DEF TypeOK, SameBuffer
  <2>3. QED
    BY <1>4, <2>1, <2>2, SubscribeEffect DEF TypeOK
<1>5. ASSUME NEW k \in Subs, ReplaySend(k), sub[k].open, Fits(k) PROVE TypeOK'
  BY <1>5, ReplayEffect, OnlyOfSizes DEF TypeOK
<1>6. ASSUME NEW k \in Subs,
             ReplayEnds(k) \/ Activate(k) \/ (ReplaySend(k) /\ ~(sub[k].open /\ Fits(k)))
      PROVE  TypeOK'
  BY <1>6, HandlerEffect, OnlyOfSizes DEF TypeOK
<1>7. ASSUME NEW k \in Subs, Write(k) PROVE TypeOK'
  BY <1>7, WriteEffect, OnlyOfSizes DEF TypeOK
<1>8. ASSUME NEW k \in Subs, WriterExits(k) PROVE TypeOK'
  BY <1>8, WriterExitsEffect, OnlyOfSizes DEF TypeOK
<1>9. CASE PeerLeaves \/ ReadFails \/ ReaderStops
  BY <1>9 DEF PeerLeaves, ReadFails, ReaderStops, StopReading, TypeOK, traceVars
<1>10. CASE CleanUp
  <2>1. entry' \in 0..MaxSubs
    BY <1>10, CleanUpEffect
  <2>2. \A j \in Subs : Len(sub'[j].buf) <= BufSize
    BY <1>10, CleanUpEffect DEF TypeOK, SameBuffer
  <2>3. QED
    BY <1>10, <2>1, <2>2, CleanUpEffect DEF TypeOK
<1>11. CASE UNCHANGED vars
  BY <1>11 DEF vars, TypeOK
<1>12. QED
  BY <1>1, <1>2, <1>3, <1>4, <1>5, <1>6, <1>7, <1>8, <1>9, <1>10, <1>11 DEF Next, SubStep

\* Every variable keeps its type, and no buffer ever holds more than BufSize events.
THEOREM TypeCorrect == Spec => []TypeOK
BY TypeInit, TypeStep, PTL DEF Spec

-----------------------------------------------------------------------------
LEMMA ChannelsInit == Init => ChannelsSafe
BY DEF Init, NoSub, ChannelsSafe

LEMMA ChannelsStep == TypeOK /\ ChannelsSafe /\ [Next]_vars => ChannelsSafe'
<1> SUFFICES ASSUME TypeOK, ChannelsSafe, [Next]_vars
             PROVE  ChannelsSafe'
  OBVIOUS
<1>0. \A k \in Subs : sub[k].open \in BOOLEAN
  BY DEF TypeOK, Subscribers
<1> USE <1>0 DEF ChannelsSafe
<1>1. CASE Publish \/ PeerLeaves \/ ReadFails \/ ReaderStops \/ UNCHANGED vars
  BY <1>1 DEF Publish, PeerLeaves, ReadFails, ReaderStops, StopReading, vars
<1>2. ASSUME NEW e \in Events, Broadcast(e) PROVE ChannelsSafe'
  <2>1. CASE UNCHANGED <<sub, entry, due>>
    BY <2>1
  <2>2. ASSUME NEW k \in Subs, Fits(k), entry' = entry,
               sub' = [sub EXCEPT ![k].buf = Append(@, Item("live", e))]
        PROVE  ChannelsSafe'
    BY <2>2, LiveEffect DEF OnlyOf, SameLink
  <2>3. ASSUME NEW k \in Subs, entry = k, entry' = 0, sub' = [sub EXCEPT ![k].open = FALSE]
        PROVE  ChannelsSafe'
    <3>1. OnlyOf(k) /\ sub'[k].open = FALSE
      BY <2>3, CloseEffect
    <3>2. \A j \in Subs : j # 0
      OBVIOUS
    <3>3. ASSUME NEW j \in Subs PROVE ~sub'[j].open
      BY <2>3, <3>1 DEF OnlyOf
    <3>4. QED
      BY <2>3, <3>2, <3>3
  <2>4. QED
    BY <1>2, <2>1, <2>2, <2>3, BroadcastCases
<1>3. ASSUME NEW k \in Subs, ReadRequest(k) PROVE ChannelsSafe'
  BY <1>3, ReadRequestEffect DEF OnlyOf, SameLink
<1>4. ASSUME NEW k \in Subs, Subscribe(k) PROVE ChannelsSafe'
  BY <1>4, SubscribeEffect
<1>5. ASSUME NEW k \in Subs, ReplaySend(k), sub[k].open, Fits(k) PROVE ChannelsSafe'
  BY <1>5, ReplayEffect DEF OnlyOf, SameLink
<1>6. ASSUME NEW k \in Subs,
             ReplayEnds(k) \/ Activate(k) \/ (ReplaySend(k) /\ ~(sub[k].open /\ Fits(k)))
      PROVE  ChannelsSafe'
  BY <1>6, HandlerEffect DEF OnlyOf, SameLink
<1>7. ASSUME NEW k \in Subs, Write(k) PROVE ChannelsSafe'
  BY <1>7, WriteEffect DEF OnlyOf, SameLink
<1>8. ASSUME NEW k \in Subs, WriterExits(k) PROVE ChannelsSafe'
  BY <1>8, WriterExitsEffect DEF OnlyOf
<1>9. CASE CleanUp
  <2>1. entry' = 0 /\ \A j \in Subs : sub'[j].open = IF j = entry THEN FALSE ELSE sub[j].open
    BY <1>9, CleanUpEffect
  <2>2. \A j \in Subs : j # 0
    OBVIOUS
  <2>3. \A j \in Subs : sub'[j].open = FALSE
    BY <2>1
  <2>4. QED
    BY <2>1, <2>2, <2>3
<1>10. QED
  BY <1>1, <1>2, <1>3, <1>4, <1>5, <1>6, <1>7, <1>8, <1>9 DEF Next, SubStep

\* No broadcast sends to a closed channel, and no channel is closed twice, whatever the
\* order of the three places that close one.
THEOREM ChannelsAlwaysSafe == Spec => []ChannelsSafe
BY ChannelsInit, ChannelsStep, TypeCorrect, PTL DEF Spec

-----------------------------------------------------------------------------
(* The inductive invariant of a stream.                                     *)

ReplayOnly(items) == \A i \in 1..Len(items) : items[i].kind = "replay"

\* Nothing is sent before the subscription is registered; it is active only when its
\* handler has answered; until then it got replayed events only, and nothing is due to it.
HandlerOK(k) ==
    /\ sub[k].at \in {"none", "requested"} => Received(k) = <<>> /\ sub[k].next = 1
    /\ sub[k].active => sub[k].at = "answered"
    /\ ~sub[k].active => due[k] = <<>> /\ ReplayOnly(Received(k))

\* While its writer runs, the current subscription misses nothing; what it has got of the
\* trace ends before the next event to replay.
CurrentOK(k) ==
    entry = k /\ sub[k].writer = "running" =>
        /\ Gapless(Received(k), due[k])
        /\ ~sub[k].active => Len(Received(k)) = sub[k].next - 1

StreamOK(k) == HandlerOK(k) /\ InOrder(Received(k)) /\ CurrentOK(k)

Streams == \A k \in Subs : StreamOK(k)

-----------------------------------------------------------------------------
(* How appending an event, or losing one, changes what a client has got.    *)

Extends(new, old, e) ==
    /\ Len(new) = Len(old) + 1 /\ \A i \in 1..Len(old) : new[i] = old[i]
    /\ new[Len(old) + 1] = e

LEMMA ReplayGrows ==
    ASSUME NEW old \in Seq(Items), NEW new \in Seq(Items), NEW e \in Items,
           Extends(new, old, e), ReplayOnly(old), e.kind = "replay"
    PROVE  ReplayOnly(new)
BY DEF Extends, ReplayOnly

LEMMA LiveGrows ==
    ASSUME NEW old \in Seq(Items), NEW new \in Seq(Items), NEW e \in Items,
           Extends(new, old, e), InOrder(old), e.kind = "live"
    PROVE  InOrder(new)
<1> SUFFICES ASSUME NEW i \in 1..Len(new), NEW j \in 1..Len(new), i < j, new[i].kind = "live"
             PROVE  new[j].kind = "live"
  BY DEF InOrder
<1>1. Len(new) = Len(old) + 1 /\ Len(old) \in Nat
  BY DEF Extends
<1>2. CASE j = Len(old) + 1
  BY <1>2 DEF Extends
<1>3. CASE j # Len(old) + 1
  <2>1. i \in 1..Len(old) /\ j \in 1..Len(old)
    BY <1>1, <1>3
  <2>2. QED
    BY <2>1 DEF InOrder, Extends
<1>4. QED
  BY <1>2, <1>3

LEMMA ReplayInOrder ==
    ASSUME NEW items \in Seq(Items), ReplayOnly(items)
    PROVE  InOrder(items)
BY DEF ReplayOnly, InOrder

LEMMA GaplessReplay ==
    ASSUME NEW old \in Seq(Items), NEW new \in Seq(Items), Gapless(old, <<>>),
           Extends(new, old, Item("replay", Len(old) + 1))
    PROVE  Gapless(new, <<>>)
<1>1. Len(new) = Len(old) + 1 /\ Len(old) \in Nat /\ Len(<<>>) = 0
  BY DEF Extends
<1>2. \A i \in 1..Len(old) : old[i] = Item("replay", i)
  BY <1>1 DEF Gapless
<1>3. ASSUME NEW i \in 1..Len(new) PROVE new[i] = Item("replay", i)
  <2>1. CASE i = Len(old) + 1
    BY <2>1 DEF Extends
  <2>2. CASE i # Len(old) + 1
    <3>1. i \in 1..Len(old)
      BY <1>1, <2>2
    <3>2. QED
      BY <1>2, <3>1 DEF Extends
  <2>3. QED
    BY <2>1, <2>2
<1>4. Len(new) \in 0..Len(new) /\ Len(new) = Len(new) + Len(<<>>)
  BY <1>1
<1>5. QED
  BY <1>1, <1>3, <1>4 DEF Gapless

LEMMA GaplessLive ==
    ASSUME NEW old \in Seq(Items), NEW new \in Seq(Items), NEW live \in Seq(Events), NEW e \in Events,
           Gapless(old, live), Extends(new, old, Item("live", e))
    PROVE  Gapless(new, Append(live, e))
<1>1. PICK n \in 0..Len(old) :
          /\ \A i \in 1..n : old[i] = Item("replay", i)
          /\ Len(old) = n + Len(live)
          /\ \A i \in 1..Len(live) : old[n + i] = Item("live", live[i])
  BY DEF Gapless
<1>2. Len(new) = Len(old) + 1 /\ Len(old) \in Nat /\ Len(live) \in Nat
  BY DEF Extends
<1>3. Len(Append(live, e)) = Len(live) + 1 /\ Append(live, e)[Len(live) + 1] = e
      /\ \A i \in 1..Len(live) : Append(live, e)[i] = live[i]
  BY AppendProperties
<1>4. \A i \in 1..n : new[i] = Item("replay", i)
  BY <1>1, <1>2 DEF Extends
<1>5. ASSUME NEW i \in 1..Len(Append(live, e))
      PROVE  new[n + i] = Item("live", Append(live, e)[i])
  <2>1. CASE i = Len(live) + 1
    <3>1. n + i = Len(old) + 1
      BY <1>1, <1>2, <2>1
    <3>2. QED
      BY <1>3, <2>1, <3>1 DEF Extends
  <2>2. CASE i # Len(live) + 1
    <3>1. i \in 1..Len(live)
      BY <1>2, <1>3, <2>2
    <3>2. n + i \in 1..Len(old)
      BY <1>1, <1>2, <3>1
    <3>3. QED
      BY <1>1, <1>3, <3>1, <3>2 DEF Extends
  <2>3. QED
    BY <2>1, <2>2
<1>6. n \in 0..Len(new) /\ Len(new) = n + Len(Append(live, e))
  BY <1>1, <1>2, <1>3
<1>7. QED
  BY <1>4, <1>5, <1>6 DEF Gapless

\* The items that are left keep their order, whichever item is lost.
Loses(new, old, n) ==
    /\ Len(new) = Len(old) - 1
    /\ \A i \in 1..Len(new) : new[i] = IF i <= n THEN old[i] ELSE old[i + 1]

LEMMA LossKeepsOrder ==
    ASSUME NEW old \in Seq(Items), NEW new \in Seq(Items), NEW n \in Nat, Loses(new, old, n)
    PROVE  /\ InOrder(old) => InOrder(new)
           /\ ReplayOnly(old) => ReplayOnly(new)
<1>1. Len(new) = Len(old) - 1 /\ Len(old) \in Nat /\ Len(new) \in Nat
  BY DEF Loses
<1> DEFINE was(i) == IF i <= n THEN i ELSE i + 1
<1>2. ASSUME NEW i \in 1..Len(new)
      PROVE  was(i) \in 1..Len(old) /\ new[i] = old[was(i)]
  BY <1>1 DEF Loses
<1>3. ASSUME NEW i \in 1..Len(new), NEW j \in 1..Len(new), i < j PROVE was(i) < was(j)
  BY <1>1, <1>3
<1> HIDE DEF was
<1>4. QED
  BY <1>2, <1>3 DEF InOrder, ReplayOnly

-----------------------------------------------------------------------------
(* Every step keeps every stream right.                                     *)

\* Both parts of what a client gets are sequences of items.
LEMMA ReceivedType ==
    ASSUME TypeOK, NEW k \in Subs
    PROVE  /\ sent[k] \in Seq(Items) /\ sub[k].buf \in Seq(Items) /\ Received(k) \in Seq(Items)
           /\ due[k] \in Seq(Events) /\ sub[k].next \in Nat \ {0} /\ sub[k].active \in BOOLEAN
<1>1. sub[k] \in Subscribers /\ sent[k] \in Seq(Items) /\ due[k] \in Seq(Events)
  BY DEF TypeOK
<1>2. sub[k].buf \in Seq(Items) /\ sub[k].next \in Nat \ {0} /\ sub[k].active \in BOOLEAN
  BY <1>1 DEF Subscribers
<1>3. Received(k) \in Seq(Items)
  BY <1>1, <1>2, ConcatProperties DEF Received
<1>4. QED
  BY <1>1, <1>2, <1>3

LEMMA ReceivedTypeNext ==
    ASSUME TypeOK', NEW k \in Subs
    PROVE  Received(k)' \in Seq(Items)
<1>1. sub'[k] \in Subscribers /\ sent'[k] \in Seq(Items)
  BY DEF TypeOK
<1>2. sub'[k].buf \in Seq(Items)
  BY <1>1 DEF Subscribers
<1>3. sent'[k] \o sub'[k].buf \in Seq(Items)
  BY <1>1, <1>2, ConcatProperties
<1>4. QED
  BY <1>3 DEF Received

\* A step that does not touch what k gets, or that ends its writer or its registration.
LEMMA StreamUntouched ==
    ASSUME NEW k \in Subs, StreamOK(k), Received(k)' = Received(k), sub'[k].next = sub[k].next,
           SamePhase(k), due'[k] = due[k],
           entry' = k /\ sub'[k].writer = "running" => entry = k /\ sub[k].writer = "running"
    PROVE  StreamOK(k)'
BY DEF StreamOK, HandlerOK, CurrentOK, SamePhase

LEMMA SameReceived ==
    ASSUME NEW k \in Subs, SameBuffer(k), sent'[k] = sent[k]
    PROVE  Received(k)' = Received(k)
BY DEF SameBuffer, Received

\* The subscriptions other than the one of the step.
LEMMA OthersUntouched ==
    ASSUME Streams, NEW k \in Subs, OnlyOf(k), \A j \in Subs \ {k} : sent'[j] = sent[j],
           \A j \in Subs \ {k} : due'[j] = due[j], entry' \in {entry, k, 0}, StreamOK(k)'
    PROVE  Streams'
<1>1. ASSUME NEW j \in Subs \ {k} PROVE StreamOK(j)'
  <2>1. sub'[j] = sub[j] /\ sent'[j] = sent[j] /\ due'[j] = due[j]
    BY DEF OnlyOf
  <2>2. entry' = j => entry = j
    OBVIOUS
  <2>3. Received(j)' = Received(j) /\ SamePhase(j)
    BY <2>1 DEF Received, SamePhase
  <2>4. QED
    BY <2>1, <2>2, <2>3, StreamUntouched DEF Streams
<1>2. QED
  BY <1>1 DEF Streams

\* What k gets grows by the item its buffer grows by.
LEMMA BufferGrows ==
    ASSUME TypeOK, TypeOK', NEW k \in Subs, NEW e \in Items, sub'[k].buf = Append(sub[k].buf, e),
           sent'[k] = sent[k]
    PROVE  Extends(Received(k)', Received(k), e)
<1>1. sent[k] \in Seq(Items) /\ sub[k].buf \in Seq(Items)
  BY ReceivedType
<1>2. Received(k)' = sent[k] \o Append(sub[k].buf, e)
  BY DEF Received
<1>3. Extends(sent[k] \o Append(sub[k].buf, e), sent[k] \o sub[k].buf, e)
  <2> DEFINE s == sent[k]
             t == sub[k].buf
  <2>1. s \in Seq(Items) /\ t \in Seq(Items)
    BY <1>1
  <2> HIDE DEF s, t
  <2>2. Extends(s \o Append(t, e), s \o t, e)
    BY <2>1, AppendToSecond DEF Extends
  <2>3. QED
    BY <2>2 DEF s, t
<1>4. QED
  BY <1>2, <1>3 DEF Received

LEMMA StreamReadRequest ==
    ASSUME TypeOK, Streams, NEW k \in Subs, ReadRequest(k)
    PROVE  Streams'
<1>1. /\ OnlyOf(k) /\ SameBuffer(k) /\ SameLink(k) /\ sub'[k].active = sub[k].active
      /\ sub[k].at = "none" /\ sub'[k].at = "requested"
      /\ entry' = entry /\ sent' = sent /\ due' = due
  BY ReadRequestEffect
<1>2. Received(k)' = Received(k)
  BY <1>1, SameReceived
<1>3. StreamOK(k)'
  BY <1>1, <1>2 DEF Streams, StreamOK, HandlerOK, CurrentOK, SameBuffer, SameLink
<1>4. QED
  BY <1>1, <1>3, OthersUntouched

LEMMA StreamSubscribe ==
    ASSUME TypeOK, Streams, NEW k \in Subs, Subscribe(k)
    PROVE  Streams'
<1>1. /\ \A j \in Subs : sub'[j].buf = sub[j].buf /\ sub'[j].next = sub[j].next
      /\ sub[k].at = "requested" /\ sub'[k].at \in {"replaying", "replayed"}
      /\ ~sub'[k].active /\ entry' = k
      /\ \A j \in Subs \ {k} : sub'[j].at = sub[j].at /\ sub'[j].active = sub[j].active
      /\ sent' = sent /\ due' = due
  BY SubscribeEffect DEF SameBuffer, SamePhase
<1>2. \A j \in Subs : Received(j)' = Received(j)
  BY <1>1 DEF Received
<1>3. ASSUME NEW j \in Subs \ {k} PROVE StreamOK(j)'
  BY <1>1, <1>2, StreamUntouched DEF Streams, SamePhase
<1>4. StreamOK(k)'
  <2>1. ~sub[k].active /\ Received(k) = <<>> /\ sub[k].next = 1 /\ due[k] = <<>>
    BY <1>1 DEF Streams, StreamOK, HandlerOK
  <2>2. Len(<<>>) = 0 /\ Gapless(<<>>, <<>>) /\ InOrder(<<>>) /\ ReplayOnly(<<>>)
    BY DEF Gapless, InOrder, ReplayOnly
  <2>3. Received(k)' = <<>> /\ sub'[k].next = 1 /\ due'[k] = <<>>
    BY <1>1, <1>2, <2>1
  <2>4. QED
    BY <1>1, <2>2, <2>3 DEF StreamOK, HandlerOK, CurrentOK
<1>5. QED
  BY <1>3, <1>4 DEF Streams

LEMMA StreamReplay ==
    ASSUME TypeOK, TypeOK', Streams, NEW k \in Subs, ReplaySend(k), sub[k].open, Fits(k)
    PROVE  Streams'
<1> DEFINE e == Item("replay", sub[k].next)
<1>1. /\ OnlyOf(k) /\ SameLink(k) /\ SamePhase(k) /\ sub[k].at = "replaying" /\ e \in Items
      /\ sub'[k].next = sub[k].next + 1 /\ sub'[k].buf = Append(sub[k].buf, e)
      /\ entry' = entry /\ sent' = sent /\ due' = due
  BY ReplayEffect
<1>2. Extends(Received(k)', Received(k), e) /\ Received(k) \in Seq(Items) /\ Received(k)' \in Seq(Items)
  BY <1>1, BufferGrows, ReceivedType, ReceivedTypeNext
<1>3. ~sub[k].active /\ due[k] = <<>> /\ ReplayOnly(Received(k))
  BY <1>1 DEF Streams, StreamOK, HandlerOK
<1>4. ReplayOnly(Received(k)') /\ InOrder(Received(k)')
  <2>1. e.kind = "replay"
    BY DEF Item
  <2>2. QED
    BY <1>1, <1>2, <1>3, <2>1, ReplayGrows, ReplayInOrder
<1>5. ASSUME entry' = k, sub'[k].writer = "running"
      PROVE  Gapless(Received(k)', <<>>) /\ Len(Received(k)') = sub'[k].next - 1
  <2>1. Gapless(Received(k), <<>>) /\ Len(Received(k)) = sub[k].next - 1
    BY <1>1, <1>3, <1>5 DEF Streams, StreamOK, CurrentOK, SameLink
  <2>2. Len(Received(k)) + 1 = sub[k].next
    BY <2>1, ReceivedType
  <2>3. Gapless(Received(k)', <<>>)
    BY <1>2, <2>1, <2>2, GaplessReplay
  <2>4. Len(Received(k)') = sub'[k].next - 1
    BY <1>1, <1>2, <2>2, ReceivedType DEF Extends
  <2>5. QED
    BY <2>3, <2>4
<1>6. StreamOK(k)'
  BY <1>1, <1>3, <1>4, <1>5 DEF StreamOK, HandlerOK, CurrentOK, SamePhase
<1>7. QED
  BY <1>1, <1>6, OthersUntouched

LEMMA StreamHandler ==
    ASSUME TypeOK, Streams, NEW k \in Subs,
           \/ ReplayEnds(k)
           \/ Activate(k)
           \/ ReplaySend(k) /\ ~(sub[k].open /\ Fits(k))
    PROVE  Streams'
<1>1. /\ OnlyOf(k) /\ SameBuffer(k) /\ SameLink(k)
      /\ \/ /\ sub[k].at = "replaying" /\ sub'[k].at = "replayed"
            /\ sub'[k].active = sub[k].active
         \/ /\ sub[k].at = "replayed" /\ sub'[k].at = "answered" /\ sub'[k].active
      /\ entry' = entry /\ sent' = sent /\ due' = due
  BY HandlerEffect
<1>2. Received(k)' = Received(k)
  BY <1>1, SameReceived
<1>3. StreamOK(k)'
  BY <1>1, <1>2 DEF Streams, StreamOK, HandlerOK, CurrentOK, SameBuffer, SameLink
<1>4. QED
  BY <1>1, <1>3, OthersUntouched

LEMMA StreamBroadcast ==
    ASSUME TypeOK, TypeOK', Streams, NEW e \in Events, Broadcast(e)
    PROVE  Streams'
<1>1. sent' = sent
  BY BroadcastCases
<1>2. CASE UNCHANGED <<sub, entry, due>>
  <2>1. \A j \in Subs : Received(j)' = Received(j) /\ sub'[j].next = sub[j].next /\ SamePhase(j)
    BY <1>1, <1>2 DEF Received, SamePhase
  <2>2. QED
    BY <1>2, <2>1, StreamUntouched DEF Streams
<1>3. ASSUME NEW k \in Subs, sub[k].active, Fits(k), entry' = entry,
             due' = [due EXCEPT ![k] = Append(@, e)],
             sub' = [sub EXCEPT ![k].buf = Append(@, Item("live", e))]
      PROVE  Streams'
  <2>1. /\ OnlyOf(k) /\ SameLink(k) /\ SamePhase(k) /\ Item("live", e) \in Items
        /\ sub'[k].buf = Append(sub[k].buf, Item("live", e))
    BY <1>3, LiveEffect
  <2>2. /\ Extends(Received(k)', Received(k), Item("live", e))
        /\ Received(k) \in Seq(Items) /\ Received(k)' \in Seq(Items)
    BY <1>1, <2>1, BufferGrows, ReceivedType, ReceivedTypeNext
  <2>3. due[k] \in Seq(Events) /\ due'[k] = Append(due[k], e)
        /\ \A j \in Subs \ {k} : due'[j] = due[j]
    BY <1>3 DEF TypeOK
  <2>4. InOrder(Received(k)')
    <3>1. Item("live", e).kind = "live"
      BY DEF Item
    <3>2. QED
      BY <2>1, <2>2, <3>1, LiveGrows DEF Streams, StreamOK
  <2>5. ASSUME entry' = k, sub'[k].writer = "running"
        PROVE  Gapless(Received(k)', due'[k])
    <3>1. Gapless(Received(k), due[k])
      BY <1>3, <2>1, <2>5 DEF Streams, StreamOK, CurrentOK, SameLink
    <3>2. QED
      BY <2>2, <2>3, <3>1, GaplessLive
  <2>6. sub'[k].at = "answered" /\ sub'[k].active
    BY <1>3, <2>1 DEF Streams, StreamOK, HandlerOK, SamePhase
  <2>7. StreamOK(k)'
    BY <2>4, <2>5, <2>6 DEF StreamOK, HandlerOK, CurrentOK
  <2>8. QED
    BY <1>1, <1>3, <2>1, <2>3, <2>7, OthersUntouched
<1>4. ASSUME NEW k \in Subs, sub[k].active, entry' = 0,
             due' = [due EXCEPT ![k] = Append(@, e)], sub' = [sub EXCEPT ![k].open = FALSE]
      PROVE  Streams'
  <2>1. OnlyOf(k) /\ SameBuffer(k) /\ SamePhase(k)
    BY <1>4, CloseEffect
  <2>2. \A j \in Subs \ {k} : due'[j] = due[j]
    BY <1>4 DEF TypeOK
  <2>3. Received(k)' = Received(k)
    BY <1>1, <2>1, SameReceived
  <2>4. sub'[k].at = "answered" /\ sub'[k].active /\ k # 0
    BY <1>4, <2>1 DEF Streams, StreamOK, HandlerOK, SamePhase
  <2>5. StreamOK(k)'
    BY <1>4, <2>3, <2>4 DEF Streams, StreamOK, HandlerOK, CurrentOK
  <2>6. QED
    BY <1>1, <1>4, <2>1, <2>2, <2>5, OthersUntouched
<1>5. QED
  BY <1>2, <1>3, <1>4, BroadcastCases

LEMMA StreamWrite ==
    ASSUME TypeOK, Streams, NEW k \in Subs, Write(k)
    PROVE  Streams'
<1>1. /\ OnlyOf(k) /\ SameLink(k) /\ SamePhase(k) /\ sub'[k].next = sub[k].next
      /\ sub[k].buf # <<>> /\ sub'[k].buf = Tail(sub[k].buf)
      /\ sent'[k] = Append(sent[k], Head(sub[k].buf))
      /\ \A j \in Subs \ {k} : sent'[j] = sent[j]
      /\ entry' = entry /\ due' = due
  BY WriteEffect
<1>2. Received(k)' = Received(k)
  BY <1>1, MoveHead, ReceivedType DEF Received
<1>3. StreamOK(k)'
  BY <1>1, <1>2, StreamUntouched DEF Streams, SameLink
<1>4. QED
  BY <1>1, <1>3, OthersUntouched

LEMMA StreamWriterExits ==
    ASSUME TypeOK, TypeOK', Streams, NEW k \in Subs, WriterExits(k)
    PROVE  Streams'
<1>1. /\ OnlyOf(k) /\ SamePhase(k) /\ sub'[k].next = sub[k].next /\ sub'[k].writer = "gone"
      /\ sub'[k].buf = (IF sub[k].buf = <<>> THEN <<>> ELSE Tail(sub[k].buf))
      /\ entry' = entry /\ sent' = sent /\ due' = due
  BY WriterExitsEffect
<1>2. CASE sub[k].buf = <<>>
  <2>1. Received(k)' = Received(k)
    BY <1>1, <1>2 DEF Received
  <2>2. StreamOK(k)'
    BY <1>1, <2>1, StreamUntouched DEF Streams
  <2>3. QED
    BY <1>1, <2>2, OthersUntouched
<1>3. CASE sub[k].buf # <<>>
  <2>1. /\ sent[k] \in Seq(Items) /\ sub[k].buf \in Seq(Items) /\ Len(sent[k]) \in Nat
        /\ Received(k) \in Seq(Items) /\ Received(k)' \in Seq(Items)
    BY ReceivedType, ReceivedTypeNext
  <2>2. Received(k)' = sent[k] \o Tail(sub[k].buf)
    BY <1>1, <1>3 DEF Received
  <2>3. Loses(Received(k)', Received(k), Len(sent[k]))
    <3>1. Loses(sent[k] \o Tail(sub[k].buf), sent[k] \o sub[k].buf, Len(sent[k]))
      <4> DEFINE s == sent[k]
                 t == sub[k].buf
      <4>1. s \in Seq(Items) /\ t \in Seq(Items) /\ t # <<>>
        BY <1>3, <2>1
      <4> HIDE DEF s, t
      <4>2. Loses(s \o Tail(t), s \o t, Len(s))
        BY <4>1, LoseHead DEF Loses
      <4>3. QED
        BY <4>2 DEF s, t
    <3>2. QED
      BY <2>2, <3>1 DEF Received
  <2>4. InOrder(Received(k)') /\ (ReplayOnly(Received(k)) => ReplayOnly(Received(k)'))
    BY <2>1, <2>3, LossKeepsOrder DEF Streams, StreamOK
  <2>5. sub[k].at \notin {"none", "requested"}
    <3>1. Len(sub[k].buf) # 0 /\ Len(sub[k].buf) \in Nat
          /\ Len(sent[k]) \in Nat /\ Len(Received(k)) = Len(sent[k]) + Len(sub[k].buf)
      BY <1>3, <2>1, ConcatProperties, EmptySeq, LenProperties DEF Received
    <3>2. Received(k) # <<>>
      <4> DEFINE n == Len(Received(k))
                 a == Len(sent[k])
                 b == Len(sub[k].buf)
      <4>1. n # 0
        <5>1. b # 0 /\ b \in Nat /\ a \in Nat /\ n = a + b
          BY <3>1
        <5> HIDE DEF n, a, b
        <5>2. QED
          BY <5>1
      <4>2. Len(<<>>) = 0
        OBVIOUS
      <4>3. QED
        BY <4>1, <4>2, Zenon
    <3>3. QED
      BY <3>2 DEF Streams, StreamOK, HandlerOK
  <2>6. StreamOK(k)'
    BY <1>1, <2>4, <2>5 DEF Streams, StreamOK, HandlerOK, CurrentOK, SamePhase
  <2>7. QED
    BY <1>1, <2>6, OthersUntouched
<1>4. QED
  BY <1>2, <1>3

LEMMA StreamsInit == Init => Streams
<1> SUFFICES ASSUME Init, NEW k \in Subs
             PROVE  StreamOK(k)
  BY DEF Streams
<1>1. sub[k] = NoSub /\ due[k] = <<>> /\ sent[k] = <<>> /\ entry = 0
  BY DEF Init
<1>2. Received(k) = <<>>
  BY <1>1, EmptySeq, ConcatEmptySeq DEF Received, NoSub
<1>3. Len(<<>>) = 0 /\ InOrder(<<>>) /\ ReplayOnly(<<>>)
  BY DEF InOrder, ReplayOnly
<1>4. QED
  BY <1>1, <1>2, <1>3 DEF NoSub, StreamOK, HandlerOK, CurrentOK

LEMMA StreamsStep == TypeOK /\ TypeOK' /\ Streams /\ [Next]_vars => Streams'
<1> SUFFICES ASSUME TypeOK, TypeOK', Streams, [Next]_vars
             PROVE  Streams'
  OBVIOUS
<1>1. ASSUME UNCHANGED <<sub, entry, sent, due>> PROVE Streams'
  BY <1>1 DEF Streams, StreamOK, HandlerOK, CurrentOK, Received
<1>2. CASE Publish \/ PeerLeaves \/ ReadFails \/ ReaderStops \/ UNCHANGED vars
  BY <1>1, <1>2 DEF Publish, PeerLeaves, ReadFails, ReaderStops, StopReading, vars
<1>3. CASE CleanUp
  <2>1. /\ entry' = 0 /\ sent' = sent /\ due' = due
        /\ \A j \in Subs : /\ sub'[j].buf = sub[j].buf /\ sub'[j].next = sub[j].next
                           /\ sub'[j].at = sub[j].at /\ sub'[j].active = sub[j].active
    BY <1>3, CleanUpEffect DEF SameBuffer, SamePhase
  <2>2. ASSUME NEW j \in Subs PROVE StreamOK(j)'
    <3>1. Received(j)' = Received(j) /\ SamePhase(j)
      BY <2>1 DEF Received, SamePhase
    <3>2. j # 0
      OBVIOUS
    <3>3. QED
      BY <2>1, <3>1, <3>2, StreamUntouched DEF Streams
  <2>3. QED
    BY <2>2 DEF Streams
<1>4. ASSUME NEW e \in Events, Broadcast(e) PROVE Streams'
  BY <1>4, StreamBroadcast
<1>5. ASSUME NEW k \in Subs, ReadRequest(k) \/ SubStep(k) \/ Write(k) \/ WriterExits(k)
      PROVE  Streams'
  BY <1>5, StreamReadRequest, StreamSubscribe, StreamReplay, StreamHandler, StreamWrite,
     StreamWriterExits DEF SubStep
<1>6. QED
  BY <1>2, <1>3, <1>4, <1>5 DEF Next

\* The stream of every subscription keeps the invariant.
THEOREM StreamsCorrect == Spec => []Streams
BY StreamsInit, StreamsStep, TypeCorrect, PTL DEF Spec

\* Replayed events come before live ones, for any buffer size and any failure of a write.
THEOREM ReplayComesFirst == Spec => []ReplayBeforeLive
<1>1. Streams => ReplayBeforeLive
  BY DEF Streams, StreamOK, ReplayBeforeLive
<1>2. QED
  BY <1>1, StreamsCorrect, PTL

\* No event is lost while the subscription lives: a full buffer costs the subscription, never
\* an event in the middle of the stream.
THEOREM LossIsNeverSilent == Spec => []NoSilentLoss
<1>1. Streams => NoSilentLoss
  BY DEF Streams, StreamOK, CurrentOK, NoSilentLoss
<1>2. QED
  BY <1>1, StreamsCorrect, PTL
=============================================================================
