------------------------- MODULE PermissionsProofs -------------------------
(***************************************************************************)
(* Proofs about Permissions for any set of slots, sessions, tools, calls   *)
(* and patterns.                                                           *)
(***************************************************************************)
EXTENDS Permissions, TLAPS

USE CallsAssumption, PolicyAssumption, RequestsAssumption, TimeoutAssumption

\* A call let through unasked matches no deny pattern and stays inside the working
\* directory; a call that is asked about matches no deny pattern.
LEMMA AutomaticSound ==
    ASSUME NEW c
    PROVE  /\ Automatic(c) = "allow" => ~Denied(c) /\ ~ForceAsk(c)
           /\ Automatic(c) = "ask" => ~Denied(c)
BY DEF Automatic, Denied, ForceAsk

\* The three results of Check.
LEMMA CheckEffect ==
    ASSUME NEW r, Check(r)
    PROVE  \/ /\ Automatic(req[r]) = "ask"
              /\ pc' = [pc EXCEPT ![r] = "asking"]
              /\ outcome' = outcome
           \/ /\ Automatic(req[r]) = "allow"
              /\ pc' = [pc EXCEPT ![r] = "done"]
              /\ outcome' = [outcome EXCEPT ![r] = Verdict(TRUE, "auto_allow")]
           \/ /\ pc' = [pc EXCEPT ![r] = "done"]
              /\ outcome' = [outcome EXCEPT ![r] = Verdict(FALSE, "auto_deny")]
<1>1. CASE Automatic(req[r]) = "allow"
  BY ONLY Check(r), <1>1 DEF Check
<1>2. CASE Automatic(req[r]) # "allow"
  BY ONLY Check(r), <1>2 DEF Check
<1>3. QED
  BY <1>1, <1>2

LEMMA LoadType ==
    ASSUME NEW file
    PROVE  Load(file) \in [Tools -> CachedValue]
BY DEF Load, CachedValue

\* A part of a table is a table, in which each tool has its decision or none.
LEMMA PartsValues ==
    ASSUME NEW file, NEW f \in Parts(file)
    PROVE  /\ f = [t \in Tools |-> f[t]]
           /\ \A t \in Tools : f[t] \in {file[t], "none"}
BY DEF Parts

LEMMA PartsType ==
    ASSUME persistentAlways \in [Tools -> CachedValue]
    PROVE  \A f \in Parts(persistentAlways) : f \in [Tools -> CachedValue \cup {"other"}]
BY PartsValues DEF CachedValue

LEMMA TypeInit == Init => TypeOK
<1> SUFFICES ASSUME Init PROVE TypeOK
  OBVIOUS
<1>1. (CHOOSE c \in Calls : TRUE) \in Calls
  OBVIOUS
<1>2. Load(disk) \in [Tools -> CachedValue]
  BY LoadType
<1>3. QED
  BY <1>1, <1>2, FilesAssumption DEF Init, TypeOK, Verdict, Empty, CachedValue, InFlight

LEMMA TypeStep == TypeOK /\ [Next]_vars => TypeOK'
<1> SUFFICES ASSUME TypeOK, [Next]_vars
             PROVE  TypeOK'
  OBVIOUS
<1> USE DEF TypeOK, callVars, chanVars, cacheVars, diskVars, Unlocked,
            InFlight, Waiting, Leaving, Apply, Verdict
<1>1. ASSUME NEW r \in Requests, Start(r) PROVE TypeOK'
  BY <1>1 DEF Start
<1>2. ASSUME NEW r \in Requests, Check(r) PROVE TypeOK'
  <2>4. UNCHANGED <<req, decision, pending, answerCh, answered, sessionAlways,
                    persistentAlways, disk, mu, part, stale>>
    BY <1>2 DEF Check
  <2>5. pc' \in [Requests -> {"idle", "done"} \cup InFlight]
    <3>1. pc' = [pc EXCEPT ![r] = "asking"] \/ pc' = [pc EXCEPT ![r] = "done"]
      BY ONLY <1>2, CheckEffect
    <3>2. QED
      BY <3>1
  <2>6. outcome' \in [Requests -> [allowed : BOOLEAN,
           reason : Decisions \cup {"none", "auto_allow", "auto_deny", "timeout", "cancelled"}]]
    <3>1. CASE outcome' = outcome
      BY <3>1
    <3>2. CASE outcome' = [outcome EXCEPT ![r] = Verdict(TRUE, "auto_allow")]
      BY <3>2
    <3>3. CASE outcome' = [outcome EXCEPT ![r] = Verdict(FALSE, "auto_deny")]
      BY <3>3
    <3>4. QED
      BY <1>2, CheckEffect, <3>1, <3>2, <3>3
  <2>7. QED
    BY <2>4, <2>5, <2>6
<1>3. ASSUME NEW r \in Requests, Register(r) PROVE TypeOK'
  BY <1>3 DEF Register
<1>4. ASSUME NEW r \in Requests, Publish(r) PROVE TypeOK'
  BY <1>4 DEF Publish
<1>5. ASSUME NEW r \in Requests, Respond(r) PROVE TypeOK'
  BY <1>5 DEF Respond
<1>6. ASSUME NEW r \in Requests, ReceiveAnswer(r) PROVE TypeOK'
  BY <1>6 DEF ReceiveAnswer
<1>7. ASSUME NEW r \in Requests, SeeCancel(r) \/ Expire(r) PROVE TypeOK'
  BY <1>7 DEF SeeCancel, Expire
<1>8. ASSUME NEW r \in Requests, GiveUp(r) PROVE TypeOK'
  BY <1>8 DEF GiveUp
<1>9. ASSUME NEW r \in Requests, ApplyOnce(r) PROVE TypeOK'
  BY <1>9 DEF ApplyOnce, Answer, Always, Decisions
<1>10. ASSUME NEW r \in Requests, ApplyAlways(r) PROVE TypeOK'
  <2>1. req[r].sess \in Sessions /\ req[r].tool \in Tools
    OBVIOUS
  <2>2. Stored(decision[r]) \in CachedValue
    BY DEF Stored, CachedValue
  <2>3. sessionAlways' \in [Sessions -> [Tools -> CachedValue]]
        /\ persistentAlways' \in [Tools -> CachedValue]
    BY <1>10, <2>1, <2>2 DEF ApplyAlways, Remember
  <2>4. Answer(r) \in [allowed : BOOLEAN, reason : Decisions]
    BY <1>10 DEF ApplyAlways, Answer, Always, Decisions
  <2>5. disk' \in [Tools -> CachedValue \cup {"other"}]
    BY <1>10 DEF ApplyAlways, Empty, CachedValue
  <2>10. stale' = stale \/ stale' \subseteq stale \cup {req[r].tool} \/ stale' = {}
    BY ONLY <1>10 DEF ApplyAlways
  <2>11. stale' \subseteq Tools
    BY <2>1, <2>10
  <2>6. mu' \in Requests \cup {"free"} /\ part' \in BOOLEAN
    BY <1>10 DEF ApplyAlways
  <2>12. pc' \in [Requests -> {"idle", "done"} \cup InFlight]
    <3>1. pc' = [pc EXCEPT ![r] = "saving"] \/ pc' = [pc EXCEPT ![r] = "done"]
      BY ONLY <1>10 DEF ApplyAlways
    <3>2. QED
      BY <3>1
  <2>13. UNCHANGED <<req, decision, pending, answerCh, answered>>
    BY <1>10 DEF ApplyAlways
  <2>7. outcome' = outcome \/ outcome' = [outcome EXCEPT ![r] = Answer(r)]
    BY <1>10 DEF ApplyAlways
  <2>8. outcome' \in [Requests -> [allowed : BOOLEAN,
           reason : Decisions \cup {"none", "auto_allow", "auto_deny", "timeout", "cancelled"}]]
    BY <2>4, <2>7
  <2>9. QED
    BY <2>3, <2>5, <2>6, <2>8, <2>11, <2>12, <2>13
<1>11. ASSUME NEW r \in Requests, Save(r) PROVE TypeOK'
  <2>1. Answer(r) \in [allowed : BOOLEAN, reason : Decisions \cup {"none"}]
    BY DEF Answer
  <2>2. disk' \in [Tools -> CachedValue \cup {"other"}]
    BY <1>11, PartsType DEF Save
  <2>3. part' \in BOOLEAN
    BY <1>11 DEF Save
  <2>4. QED
    BY <1>11, <2>1, <2>2, <2>3 DEF Save
<1>12. CASE Restart
  <2>1. Load(disk') \in [Tools -> CachedValue]
    BY LoadType
  <2>2. disk' \in [Tools -> CachedValue \cup {"other"}]
    BY <1>12, PartsType DEF Restart
  <2>3. QED
    BY <1>12, <2>1, <2>2 DEF Restart, FreshManager, Empty, CachedValue
<1>13. CASE UNCHANGED vars
  BY <1>13 DEF vars
<1>14. QED
  BY <1>1, <1>2, <1>3, <1>4, <1>5, <1>6, <1>7, <1>8, <1>9, <1>10, <1>11, <1>12, <1>13
     DEF Next, Step, OwnStep

\* Every variable keeps its type, and the caches hold only "allow" and "deny".
THEOREM TypeCorrect == Spec => []TypeOK
<1>1. QED
  BY TypeInit, TypeStep, PTL DEF Spec

-----------------------------------------------------------------------------
IInv == TypeOK /\ Consistent

LEMMA InvInit == Init => IInv
<1> SUFFICES ASSUME Init PROVE IInv
  OBVIOUS
<1>1. \A r \in Requests : SlotOK(r)
  BY DEF Init, SlotOK, InFlight, Waiting, Leaving, Apply
<1>2. DiskOK
  BY DEF Init, DiskOK
<1>3. QED
  BY <1>1, <1>2, TypeInit DEF IInv, Consistent

\* What a step of slot r leaves alone: the state of every other slot.
Frame(r) == \A q \in Requests \ {r} :
    /\ pc'[q] = pc[q] /\ req'[q] = req[q] /\ outcome'[q] = outcome[q]
    /\ answerCh'[q] = answerCh[q] /\ answered'[q] = answered[q]
    /\ decision'[q] = decision[q]
    /\ q \in pending' <=> q \in pending
    /\ mu' = q <=> mu = q

LEMMA FrameKeeps ==
    ASSUME NEW r, Frame(r), \A q \in Requests : SlotOK(q), SlotOK(r)'
    PROVE  \A q \in Requests : SlotOK(q)'
<1> SUFFICES ASSUME NEW q \in Requests, q # r
             PROVE  SlotOK(q)'
  OBVIOUS
<1>1. SlotOK(q)
  OBVIOUS
<1>2. QED
  BY <1>1 DEF Frame, SlotOK, Denied, ForceAsk

LEMMA InvStep == IInv /\ [Next]_vars => IInv'
<1> SUFFICES ASSUME TypeOK, DiskOK, \A r \in Requests : SlotOK(r), [Next]_vars
             PROVE  DiskOK' /\ \A r \in Requests : SlotOK(r)'
  BY TypeStep DEF IInv, Consistent
<1> DEFINE Goal == DiskOK' /\ \A q \in Requests : SlotOK(q)'
<1> USE DEF TypeOK, callVars, chanVars, cacheVars, diskVars, Unlocked, InFlight, Waiting,
            Leaving, Apply
<1>1. ASSUME NEW r \in Requests, Start(r) PROVE Goal
  <2>1. Frame(r)
    BY <1>1 DEF Start, Frame
  <2>2. SlotOK(r)'
    <3>1. /\ pc[r] \in {"idle", "done"} /\ pc'[r] = "checking"
          /\ outcome'[r] = Verdict(FALSE, "none")
          /\ answered'[r] = "none" /\ answerCh'[r] = "empty"
          /\ UNCHANGED <<pending, mu>>
      BY <1>1 DEF Start
    <3>2. SlotOK(r)
      OBVIOUS
    <3>3. QED
      BY ONLY <3>1, <3>2 DEF SlotOK, Waiting, Leaving, Apply, InFlight
  <2>3. DiskOK'
    BY <1>1 DEF Start, DiskOK
  <2>4. QED
    BY <2>1, <2>2, <2>3, FrameKeeps
<1>2. ASSUME NEW r \in Requests, Check(r) PROVE Goal
  <2>1. Frame(r)
    <3>1. \A q \in Requests \ {r} : pc'[q] = pc[q] /\ outcome'[q] = outcome[q]
      BY <1>2 DEF Check
    <3>2. QED
      BY <1>2, <3>1 DEF Check, Frame
  <2>2. SlotOK(r)'
    <3>1. pc[r] = "checking" /\ SlotOK(r)
          /\ UNCHANGED <<req, decision, pending, answerCh, answered, mu>>
      BY <1>2 DEF Check
    <3>2. CASE /\ Automatic(req[r]) = "ask"
               /\ pc' = [pc EXCEPT ![r] = "asking"]
               /\ outcome' = outcome
      <4>1. pc'[r] = "asking"
        BY <3>2
      <4>2. QED
        BY ONLY <3>1, <3>2, <4>1, AutomaticSound
           DEF SlotOK, Waiting, Leaving, Apply, InFlight, Denied, ForceAsk
    <3>3. CASE /\ Automatic(req[r]) = "allow"
               /\ pc' = [pc EXCEPT ![r] = "done"]
               /\ outcome' = [outcome EXCEPT ![r] = Verdict(TRUE, "auto_allow")]
      <4>1. pc'[r] = "done" /\ outcome'[r].reason = "auto_allow"
        BY <3>3 DEF Verdict
      <4>2. QED
        BY ONLY <3>1, <3>3, <4>1, AutomaticSound
           DEF SlotOK, Waiting, Leaving, Apply, InFlight, Denied, ForceAsk
    <3>4. CASE /\ pc' = [pc EXCEPT ![r] = "done"]
               /\ outcome' = [outcome EXCEPT ![r] = Verdict(FALSE, "auto_deny")]
      <4>1. pc'[r] = "done" /\ outcome'[r].allowed = FALSE
        BY <3>4 DEF Verdict
      <4>2. QED
        BY ONLY <3>1, <4>1 DEF SlotOK, Waiting, Leaving, Apply, InFlight
    <3>5. QED
      BY <1>2, CheckEffect, <3>2, <3>3, <3>4
  <2>3. DiskOK'
    BY <1>2 DEF Check, DiskOK
  <2>4. QED
    BY <2>1, <2>2, <2>3, FrameKeeps
<1>3. ASSUME NEW r \in Requests, Register(r) PROVE Goal
  <2>1. Frame(r)
    BY <1>3 DEF Register, Frame
  <2>2. SlotOK(r)'
    <3>1. /\ pc[r] = "asking" /\ pc'[r] = "registered" /\ answerCh'[r] = "empty"
          /\ UNCHANGED <<req, decision, outcome, answered, mu>>
      BY <1>3 DEF Register
    <3>2. SlotOK(r)
      OBVIOUS
    <3>3. QED
      BY ONLY <3>1, <3>2 DEF SlotOK, Waiting, Leaving, Apply, InFlight, Denied, ForceAsk
  <2>3. DiskOK'
    BY <1>3 DEF Register, DiskOK
  <2>4. QED
    BY <2>1, <2>2, <2>3, FrameKeeps
<1>4. ASSUME NEW r \in Requests, Publish(r) \/ SeeCancel(r) \/ Expire(r) PROVE Goal
  <2>1. Frame(r)
    BY <1>4 DEF Publish, SeeCancel, Expire, Frame
  <2>2. SlotOK(r)'
    <3>1. /\ pc[r] \in Waiting /\ pc'[r] \in (Waiting \cup Leaving)
          /\ UNCHANGED <<req, decision, outcome, pending, answerCh, answered, mu>>
      BY <1>4 DEF Publish, SeeCancel, Expire
    <3>2. SlotOK(r)
      OBVIOUS
    <3>3. QED
      BY ONLY <3>1, <3>2 DEF SlotOK, Waiting, Leaving, Apply, InFlight, Denied, ForceAsk
  <2>3. DiskOK'
    BY <1>4 DEF Publish, SeeCancel, Expire, DiskOK
  <2>4. QED
    BY <2>1, <2>2, <2>3, FrameKeeps
<1>5. ASSUME NEW r \in Requests, Respond(r) PROVE Goal
  <2>1. Frame(r)
    BY <1>5 DEF Respond, Frame
  <2>2. SlotOK(r)'
    <3>1. PICK d \in Decisions : /\ answerCh' = [answerCh EXCEPT ![r] = d]
                                 /\ answered' = [answered EXCEPT ![r] = d]
      BY <1>5 DEF Respond
    <3>2. /\ r \in pending /\ r \notin pending'
          /\ answerCh'[r] = d /\ answered'[r] = d /\ d # "none"
          /\ UNCHANGED <<pc, req, decision, outcome, mu>>
      BY <1>5, <3>1 DEF Respond, Decisions
    <3>3. SlotOK(r)
      OBVIOUS
    <3>4. QED
      BY ONLY <3>2, <3>3 DEF SlotOK, Waiting, Leaving, Apply, InFlight, Denied, ForceAsk
  <2>3. DiskOK'
    BY <1>5 DEF Respond, DiskOK
  <2>4. QED
    BY <2>1, <2>2, <2>3, FrameKeeps
<1>6. ASSUME NEW r \in Requests, ReceiveAnswer(r) PROVE Goal
  <2>1. Frame(r)
    BY <1>6 DEF ReceiveAnswer, Frame
  <2>2. SlotOK(r)'
    <3>1. /\ pc[r] = "waiting" /\ pc'[r] = "received"
          /\ answerCh[r] # "empty" /\ answerCh'[r] = "empty"
          /\ decision'[r] = answerCh[r] /\ answerCh[r] # "none"
          /\ UNCHANGED <<req, outcome, pending, answered, mu>>
      BY <1>6 DEF ReceiveAnswer, Decisions
    <3>2. SlotOK(r)
      OBVIOUS
    <3>3. QED
      BY ONLY <3>1, <3>2 DEF SlotOK, Waiting, Leaving, Apply, InFlight, Denied, ForceAsk
  <2>3. DiskOK'
    BY <1>6 DEF ReceiveAnswer, DiskOK
  <2>4. QED
    BY <2>1, <2>2, <2>3, FrameKeeps
<1>7. ASSUME NEW r \in Requests, GiveUp(r) PROVE Goal
  <2>1. Frame(r)
    BY <1>7 DEF GiveUp, Frame
  <2>2. SlotOK(r)'
    <3>1. /\ pc[r] \in Leaving /\ pc'[r] = "done" /\ answerCh'[r] = "empty"
          /\ r \notin pending' /\ outcome'[r].allowed = FALSE
          /\ UNCHANGED <<req, decision, answered, mu>>
      BY <1>7 DEF GiveUp, Verdict
    <3>2. SlotOK(r)
      OBVIOUS
    <3>3. QED
      BY ONLY <3>1, <3>2 DEF SlotOK, Waiting, Leaving, Apply, InFlight
  <2>3. DiskOK'
    BY <1>7 DEF GiveUp, DiskOK
  <2>4. QED
    BY <2>1, <2>2, <2>3, FrameKeeps
<1>8. ASSUME NEW r \in Requests, ApplyOnce(r) PROVE Goal
  <2>1. Frame(r)
    BY <1>8 DEF ApplyOnce, Frame
  <2>2. SlotOK(r)'
    BY <1>8 DEF ApplyOnce, SlotOK, Answer, Verdict, Denied, ForceAsk, Approving
  <2>3. DiskOK'
    BY <1>8 DEF ApplyOnce, DiskOK
  <2>4. QED
    BY <2>1, <2>2, <2>3, FrameKeeps
<1>9. ASSUME NEW r \in Requests, ApplyAlways(r) PROVE Goal
  <2>1. Frame(r)
    BY <1>9 DEF ApplyAlways, Frame
  <2>2. SlotOK(r)'
    <3>1. CASE pc'[r] = "saving"
      <4>1. /\ pc[r] = "received" /\ mu' = r /\ decision[r] \in Always
            /\ UNCHANGED <<req, decision, outcome, pending, answerCh, answered>>
        BY <1>9, <3>1 DEF ApplyAlways
      <4>2. SlotOK(r)
        OBVIOUS
      <4>3. QED
        BY ONLY <3>1, <4>1, <4>2 DEF SlotOK, Waiting, Leaving, Apply, InFlight, Denied, ForceAsk
    <3>2. CASE pc'[r] = "done"
      <4>1. /\ pc[r] = "received" /\ outcome'[r] = Answer(r)
            /\ UNCHANGED <<req, decision, pending, answerCh, answered, mu>>
        BY <1>9, <3>2 DEF ApplyAlways
      <4>2. SlotOK(r)
        OBVIOUS
      <4>3. outcome'[r].reason = decision[r]
        BY ONLY <4>1 DEF Answer, Verdict
      <4>4. outcome'[r].allowed = (decision[r] \in Approving)
        BY ONLY <4>1 DEF Answer, Verdict
      <4>5. QED
        BY ONLY <3>2, <4>1, <4>2, <4>3, <4>4 DEF SlotOK, Waiting, Leaving, Apply, InFlight, Denied, ForceAsk
    <3>3. QED
      BY <1>9, <3>1, <3>2 DEF ApplyAlways
  <2>3. DiskOK'
    <3>1. CASE pc'[r] = "saving"
      <4>1. disk' = Empty /\ mu' = r
        BY <1>9, <3>1 DEF ApplyAlways
      <4>2. \A t \in Tools : Load(disk')[t] = "none"
        BY <4>1 DEF Load, Empty
      <4>3. QED
        BY <4>1, <4>2 DEF DiskOK
    <3>2. CASE pc'[r] = "done"
      <4>1. /\ stale' = {t \in stale \cup {req[r].tool} : Load(disk)[t] # persistentAlways'[t]}
            /\ UNCHANGED <<disk, mu, part>>
            /\ persistentAlways' = [persistentAlways EXCEPT ![req[r].tool] = Stored(decision[r])]
        BY <1>9, <3>2 DEF ApplyAlways, Remember
      <4>2. SUFFICES ASSUME NEW t \in Tools \ stale'
                     PROVE  \/ Load(disk')[t] = persistentAlways'[t]
                            \/ Load(disk')[t] = "none" /\ (part' \/ mu' # "free")
        BY DEF DiskOK
      <4>3. Load(disk') = Load(disk)
        BY <4>1 DEF Load
      <4>4. CASE t \in stale \cup {req[r].tool}
        BY <4>1, <4>3, <4>4
      <4>5. CASE t \notin stale \cup {req[r].tool}
        BY <4>1, <4>3, <4>5 DEF DiskOK
      <4>6. QED
        BY <4>4, <4>5
    <3>3. QED
      BY <1>9, <3>1, <3>2 DEF ApplyAlways
  <2>4. QED
    BY <2>1, <2>2, <2>3, FrameKeeps
<1>10. ASSUME NEW r \in Requests, Save(r) PROVE Goal
  <2>1. mu = r
    BY <1>10 DEF Save, SlotOK
  <2>2. Frame(r)
    BY <1>10, <2>1 DEF Save, Frame
  <2>3. SlotOK(r)'
    BY <1>10 DEF Save, SlotOK, Answer, Verdict, Denied, ForceAsk, Approving
  <2>4. DiskOK'
    <3>1. persistentAlways = Load(persistentAlways)
      BY DEF Load, CachedValue
    <3>2. /\ persistentAlways' = persistentAlways
          /\ \/ disk' = persistentAlways /\ part' = FALSE
             \/ disk' \in Parts(persistentAlways) /\ part' = TRUE
      BY <1>10 DEF Save
    <3>3. CASE disk' = persistentAlways
      BY <3>1, <3>2, <3>3 DEF DiskOK
    <3>4. CASE disk' \in Parts(persistentAlways) /\ part'
      <4>1. \A t \in Tools : disk'[t] \in {persistentAlways[t], "none"}
        BY <3>4, PartsValues
      <4>2. \A t \in Tools : Load(disk')[t] \in {persistentAlways[t], "none"}
        BY <4>1, <3>1 DEF Load
      <4>3. QED
        BY <3>2, <3>4, <4>2 DEF DiskOK
    <3>5. QED
      BY <3>2, <3>3, <3>4
  <2>5. QED
    BY <2>2, <2>3, <2>4, FrameKeeps
<1>11. CASE Restart
  <2>1. \A q \in Requests : SlotOK(q)'
    BY <1>11 DEF Restart, FreshManager, SlotOK
  <2>2. DiskOK'
    BY <1>11 DEF Restart, FreshManager, DiskOK, Load
  <2>3. QED
    BY <2>1, <2>2
<1>12. CASE UNCHANGED vars
  <2>1. ASSUME NEW q \in Requests PROVE SlotOK(q)'
    <3>1. SlotOK(q)
      OBVIOUS
    <3>2. QED
      BY ONLY <1>12, <3>1 DEF vars, callVars, chanVars, cacheVars, diskVars, SlotOK, Denied, ForceAsk
  <2>2. DiskOK'
    BY <1>12 DEF vars, DiskOK, Load
  <2>3. QED
    BY <2>1, <2>2
<1>13. QED
  BY <1>1, <1>2, <1>3, <1>4, <1>5, <1>6, <1>7, <1>8, <1>9, <1>10, <1>11, <1>12
     DEF Next, Step, OwnStep

LEMMA Invariance == Spec => []IInv
BY InvInit, InvStep, PTL DEF Spec

\* The mutex, the channels, the caches and policy.toml always fit together.
THEOREM ConsistentAlways == Spec => []Consistent
<1>1. IInv => Consistent
  BY DEF IInv
<1>2. QED
  BY <1>1, Invariance, PTL

\* Respond never blocks while it holds m.mu, and no entry outlives its call.
THEOREM PendingAlwaysSound == Spec => []PendingSound
<1>1. IInv => PendingSound
  BY DEF IInv, TypeOK, Consistent, SlotOK, PendingSound
<1>2. QED
  BY <1>1, Invariance, PTL

\* deny_patterns and the outside-cwd check cannot be bypassed.
THEOREM GateAlwaysSound == Spec => []GateSound
<1>1. IInv => GateSound
  BY DEF IInv, Consistent, SlotOK, GateSound
<1>2. QED
  BY <1>1, Invariance, PTL

\* What a restart can read of a file written in part, or not at all since it could not
\* be opened.
LEMMA RestartReads ==
    ASSUME IInv, Restart, NEW t \in Tools \ stale
    PROVE  \/ persistentAlways'[t] = persistentAlways[t]
           \/ persistentAlways'[t] = "none" /\ (part \/ mu # "free")
<1>1. persistentAlways' = Load(disk')
  BY DEF Restart, FreshManager
<1>2. CASE mu = "free"
  <2>1. Load(disk') = Load(disk)
    BY <1>2 DEF Restart, Load
  <2>2. QED
    BY <1>1, <1>2, <2>1 DEF IInv, Consistent, DiskOK
<1>3. CASE mu # "free"
  <2>1. disk'[t] \in {persistentAlways[t], "none"}
    BY <1>3, PartsValues DEF Restart
  <2>2. persistentAlways[t] \in CachedValue
    BY DEF IInv, TypeOK
  <2>3. Load(disk')[t] \in {persistentAlways[t], "none"}
    BY <2>1, <2>2 DEF Load, CachedValue
  <2>4. QED
    BY <1>1, <1>3, <2>3
<1>4. QED
  BY <1>2, <1>3

\* A restart, also one in the middle of a save, keeps for every tool the decision taken
\* for good or asks again; only a file that could not be opened brings an older decision
\* back.
THEOREM RestartBringsNothingBack == Spec => RestartKeepsAlways
<1>1. IInv /\ [Next]_vars =>
         [Restart => \A t \in Tools \ stale :
             \/ persistentAlways'[t] = persistentAlways[t]
             \/ persistentAlways'[t] = "none" /\ (part \/ mu # "free")]_vars
  BY RestartReads
<1>2. QED
  BY <1>1, Invariance, PTL DEF Spec, RestartKeepsAlways

-----------------------------------------------------------------------------
\* A step changes the session cache only where a human's answer says so.
AnswerWritten == \A s \in Sessions, t \in Tools :
    sessionAlways'[s][t] \notin {sessionAlways[s][t], "none"} =>
       \E r \in Requests :
          /\ req[r].sess = s /\ req[r].tool = t
          /\ answered[r] = IF sessionAlways'[s][t] = "allow" THEN "always_allow" ELSE "always_deny"
          /\ outcome'[r].reason \in {"none", answered[r]}

LEMMA AnswerWrittenStep == IInv /\ [Next]_vars => AnswerWritten \/ UNCHANGED vars
<1> SUFFICES ASSUME IInv, [Next]_vars, NEW s \in Sessions, NEW t \in Tools,
                    sessionAlways'[s][t] \notin {sessionAlways[s][t], "none"}
             PROVE  \E r \in Requests :
                       /\ req[r].sess = s /\ req[r].tool = t
                       /\ answered[r] = IF sessionAlways'[s][t] = "allow"
                                        THEN "always_allow" ELSE "always_deny"
                       /\ outcome'[r].reason \in {"none", answered[r]}
  BY DEF AnswerWritten
<1>1. sessionAlways' # sessionAlways
  OBVIOUS
<1>2. ~ Restart
  <2>1. SUFFICES ASSUME Restart
                 PROVE  FALSE
    OBVIOUS
  <2>2. sessionAlways' = [u \in Sessions |-> Empty]
    BY ONLY <2>1 DEF Restart, FreshManager
  <2>3. QED
    BY <2>2 DEF Empty
<1>3. PICK r \in Requests : ApplyAlways(r)
  BY <1>1, <1>2 DEF Next, Step, OwnStep, vars, callVars, chanVars, cacheVars, diskVars, Start, Check,
     Register, Publish, Respond, ReceiveAnswer, SeeCancel, Expire, GiveUp, ApplyOnce, Save
<1>4. /\ pc[r] = "received" /\ decision[r] \in Always
      /\ Remember(req[r], Stored(decision[r]))
      /\ outcome' = outcome \/ outcome' = [outcome EXCEPT ![r] = Answer(r)]
  BY <1>3 DEF ApplyAlways
<1>5. /\ req[r].sess = s /\ req[r].tool = t
      /\ sessionAlways'[s][t] = Stored(decision[r])
  BY <1>4, CallsAssumption DEF Remember, IInv, TypeOK
<1>6. answered[r] = decision[r] /\ outcome[r] = Verdict(FALSE, "none")
  BY <1>4 DEF IInv, Consistent, SlotOK, Apply, InFlight
<1>7. outcome'[r].reason \in {"none", answered[r]}
  <2>1. CASE outcome' = outcome
    BY <2>1, <1>6 DEF Verdict
  <2>2. CASE outcome' = [outcome EXCEPT ![r] = Answer(r)]
    BY <2>2, <1>6 DEF Answer, Verdict, IInv, TypeOK
  <2>3. QED
    BY <1>4, <2>1, <2>2
<1>8. answered[r] = IF sessionAlways'[s][t] = "allow" THEN "always_allow" ELSE "always_deny"
  BY <1>4, <1>5, <1>6 DEF Always, Stored
<1>9. QED
  BY <1>5, <1>7, <1>8

\* Only an answered always_* call of the same session and tool changes the
\* session's cached decision.
THEOREM CacheChangesAreAnswered == Spec => CacheFollowsAnswers
<1>1. IInv /\ [Next]_vars => [AnswerWritten]_vars
  BY AnswerWrittenStep
<1>2. QED
  BY <1>1, Invariance, PTL DEF Spec, CacheFollowsAnswers, AnswerWritten

-----------------------------------------------------------------------------
LEMMA GateInitMaps == Init => Gate!GateInit
<1> SUFFICES ASSUME Init PROVE Gate!GateInit
  OBVIOUS
<1>1. GateNeed \in [Requests -> {"refuse", "consent", "policy"}]
  BY DEF GateNeed
<1>2. GateVerdict = [r \in Requests |-> "none"]
  BY DEF GateVerdict, Init
<1>3. GateConsent = {}
  BY DEF GateConsent, Init, Approving
<1>4. QED
  BY <1>1, <1>2, <1>3 DEF Gate!GateInit

\* A step that keeps pc open, the call and the consent is a stutter of the gate.
LEMMA GateStutter ==
    ASSUME NEW r \in Requests, TypeOK,
           pc[r] \in InFlight,
           \E p \in InFlight : pc' = [pc EXCEPT ![r] = p],
           UNCHANGED <<req, outcome, answered>>
    PROVE  UNCHANGED Gate!gateVars
<1>1. GateNeed' = GateNeed
  BY DEF GateNeed, Denied, ForceAsk
<1>2. GateConsent' = GateConsent
  BY DEF GateConsent
<1>3. \A q \in Requests : GateVerdict'[q] = GateVerdict[q]
  BY DEF GateVerdict, TypeOK, InFlight, Waiting, Leaving, Apply
<1>4. GateVerdict' = GateVerdict
  BY <1>3 DEF GateVerdict
<1>5. QED
  BY <1>1, <1>2, <1>4 DEF Gate!gateVars

\* A step that ends the call of r grants or refuses it.
LEMMA GateDecides ==
    ASSUME NEW r \in Requests, IInv, Consistent',
           pc[r] \in InFlight,
           pc' = [pc EXCEPT ![r] = "done"],
           \A q \in Requests \ {r} : outcome'[q] = outcome[q],
           outcome'[r].allowed \in BOOLEAN,
           UNCHANGED <<req, answered>>
    PROVE  Gate!GateNext
<1>1. GateNeed' = GateNeed /\ GateConsent' = GateConsent
  BY DEF GateNeed, Denied, ForceAsk, GateConsent
<1>2. GateVerdict[r] = "open"
  BY DEF GateVerdict, InFlight, Waiting, Leaving, Apply
<1>3. pc'[r] = "done" /\ \A q \in Requests \ {r} : pc'[q] = pc[q]
  BY DEF IInv, TypeOK
<1>4. CASE outcome'[r].allowed
  <2>1. GateVerdict' = [GateVerdict EXCEPT ![r] = "granted"]
    <3>1. \A q \in Requests \ {r} : GateVerdict'[q] = GateVerdict[q]
      BY <1>3 DEF GateVerdict
    <3>2. GateVerdict'[r] = "granted"
      BY <1>3, <1>4 DEF GateVerdict
    <3>3. /\ GateVerdict' = [q \in Requests |-> GateVerdict'[q]]
          /\ GateVerdict = [q \in Requests |-> GateVerdict[q]]
      BY DEF GateVerdict
    <3>4. QED
      BY <3>1, <3>2, <3>3
  <2>2. ~Denied(req[r]) /\ (ForceAsk(req[r]) => answered[r] \in Approving)
    BY <1>3, <1>4 DEF Consistent, SlotOK, Denied, ForceAsk
  <2>3. GateNeed[r] # "refuse" /\ (GateNeed[r] = "consent" => r \in GateConsent)
    BY <2>2 DEF GateNeed, GateConsent
  <2>4. Gate!Grant(r)
    BY <1>1, <1>2, <2>1, <2>3 DEF Gate!Grant
  <2>5. QED
    BY <2>4 DEF Gate!GateNext
<1>5. CASE ~outcome'[r].allowed
  <2>1. GateVerdict' = [GateVerdict EXCEPT ![r] = "refused"]
    <3>1. \A q \in Requests \ {r} : GateVerdict'[q] = GateVerdict[q]
      BY <1>3 DEF GateVerdict
    <3>2. GateVerdict'[r] = "refused"
      BY <1>3, <1>5 DEF GateVerdict
    <3>3. /\ GateVerdict' = [q \in Requests |-> GateVerdict'[q]]
          /\ GateVerdict = [q \in Requests |-> GateVerdict[q]]
      BY DEF GateVerdict
    <3>4. QED
      BY <3>1, <3>2, <3>3
  <2>2. Gate!Refuse(r)
    BY <1>1, <1>2, <2>1 DEF Gate!Refuse
  <2>3. QED
    BY <2>2 DEF Gate!GateNext
<1>6. QED
  BY <1>4, <1>5

LEMMA GateStep == IInv /\ [Next]_vars => [Gate!GateNext]_(Gate!gateVars)
<1> SUFFICES ASSUME IInv, [Next]_vars
             PROVE  Gate!GateNext \/ UNCHANGED Gate!gateVars
  OBVIOUS
<1>0. TypeOK /\ IInv' /\ Consistent' /\ TypeOK'
  BY InvStep DEF IInv
<1> USE <1>0
<1> USE DEF callVars, chanVars, cacheVars, diskVars
<1>1. ASSUME NEW r \in Requests, Start(r) PROVE Gate!GateNext
  <2>1. GateVerdict[r] # "open"
    BY <1>1 DEF Start, GateVerdict
  <2>2. GateVerdict' = [GateVerdict EXCEPT ![r] = "open"]
    BY <1>1 DEF Start, GateVerdict, TypeOK
  <2>3. GateConsent' = GateConsent \ {r}
    BY <1>1 DEF Start, GateConsent, TypeOK, Approving
  <2>4. \E n \in {"refuse", "consent", "policy"} : GateNeed' = [GateNeed EXCEPT ![r] = n]
    <3>1. \A q \in Requests \ {r} : req'[q] = req[q]
      BY <1>1 DEF Start, TypeOK
    <3>2. GateNeed' = [GateNeed EXCEPT ![r] = GateNeed'[r]]
      BY <3>1 DEF GateNeed, Denied, ForceAsk
    <3>3. GateNeed'[r] \in {"refuse", "consent", "policy"}
      BY DEF GateNeed
    <3>4. QED
      BY <3>2, <3>3
  <2>5. Gate!Open(r)
    BY <2>1, <2>2, <2>3, <2>4 DEF Gate!Open
  <2>6. QED
    BY <2>5 DEF Gate!GateNext
<1>2. ASSUME NEW r \in Requests, Check(r) PROVE Gate!GateNext \/ UNCHANGED Gate!gateVars
  <2>1. pc[r] = "checking" /\ UNCHANGED <<req, answered>>
    BY <1>2 DEF Check
  <2>2. CASE pc' = [pc EXCEPT ![r] = "asking"] /\ outcome' = outcome
    BY <2>1, <2>2, GateStutter DEF InFlight
  <2>3. CASE \E v \in {Verdict(TRUE, "auto_allow"), Verdict(FALSE, "auto_deny")} :
               pc' = [pc EXCEPT ![r] = "done"] /\ outcome' = [outcome EXCEPT ![r] = v]
    <3>1. \A q \in Requests \ {r} : outcome'[q] = outcome[q]
      BY <2>3 DEF TypeOK
    <3>2. outcome'[r].allowed \in BOOLEAN
      BY DEF TypeOK
    <3>3. QED
      BY <2>1, <2>3, <3>1, <3>2, GateDecides DEF InFlight
  <2>4. QED
    BY <1>2, CheckEffect, <2>2, <2>3
<1>3. ASSUME NEW r \in Requests,
             \/ Register(r) \/ Publish(r) \/ ReceiveAnswer(r) \/ SeeCancel(r) \/ Expire(r)
      PROVE  UNCHANGED Gate!gateVars
  BY <1>3, GateStutter DEF Register, Publish, ReceiveAnswer, SeeCancel, Expire, InFlight,
     Waiting, Leaving, Apply
<1>4. ASSUME NEW r \in Requests, Respond(r) PROVE Gate!GateNext \/ UNCHANGED Gate!gateVars
  <2>1. GateNeed' = GateNeed /\ GateVerdict' = GateVerdict
    BY <1>4 DEF Respond, GateNeed, GateVerdict, Denied, ForceAsk
  <2>2. GateVerdict[r] = "open" /\ r \notin GateConsent
    BY <1>4 DEF Respond, GateVerdict, GateConsent, IInv, Consistent, SlotOK, Waiting, Leaving, Approving
  <2>3. PICK d \in Decisions : answered' = [answered EXCEPT ![r] = d]
    BY <1>4 DEF Respond
  <2>4. CASE d \in Approving
    <3>1. GateConsent' = GateConsent \cup {r}
      BY <2>3, <2>4 DEF GateConsent, TypeOK
    <3>2. QED
      BY <2>1, <2>2, <3>1 DEF Gate!Consent, Gate!GateNext
  <2>5. CASE d \notin Approving
    <3>1. GateConsent' = GateConsent
      BY <2>2, <2>3, <2>5 DEF GateConsent, TypeOK
    <3>2. QED
      BY <2>1, <3>1 DEF Gate!gateVars
  <2>6. QED
    BY <2>4, <2>5
<1>5. ASSUME NEW r \in Requests, GiveUp(r) \/ ApplyOnce(r) \/ Save(r) PROVE Gate!GateNext
  <2>1. /\ pc[r] \in InFlight /\ pc' = [pc EXCEPT ![r] = "done"]
        /\ UNCHANGED <<req, answered>>
    BY <1>5 DEF GiveUp, ApplyOnce, Save, InFlight, Leaving, Apply
  <2>2. \A q \in Requests \ {r} : outcome'[q] = outcome[q]
    <3>1. \E v : outcome' = [outcome EXCEPT ![r] = v]
      BY <1>5 DEF GiveUp, ApplyOnce, Save
    <3>2. QED
      BY <3>1 DEF TypeOK
  <2>3. outcome'[r].allowed \in BOOLEAN
    BY DEF TypeOK
  <2>4. QED
    BY <2>1, <2>2, <2>3, GateDecides
<1>6. ASSUME NEW r \in Requests, ApplyAlways(r) PROVE Gate!GateNext \/ UNCHANGED Gate!gateVars
  <2>1. pc[r] \in InFlight /\ UNCHANGED <<req, answered>>
    BY <1>6 DEF ApplyAlways, InFlight, Apply
  <2>2. CASE pc' = [pc EXCEPT ![r] = "saving"] /\ outcome' = outcome
    BY <2>1, <2>2, GateStutter DEF InFlight, Apply
  <2>3. CASE pc' = [pc EXCEPT ![r] = "done"] /\ outcome' = [outcome EXCEPT ![r] = Answer(r)]
    <3>1. \A q \in Requests \ {r} : outcome'[q] = outcome[q]
      BY <2>3 DEF TypeOK
    <3>2. outcome'[r].allowed \in BOOLEAN
      BY DEF TypeOK
    <3>3. QED
      BY <2>1, <2>3, <3>1, <3>2, GateDecides
  <2>4. QED
    BY <1>6, <2>2, <2>3 DEF ApplyAlways
<1>7. CASE Restart
  <2>1. GateNeed' = GateNeed
    BY <1>7 DEF Restart, GateNeed, Denied, ForceAsk
  <2>2. GateVerdict' = [r \in Requests |-> "none"]
    BY <1>7 DEF Restart, FreshManager, GateVerdict
  <2>3. GateConsent' = {}
    BY <1>7 DEF Restart, FreshManager, GateConsent, Approving
  <2>4. QED
    BY <2>1, <2>2, <2>3 DEF Gate!Reset, Gate!GateNext
<1>8. CASE UNCHANGED vars
  BY <1>8 DEF vars, Gate!gateVars, GateNeed, GateVerdict, GateConsent, Denied, ForceAsk
<1>9. QED
  BY <1>1, <1>2, <1>3, <1>4, <1>5, <1>6, <1>7, <1>8 DEF Next, Step, OwnStep

\* The manager implements ApprovalGate.
THEOREM GateRefined == Spec => ImplementsGate
<1>1. QED
  BY GateInitMaps, GateStep, Invariance, PTL DEF Spec, ImplementsGate, Gate!GateSpec
=============================================================================
