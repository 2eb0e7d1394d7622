---------------------------- MODULE Permissions ----------------------------
(***************************************************************************)
(* internal/permissions: the Manager that decides whether a tool call may  *)
(* run.  CheckAndWait is split at the points where another goroutine can   *)
(* get in between: the cache lookup, the registration in m.pending, the    *)
(* select on the answer, the context and the timer, the clean-up after the *)
(* select, and the two halves of writing policy.toml under m.mu.           *)
(*                                                                         *)
(* A request slot r stands for one live tool_use_id; when its call is done *)
(* the slot can be taken by a new call with a fresh id.                    *)
(***************************************************************************)
EXTENDS Naturals, FiniteSets

CONSTANTS
    Requests,       \* slots for concurrent CheckAndWait calls
    Sessions,       \* session ids
    Tools,          \* tool names
    Calls,          \* the calls that occur: records [sess, tool, cmd]
    Default,        \* Default[t]: the tool's default decision
    DenyPattern,    \* DenyPattern[t]: the commands a deny pattern of t matches
    AllowPattern,   \* AllowPattern[t]: the commands an allow pattern of t matches
    OutsideCWD,     \* the commands MatchesOutsideCWD accepts
    PolicyFiles,    \* the contents policy.toml can have when the daemon first starts, by tool
    HasTimeout      \* whether m.timeout is non-zero

ASSUME CallsAssumption ==
    /\ Calls # {}
    /\ \A c \in Calls : c.sess \in Sessions /\ c.tool \in Tools
ASSUME PolicyAssumption == \A t \in Tools : Default[t] \in {"allow", "deny", "ask"}
ASSUME FilesAssumption == PolicyFiles \subseteq [Tools -> {"none", "allow", "deny", "other"}]
ASSUME RequestsAssumption == "free" \notin Requests
ASSUME TimeoutAssumption == HasTimeout \in BOOLEAN

VARIABLES
    pc,                 \* where CheckAndWait is for slot r
    req,                \* its arguments
    pending,            \* the slots with an entry in m.pending
    answerCh,           \* the buffered channel of r: a decision or "empty"
    decision,           \* the decision the waiter received
    outcome,            \* what CheckAndWait returned: allowed and reason
    sessionAlways,      \* m.sessionAlways, by session and tool
    persistentAlways,   \* m.persistentAlways, by tool
    disk,               \* the decisions in policy.toml, by tool
    mu,                 \* the slot that holds m.mu while it saves, or "free"
    part,               \* history: the last save stopped after os.Create had emptied the file
    stale,              \* history: the tools of which a save that could not open the file left another decision there
    answered            \* history: the decision Respond accepted for r

callVars  == <<pc, req, decision, outcome>>
chanVars  == <<pending, answerCh, answered>>
cacheVars == <<sessionAlways, persistentAlways>>
diskVars  == <<disk, mu, part, stale>>
vars == <<callVars, chanVars, cacheVars, diskVars>>

\* permission.respond takes any text; what is none of the four denies once.
Decisions == {"allow_once", "always_allow", "deny_once", "always_deny", "unknown"}
Approving == {"allow_once", "always_allow"}
Always    == {"always_allow", "always_deny"}

Waiting  == {"registered", "waiting"}
Leaving  == {"cancelling", "expiring"}
Apply    == {"received", "saving"}
InFlight == {"checking", "asking"} \cup Waiting \cup Leaving \cup Apply

\* m.mu can be taken.
Unlocked == mu = "free"

-----------------------------------------------------------------------------
Denied(c)   == c.cmd \in DenyPattern[c.tool]
ForceAsk(c) == c.cmd \in OutsideCWD

\* Phases 3 to 5: the decision taken without asking, or "ask".
Cached(c) ==
    IF sessionAlways[c.sess][c.tool] # "none"
    THEN sessionAlways[c.sess][c.tool]
    ELSE persistentAlways[c.tool]

\* Mutants: the caches before the outside-cwd check, and allow_patterns first.
CacheFirst(c) ==
    CASE Denied(c)                        -> "deny"
      [] ~Denied(c) /\ Cached(c) # "none" -> Cached(c)
      [] OTHER -> IF ForceAsk(c) THEN "ask" ELSE Default[c.tool]

AllowPatternFirst(c) ==
    IF c.cmd \in AllowPattern[c.tool] THEN "allow" ELSE CacheFirst(c)

Automatic(c) ==
    CASE Denied(c)                            -> "deny"
      [] ~Denied(c) /\ ForceAsk(c)            -> "ask"
      [] ~Denied(c) /\ ~ForceAsk(c) /\ Cached(c) # "none" -> Cached(c)
      [] OTHER -> IF c.cmd \in AllowPattern[c.tool] THEN "allow" ELSE Default[c.tool]

Verdict(allowed, reason) == [allowed |-> allowed, reason |-> reason]

\* loadPolicyFile keeps only "allow" and "deny"; other text is ignored.
Load(file) == [t \in Tools |-> IF file[t] \in {"allow", "deny"} THEN file[t] ELSE "none"]

Empty == [t \in Tools |-> "none"]

\* What can be read of a file of which only a part was written.
Parts(file) == {[t \in Tools |-> IF t \in T THEN file[t] ELSE "none"] : T \in SUBSET Tools}

\* NewManager, on the file as the last one left it.
FreshManager ==
    /\ pc' = [r \in Requests |-> "idle"]
    /\ pending' = {}
    /\ answerCh' = [r \in Requests |-> "empty"]
    /\ answered' = [r \in Requests |-> "none"]
    /\ decision' = [r \in Requests |-> "none"]
    /\ outcome' = [r \in Requests |-> Verdict(FALSE, "none")]
    /\ sessionAlways' = [s \in Sessions |-> Empty]
    /\ persistentAlways' = Load(disk')
    /\ mu' = "free"
    /\ part' = FALSE /\ stale' = {}

Init ==
    /\ pc = [r \in Requests |-> "idle"]
    /\ req = [r \in Requests |-> CHOOSE c \in Calls : TRUE]
    /\ pending = {}
    /\ answerCh = [r \in Requests |-> "empty"]
    /\ answered = [r \in Requests |-> "none"]
    /\ decision = [r \in Requests |-> "none"]
    /\ outcome = [r \in Requests |-> Verdict(FALSE, "none")]
    /\ sessionAlways = [s \in Sessions |-> Empty]
    /\ disk \in PolicyFiles
    /\ persistentAlways = Load(disk)
    /\ mu = "free"
    /\ part = FALSE /\ stale = {}

-----------------------------------------------------------------------------
\* A tool call reaches the gate in slot r.
Start(r) ==
    /\ pc[r] \in {"idle", "done"}
    /\ \E c \in Calls : req' = [req EXCEPT ![r] = c]
    /\ pc' = [pc EXCEPT ![r] = "checking"]
    /\ outcome' = [outcome EXCEPT ![r] = Verdict(FALSE, "none")]
    /\ decision' = [decision EXCEPT ![r] = "none"]
    /\ answered' = [answered EXCEPT ![r] = "none"]
    /\ answerCh' = [answerCh EXCEPT ![r] = "empty"]
    /\ UNCHANGED <<pending, cacheVars, diskVars>>

\* Phases 1 to 5; the cache is read under m.mu.
Check(r) ==
    /\ pc[r] = "checking"
    /\ Unlocked
    /\ LET verdict == Automatic(req[r]) IN
       \/ /\ verdict = "ask"
          /\ pc' = [pc EXCEPT ![r] = "asking"]
          /\ UNCHANGED outcome
       \/ /\ verdict # "ask"
          /\ pc' = [pc EXCEPT ![r] = "done"]
          /\ outcome' = [outcome EXCEPT ![r] =
                            Verdict(verdict = "allow", IF verdict = "allow" THEN "auto_allow" ELSE "auto_deny")]
    /\ UNCHANGED <<req, decision, chanVars, cacheVars, diskVars>>

\* Phase 6: the pending entry is made before the question is published.
Register(r) ==
    /\ pc[r] = "asking"
    /\ Unlocked
    /\ pending' = pending \cup {r}
    /\ answerCh' = [answerCh EXCEPT ![r] = "empty"]
    /\ pc' = [pc EXCEPT ![r] = "registered"]
    /\ UNCHANGED <<req, decision, outcome, answered, cacheVars, diskVars>>

\* onAsk publishes permission.requested, then the goroutine reaches select.
Publish(r) ==
    /\ pc[r] = "registered"
    /\ pc' = [pc EXCEPT ![r] = "waiting"]
    /\ UNCHANGED <<req, decision, outcome, chanVars, cacheVars, diskVars>>

\* Mutant: the answered request stays in m.pending.
RespondKeepsEntry(r) ==
    /\ Unlocked
    /\ r \in pending
    /\ \E d \in Decisions :
          /\ answerCh' = [answerCh EXCEPT ![r] = d]
          /\ answered' = [answered EXCEPT ![r] = d]
    /\ UNCHANGED <<pending, callVars, cacheVars, diskVars>>

\* permission.respond for a tool_use_id that is pending: Respond returns true.
Respond(r) ==
    /\ Unlocked
    /\ r \in pending
    /\ \E d \in Decisions :
          /\ answerCh' = [answerCh EXCEPT ![r] = d]
          /\ answered' = [answered EXCEPT ![r] = d]
    /\ pending' = pending \ {r}
    /\ UNCHANGED <<callVars, cacheVars, diskVars>>

\* The three ways out of the select; with several ready Go picks any.
ReceiveAnswer(r) ==
    /\ pc[r] = "waiting"
    /\ answerCh[r] # "empty"
    /\ decision' = [decision EXCEPT ![r] = answerCh[r]]
    /\ answerCh' = [answerCh EXCEPT ![r] = "empty"]
    /\ pc' = [pc EXCEPT ![r] = "received"]
    /\ UNCHANGED <<req, outcome, pending, answered, cacheVars, diskVars>>

\* The run was aborted: an abort can come at any time and only the select sees it.
SeeCancel(r) ==
    /\ pc[r] = "waiting"
    /\ pc' = [pc EXCEPT ![r] = "cancelling"]
    /\ UNCHANGED <<req, decision, outcome, chanVars, cacheVars, diskVars>>

\* Mutant: the test for a timeout of zero is inverted.
ExpireInverted(r) ==
    /\ ~HasTimeout
    /\ pc[r] = "waiting"
    /\ pc' = [pc EXCEPT ![r] = "expiring"]
    /\ UNCHANGED <<req, decision, outcome, chanVars, cacheVars, diskVars>>

Expire(r) ==
    /\ HasTimeout
    /\ pc[r] = "waiting"
    /\ pc' = [pc EXCEPT ![r] = "expiring"]
    /\ UNCHANGED <<req, decision, outcome, chanVars, cacheVars, diskVars>>

\* cancelWait and the timer branch: take m.mu, drop the entry, refuse.
GiveUp(r) ==
    /\ pc[r] \in Leaving
    /\ Unlocked
    /\ pending' = pending \ {r}
    /\ outcome' = [outcome EXCEPT ![r] =
                      Verdict(FALSE, IF pc[r] = "cancelling" THEN "cancelled" ELSE "timeout")]
    /\ pc' = [pc EXCEPT ![r] = "done"]
    /\ answerCh' = [answerCh EXCEPT ![r] = "empty"]
    /\ UNCHANGED <<req, decision, answered, cacheVars, diskVars>>

-----------------------------------------------------------------------------
\* Mutant: the decision is stored as it was sent.
StoredAsSent(d) == d

\* The value an always_* answer stores.
Stored(d) == IF d = "always_allow" THEN "allow" ELSE "deny"

\* Mutant: the session cache is keyed by the tool alone.
RememberEverywhere(c, v) ==
    /\ sessionAlways' = [s \in Sessions |-> [sessionAlways[s] EXCEPT ![c.tool] = v]]
    /\ persistentAlways' = [persistentAlways EXCEPT ![c.tool] = v]

Remember(c, v) ==
    /\ sessionAlways' = [sessionAlways EXCEPT ![c.sess] = [@ EXCEPT ![c.tool] = v]]
    /\ persistentAlways' = [persistentAlways EXCEPT ![c.tool] = v]

Answer(r) == Verdict(decision[r] \in Approving, decision[r])

\* applyResponse for a one-time answer.
ApplyOnce(r) ==
    /\ pc[r] = "received"
    /\ Unlocked
    /\ decision[r] \notin Always
    /\ outcome' = [outcome EXCEPT ![r] = Answer(r)]
    /\ pc' = [pc EXCEPT ![r] = "done"]
    /\ UNCHANGED <<req, decision, chanVars, cacheVars, diskVars>>

\* applyResponse for always_*: both caches, then savePolicyFile with m.mu held.
\* os.Create leaves an empty file, or fails and leaves the old one.
ApplyAlways(r) ==
    /\ pc[r] = "received"
    /\ Unlocked
    /\ decision[r] \in Always
    /\ Remember(req[r], Stored(decision[r]))
    /\ \/ /\ disk' = Empty
          /\ mu' = r
          /\ stale' = {}
          /\ pc' = [pc EXCEPT ![r] = "saving"]
          /\ UNCHANGED <<part, outcome>>
       \/ /\ stale' = {t \in stale \cup {req[r].tool} : Load(disk)[t] # persistentAlways'[t]}
          /\ outcome' = [outcome EXCEPT ![r] = Answer(r)]
          /\ pc' = [pc EXCEPT ![r] = "done"]
          /\ UNCHANGED <<disk, mu, part>>
    /\ UNCHANGED <<req, decision, chanVars>>

\* Mutant: m.mu is not released after a save.
SaveKeepsLock(r) ==
    /\ pc[r] = "saving"
    /\ disk' = persistentAlways
    /\ part' = FALSE
    /\ outcome' = [outcome EXCEPT ![r] = Answer(r)]
    /\ pc' = [pc EXCEPT ![r] = "done"]
    /\ UNCHANGED <<req, decision, mu, stale, chanVars, cacheVars>>

\* Mutant: only the decision just taken is written to the emptied file.
SaveOneDecision(r) ==
    /\ pc[r] = "saving"
    /\ disk' = [disk EXCEPT ![req[r].tool] = persistentAlways[req[r].tool]]
    /\ part' = FALSE
    /\ mu' = "free"
    /\ outcome' = [outcome EXCEPT ![r] = Answer(r)]
    /\ pc' = [pc EXCEPT ![r] = "done"]
    /\ UNCHANGED <<req, decision, stale, chanVars, cacheVars>>

\* The encoder writes the table, or fails after a part of it (which is only logged), and
\* m.mu is released.
Save(r) ==
    /\ pc[r] = "saving"
    /\ \/ disk' = persistentAlways /\ part' = FALSE
       \/ disk' \in Parts(persistentAlways) \ {persistentAlways} /\ part' = TRUE
    /\ mu' = "free"
    /\ outcome' = [outcome EXCEPT ![r] = Answer(r)]
    /\ pc' = [pc EXCEPT ![r] = "done"]
    /\ UNCHANGED <<req, decision, stale, chanVars, cacheVars>>

\* The daemon stops at any point and is started again on the same policy.toml; when it
\* stops in the middle of a save, a part of the table is there.
Restart ==
    /\ IF mu = "free" THEN disk' = disk ELSE disk' \in Parts(persistentAlways)
    /\ FreshManager
    /\ UNCHANGED req

\* What the goroutine of r does by itself; only a cancellation comes from outside.
OwnStep(r) ==
    \/ Check(r) \/ Register(r) \/ Publish(r)
    \/ ReceiveAnswer(r) \/ Expire(r) \/ GiveUp(r)
    \/ ApplyOnce(r) \/ ApplyAlways(r) \/ Save(r)

Step(r) == OwnStep(r) \/ SeeCancel(r)

Next ==
    \/ \E r \in Requests : Start(r) \/ Step(r) \/ Respond(r)
    \/ Restart

Spec == Init /\ [][Next]_vars

\* A goroutine that can run is run, and one that waits for m.mu gets it (Go's
\* mutexes hand the lock to a starving waiter), hence strong fairness. Nobody
\* has to answer, cancel, call or restart.
FairSpec == Spec /\ \A r \in Requests : SF_vars(OwnStep(r))

-----------------------------------------------------------------------------
CachedValue == {"none", "allow", "deny"}

\* Every variable has its type: the caches hold only "allow" and "deny", so a
\* later CheckAndWait can compare them with val == "allow".
TypeOK ==
    /\ pc \in [Requests -> {"idle", "done"} \cup InFlight]
    /\ req \in [Requests -> Calls]
    /\ pending \in SUBSET Requests
    /\ answerCh \in [Requests -> Decisions \cup {"empty"}]
    /\ answered \in [Requests -> Decisions \cup {"none"}]
    /\ decision \in [Requests -> Decisions \cup {"none"}]
    /\ outcome \in [Requests -> [allowed : BOOLEAN,
                     reason : Decisions \cup {"none", "auto_allow", "auto_deny", "timeout", "cancelled"}]]
    /\ sessionAlways \in [Sessions -> [Tools -> CachedValue]]
    /\ persistentAlways \in [Tools -> CachedValue]
    /\ disk \in [Tools -> CachedValue \cup {"other"}]
    /\ mu \in Requests \cup {"free"}
    /\ part \in BOOLEAN /\ stale \subseteq Tools

\* An entry of m.pending always belongs to a call that is still waiting or
\* about to clean up, and its channel of capacity one is empty: Respond sends
\* while it holds m.mu, so a second value would block every session for ever.
PendingSound ==
    \A r \in pending : pc[r] \in Waiting \cup Leaving /\ answerCh[r] = "empty"

\* deny_patterns and the outside-cwd check cannot be bypassed: a call that was
\* let through does not match a deny pattern, and if its command leaves the
\* working directory a human approved this very call, whatever was answered
\* "always" before and whatever policy.toml says.
GateSound ==
    \A r \in Requests : pc[r] = "done" /\ outcome[r].allowed =>
        /\ ~Denied(req[r])
        /\ ForceAsk(req[r]) => answered[r] \in Approving
        /\ outcome[r].reason # "auto_allow" => outcome[r].reason = answered[r]

\* The mutex, the channels, the caches and the file fit together: a slot holds
\* m.mu exactly while it saves, an answer in the channel or in the waiter's hands
\* is the one Respond accepted, a waiting call has no outcome yet, and what it
\* will return is allowed by the policy; a restart would read from policy.toml what
\* the memory holds, less what a save cut short has not written, and an older
\* decision only for a tool answered since the file could not be opened. It is
\* inductive (PermissionsProofs).
SlotOK(r) ==
    /\ pc[r] = "saving" <=> mu = r
    /\ r \in pending => /\ pc[r] \in Waiting \cup Leaving
                        /\ answerCh[r] = "empty"
                        /\ answered[r] = "none"
    /\ pc[r] \in {"checking", "asking"} => answered[r] = "none"
    /\ answerCh[r] # "empty" => answerCh[r] = answered[r]
    /\ pc[r] \in Apply => decision[r] = answered[r] /\ answered[r] # "none"
    /\ pc[r] = "saving" => decision[r] \in Always
    /\ pc[r] \in InFlight => outcome[r] = Verdict(FALSE, "none")
    /\ pc[r] \in InFlight \ {"checking"} => ~Denied(req[r])
    /\ pc[r] = "done" /\ outcome[r].allowed =>
          /\ ~Denied(req[r])
          /\ ForceAsk(req[r]) => answered[r] \in Approving
          /\ outcome[r].reason # "auto_allow" => outcome[r].reason = answered[r]

DiskOK == \A t \in Tools \ stale :
    \/ Load(disk)[t] = persistentAlways[t]
    \/ Load(disk)[t] = "none" /\ (part \/ mu # "free")

Consistent == DiskOK /\ \A r \in Requests : SlotOK(r)

\* What becomes of the decisions taken for good when the daemon stops at any point, also
\* in the middle of a save. The restarted manager knows for each tool what the old one
\* knew; or nothing, so that it asks again, when a save was cut short by the stop or by
\* an error after os.Create; an older decision can come back only for a tool answered
\* since policy.toml could not be opened. (docs/permissions.md:20 says that the path is
\* empty and nothing is written; app.go:58-59 passes ~/.numbat/policy.toml. The
\* property is about the program as wired.)
RestartKeepsAlways ==
    [][Restart => \A t \in Tools \ stale :
          \/ persistentAlways'[t] = persistentAlways[t]
          \/ persistentAlways'[t] = "none" /\ (part \/ mu # "free")]_vars

\* A session's cached decision for a tool changes only because a human answered
\* always_* to a call of that session and tool, and to that answer: neither
\* another session, nor a timeout, nor a cancelled call can change it.
CacheFollowsAnswers ==
    [][\A s \in Sessions, t \in Tools :
          sessionAlways'[s][t] \notin {sessionAlways[s][t], "none"} =>
             \E r \in Requests :
                /\ req[r].sess = s /\ req[r].tool = t
                /\ answered[r] = IF sessionAlways'[s][t] = "allow" THEN "always_allow" ELSE "always_deny"
                /\ outcome'[r].reason \in {"none", answered[r]}]_vars

\* With a timeout, a call that has to ask is always decided in the end, even if
\* nobody answers it, or the daemon restarts.
AskEnds == \A r \in Requests : pc[r] = "asking" ~> pc[r] \in {"done", "idle"}

\* docs/webui-api-contract.md says that permission.respond returns false for a
\* tool_use_id that has expired: once the timer branch is taken the verdict is
\* "timeout", so Respond must not accept an answer any more.
ExpiredRespondsFalse ==
    [][\A r \in Requests : pc[r] = "expiring" => answered'[r] \in {answered[r], "none"}]_vars

\* The manager implements the abstract gate: whatever the caches, the file, the
\* lock, the timer and the order of answers, every call gets one verdict, and a
\* call that needs consent is granted only with its own.
GateNeed == [r \in Requests |-> IF Denied(req[r]) THEN "refuse"
                                ELSE IF ForceAsk(req[r]) THEN "consent" ELSE "policy"]

GateVerdict == [r \in Requests |-> IF pc[r] = "idle" THEN "none"
                                   ELSE IF pc[r] # "done" THEN "open"
                                   ELSE IF outcome[r].allowed THEN "granted" ELSE "refused"]

GateConsent == {r \in Requests : answered[r] \in Approving}

Gate == INSTANCE ApprovalGate WITH
    need <- GateNeed, verdict <- GateVerdict, consent <- GateConsent

ImplementsGate == Gate!GateSpec
=============================================================================
