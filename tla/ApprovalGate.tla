---------------------------- MODULE ApprovalGate ----------------------------
(***************************************************************************)
(* What the permission manager promises its callers: every tool call that  *)
(* reaches the gate gets one verdict, a call that needs consent is granted *)
(* only after a human approved that very call, and a call that is refused  *)
(* outright is never granted.  Nothing is said of caches, files, locks,    *)
(* timers or channels.                                                     *)
(***************************************************************************)
CONSTANT Requests       \* slots for tool calls in flight

VARIABLES
    need,               \* need[r]: "refuse", "consent" or "policy"
    verdict,            \* verdict[r]: "none", "open", "granted" or "refused"
    consent             \* the open calls a human has approved

gateVars == <<need, verdict, consent>>

GateInit ==
    /\ need \in [Requests -> {"refuse", "consent", "policy"}]
    /\ verdict = [r \in Requests |-> "none"]
    /\ consent = {}

\* A new call takes slot r.
Open(r) ==
    /\ verdict[r] # "open"
    /\ \E n \in {"refuse", "consent", "policy"} : need' = [need EXCEPT ![r] = n]
    /\ verdict' = [verdict EXCEPT ![r] = "open"]
    /\ consent' = consent \ {r}

Consent(r) ==
    /\ verdict[r] = "open"
    /\ consent' = consent \cup {r}
    /\ UNCHANGED <<need, verdict>>

Grant(r) ==
    /\ verdict[r] = "open"
    /\ need[r] # "refuse"
    /\ need[r] = "consent" => r \in consent
    /\ verdict' = [verdict EXCEPT ![r] = "granted"]
    /\ UNCHANGED <<need, consent>>

Refuse(r) ==
    /\ verdict[r] = "open"
    /\ verdict' = [verdict EXCEPT ![r] = "refused"]
    /\ UNCHANGED <<need, consent>>

\* The process stops and starts again: every call in flight is gone.
Reset ==
    /\ verdict' = [r \in Requests |-> "none"]
    /\ consent' = {}
    /\ UNCHANGED need

GateNext == Reset \/ \E r \in Requests : Open(r) \/ Consent(r) \/ Grant(r) \/ Refuse(r)

GateSpec == GateInit /\ [][GateNext]_gateVars
=============================================================================
