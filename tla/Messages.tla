------------------------------ MODULE Messages ------------------------------
(***************************************************************************)
(* The conversation as a sequence of messages, and the pure code that works *)
(* on it: one turn of the loop (internal/loop), the replacement made by the *)
(* compactor (internal/compact) and the trimming of unpaired tool_use       *)
(* blocks when a thread is read (internal/session).                         *)
(*                                                                         *)
(* Text is left out. A message keeps its role, the ids of its tool_use      *)
(* blocks, the ids of its tool_result blocks, and who produced it.          *)
(***************************************************************************)
EXTENDS Naturals, Sequences

Message(role, uses, results, by) ==
    [role |-> role, uses |-> uses, results |-> results, by |-> by]

Prompt(by)          == Message("user", {}, {}, by)
Reply(uses, by)     == Message("assistant", uses, {}, by)
Results(uses, by)   == Message("user", {}, uses, by)

\* [summary, acknowledgement], what a compaction leaves of a history.
Handoff == <<Prompt("summary"), Reply({}, "summary")>>

\* The ids of the n tool_use blocks of step k of a run.
UseIds(by, k, n) == {<<by, k, i>> : i \in 1..n}

-----------------------------------------------------------------------------
\* pending of trimOrphanToolUse after the first i messages: the tool_use blocks that no
\* later tool_result has deleted.
Pending(msgs, i) ==
    UNION {{u \in msgs[j].uses : \A k \in j..i : u \notin msgs[k].results} : j \in 1..i}

Orphans(msgs) == Pending(msgs, Len(msgs))

\* lastBalanced: the longest prefix after which nothing is pending.
LastBalanced(msgs) ==
    CHOOSE i \in 0..Len(msgs) :
        /\ Pending(msgs, i) = {}
        /\ \A j \in (i + 1)..Len(msgs) : Pending(msgs, j) # {}

\* Mutant: only the last message is cut.
TrimLast(msgs) == IF Orphans(msgs) = {} THEN msgs ELSE SubSeq(msgs, 1, Len(msgs) - 1)

TrimOrphanToolUse(msgs) ==
    IF Orphans(msgs) = {} THEN msgs ELSE SubSeq(msgs, 1, LastBalanced(msgs))

\* The results of a reply's tool calls, all of them and no others, are the message right
\* after it, except that the replies with calls in open need not be answered.
PairedBut(msgs, open) ==
    \A i \in 1..Len(msgs) :
        /\ msgs[i].uses \ open # {} => i < Len(msgs) /\ msgs[i + 1].results = msgs[i].uses
        /\ msgs[i].results # {} => i > 1 /\ msgs[i - 1].uses = msgs[i].results

\* What the model API accepts.
Paired(msgs) == PairedBut(msgs, {})

-----------------------------------------------------------------------------
(* A run as the loop keeps it: execCtx; unhandled is a history, the calls of *)
(* the replies so far whose stop reason act has no case for.                *)
Fresh(msgs) ==
    [msgs |-> msgs, step |-> 0, status |-> "running", reason |-> "none",
     final |-> {}, replied |-> FALSE, compacted |-> FALSE, unhandled |-> {}]

MarkFailed(x, why) == [x EXCEPT !.status = "failed", !.reason = why]

\* An assistant reply with n tool calls is appended and kept as FinalAssistant.
WithReply(x, by, n) ==
    [x EXCEPT !.msgs = Append(@, Reply(UseIds(by, x.step, n), by)),
              !.final = UseIds(by, x.step, n), !.replied = TRUE]

\* Mutant: a reply cut off by max_tokens gets no tool_result.
AnsweredToolUseOnly(x, by, stop) ==
    IF stop = "tool_use" /\ x.final # {}
    THEN [x EXCEPT !.msgs = Append(@, Results(x.final, by))] ELSE x

\* act: the results of the reply's tool calls, real ones or synthetic errors; nothing
\* for any other stop reason, and the loop goes on unless it is end_turn.
Answered(x, by, stop) ==
    CASE stop \in {"tool_use", "max_tokens"} /\ x.final # {} ->
            [x EXCEPT !.msgs = Append(@, Results(x.final, by))]
      [] stop = "other" -> [x EXCEPT !.unhandled = @ \cup x.final]
      [] OTHER -> x

\* Mutant: the step limit before end_turn.
JudgeLimitFirst(x, stop, maxSteps) ==
    CASE x.step >= maxSteps -> MarkFailed(x, "exceeded_max_steps")
      [] x.step < maxSteps /\ stop = "end_turn" -> [x EXCEPT !.status = "success"]
      [] OTHER -> x

\* end_turn takes precedence over the step limit.
Judge(x, stop, maxSteps) ==
    CASE stop = "end_turn" -> [x EXCEPT !.status = "success"]
      [] stop # "end_turn" /\ x.step >= maxSteps -> MarkFailed(x, "exceeded_max_steps")
      [] OTHER -> x

Compacted(x) == [x EXCEPT !.msgs = Handoff, !.compacted = TRUE]

\* Replies Chat can return: any stop reason with the calls that were read. end_turn is
\* parseSSE's initial value, so a stream that ends before its message_delta gives
\* end_turn; "other" is every stop reason the code does not name (pause_turn, refusal, ...).
ReplyKinds(maxUses) ==
    [stop : {"tool_use", "max_tokens", "end_turn", "other"}, uses : 0..maxUses]

\* One iteration of Run, as a whole: every record it can leave.
Iterations(x, by, maxSteps, maxUses, compacts) ==
    LET y == [x EXCEPT !.step = @ + 1] IN
    {MarkFailed(y, why) : why \in {"cancelled", "llm_error"}} \cup
    UNION {LET z == Judge(Answered(WithReply(y, by, k.uses), by, k.stop), k.stop, maxSteps)
           IN  {z} \cup (IF compacts /\ k.stop = "tool_use" /\ z.status = "running"
                         THEN {Compacted(z)} ELSE {})
           : k \in ReplyKinds(maxUses)}
=============================================================================
