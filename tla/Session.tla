------------------------------ MODULE Session ------------------------------
(***************************************************************************)
(* One session: the RPC handlers that work on it (transport/handler.go),    *)
(* session.Manager with its map of sessions, and session.Store with the     *)
(* two files of the session, meta.json and thread.jsonl. Handlers run each  *)
(* in a goroutine of its own; a method of the store holds the session's     *)
(* lock, one of the manager the manager's, and nothing holds either for a   *)
(* whole handler. The run of a send_message is RunSteps.                    *)
(***************************************************************************)
EXTENDS Messages, SequencesExt

CONSTANTS
    Sends,          \* the session.send_message calls
    Modes,          \* the modes a session is created with
    MaxSteps,       \* of every run
    MaxUses,        \* bound on the tool calls of one reply
    Compaction,     \* whether the loop compacts during a run
    MaxEvents       \* bound on the clears, closes, compactions and crashes together

ASSUME SessionAssumption ==
    /\ Modes \subseteq {"chat", "one_shot"}
    /\ MaxSteps \in Nat \ {0} /\ MaxUses \in Nat /\ Compaction \in BOOLEAN
    /\ MaxEvents \in Nat

VARIABLES
    mem,            \* the session in Manager.sessions, or Absent
    meta,           \* meta.json: a session, Absent, or Torn
    thread,         \* the lines of thread.jsonl that are messages
    torn,           \* whether a crash has cut its last line short
    slot,           \* slot[s]: the handler of s
    clearing,       \* a session.clear has removed the thread
    compacting,     \* session.compact: where it is, and the history it has read
    events,         \* history: the bounded events so far, in order
    overlapped,     \* history: two sends were in flight at once
    overClose,      \* history: the sends in flight at the last close
    kept            \* history: the runs saved that no clear or compact has erased

vars == <<mem, meta, thread, torn, slot, clearing, compacting, events, overlapped, overClose, kept>>
lines == <<thread, torn>>

Absent == [mode |-> "absent"]
Torn   == [mode |-> "torn"]

\* A handler that has not begun, or is gone: it holds nothing.
NoLocals(pc) == [pc |-> pc, sess |-> Absent, x |-> Fresh(<<>>), prefill |-> 0,
                 new |-> <<>>, ending |-> {}]

Happens(e) == Len(events) < MaxEvents /\ events' = Append(events, e)

InFlight == {s \in Sends : slot[s].pc \in {"got", "read", "running", "ended", "saved"}}

Init ==
    /\ mem = Absent
    /\ meta = Absent
    /\ thread = <<>> /\ torn = FALSE
    /\ slot = [s \in Sends |-> NoLocals("idle")]
    /\ clearing = FALSE
    /\ compacting = [at |-> "idle", input |-> <<>>]
    /\ events = <<>>
    /\ overlapped = FALSE
    /\ overClose = {}
    /\ kept = {}

-----------------------------------------------------------------------------
(* The store.                                                               *)

\* What can be read of lines that are written after others: the first of them is glued to
\* a torn one and lost with it.
Joined(broken, new) == IF broken /\ new # <<>> THEN Tail(new) ELSE new

AppendMessages(new) ==
    /\ thread' = thread \o Joined(torn, new)
    /\ torn' = (torn /\ new = <<>>)

\* A crash in the middle of writing new after old.
PartlyWritten(old, broken, new) ==
    \E k \in 0..Len(new) :
        /\ thread' = old \o Joined(broken, SubSeq(new, 1, k))
        /\ \/ torn' = (broken /\ k = 0)
           \/ torn' = TRUE /\ k < Len(new)

ReadMessages == TrimOrphanToolUse(thread)

Readable(m) == m \notin {Absent, Torn}

\* What Get and Close see: the map, or else meta.json.
Current == IF mem # Absent THEN mem ELSE meta

\* session.list: the session of the map, and one on disk that is not in the map; a
\* meta.json that cannot be read is passed over.
OnDisk == {m \in {meta} : Readable(m)}
List == IF mem # Absent THEN {mem} ELSE OnDisk

\* WriteMeta, what it leaves in meta.json.
WriteMeta(sess) == sess

\* The session goes to meta.json first and to the map after it.
Stored(sess) == mem' = sess /\ meta' = WriteMeta(sess)

-----------------------------------------------------------------------------
(* session.create, session.clear, session.close                             *)
Create ==
    /\ mem = Absent /\ meta = Absent
    /\ \E mode \in Modes :
          mem' = [mode |-> mode, status |-> "active", runIDs |-> <<>>]
    /\ meta' = mem'
    /\ UNCHANGED <<lines, slot, clearing, compacting, events, overlapped, overClose, kept>>

Clear ==
    /\ Current # Absent /\ ~clearing
    /\ thread' = <<>> /\ torn' = FALSE
    /\ kept' = {}
    /\ clearing' = TRUE
    /\ Happens("clear")
    /\ UNCHANGED <<mem, meta, slot, compacting, overlapped, overClose>>

\* Its second half, in memory only: meta.json keeps the run ids.
ClearRunIDs ==
    /\ clearing
    /\ clearing' = FALSE
    /\ mem' = IF mem = Absent THEN mem ELSE [mem EXCEPT !.runIDs = <<>>]
    /\ UNCHANGED <<meta, lines, slot, compacting, events, overlapped, overClose, kept>>

Close ==
    /\ Readable(Current)
    /\ Stored([Current EXCEPT !.status = "closed"])
    /\ overClose' = InFlight
    /\ Happens("close")
    /\ UNCHANGED <<lines, slot, clearing, compacting, overlapped, kept>>

-----------------------------------------------------------------------------
(* session.compact: the history is read, summarised by the model, and the   *)
(* thread overwritten; the model's call may fail.                           *)
CompactRead ==
    /\ Current # Absent /\ compacting.at = "idle"
    /\ compacting' = [at |-> "summarising", input |-> thread]
    /\ Happens("compact")
    /\ UNCHANGED <<mem, meta, lines, slot, clearing, overlapped, overClose, kept>>

CompactEnds == compacting' = [at |-> "idle", input |-> <<>>]

CompactFails ==
    /\ compacting.at = "summarising"
    /\ CompactEnds
    /\ UNCHANGED <<mem, meta, lines, slot, clearing, events, overlapped, overClose, kept>>

WriteCompacted ==
    /\ compacting.at = "summarising"
    /\ thread' = Handoff /\ torn' = FALSE
    /\ kept' = {}
    /\ CompactEnds
    /\ UNCHANGED <<mem, meta, slot, clearing, events, overlapped, overClose>>

-----------------------------------------------------------------------------
(* session.send_message                                                     *)
SetSlot(s, new) == slot' = [slot EXCEPT ![s] = new]

\* Mutant: a closed session is not refused.
Takes == Readable(Current)

Accepts == Readable(Current) /\ Current.status # "closed"

\* A session that is closed, or whose meta.json cannot be read, is refused.
Get(s) ==
    /\ slot[s].pc = "idle"
    /\ Current # Absent
    /\ SetSlot(s, IF Accepts THEN [slot[s] EXCEPT !.pc = "got", !.sess = Current]
                             ELSE [slot[s] EXCEPT !.pc = "refused"])
    /\ overlapped' = (overlapped \/ (Accepts /\ InFlight # {}))
    /\ UNCHANGED <<mem, meta, lines, clearing, compacting, events, overClose, kept>>

ReadHistory(s) ==
    /\ slot[s].pc = "got"
    /\ SetSlot(s, [slot[s] EXCEPT !.pc = "read", !.x = Fresh(ReadMessages)])
    /\ UNCHANGED <<mem, meta, lines, clearing, compacting, events, overlapped, overClose, kept>>

AppendPrompt(s) ==
    /\ slot[s].pc = "read"
    /\ AppendMessages(<<Prompt(s)>>)
    /\ LET msgs == Append(slot[s].x.msgs, Prompt(s))
       IN  SetSlot(s, [slot[s] EXCEPT !.pc = "running", !.x = Fresh(msgs), !.prefill = Len(msgs)])
    /\ UNCHANGED <<mem, meta, clearing, compacting, events, overlapped, overClose, kept>>

GoesOn(x) == x.status = "running" /\ x.step < MaxSteps

\* Mutant: after a compaction nothing is saved.
OnlyWhatIsNew(x, prefill, s) ==
    IF x.compacted THEN <<>> ELSE SubSeq(x.msgs, prefill + 1, Len(x.msgs))

\* The run's messages, or its last reply alone when a compaction has replaced them.
NewMessages(x, prefill, s) ==
    LET fresh == IF x.compacted THEN <<>> ELSE SubSeq(x.msgs, prefill + 1, Len(x.msgs))
    IN  IF fresh = <<>> /\ x.replied THEN <<Reply(x.final, s)>> ELSE fresh

\* What the history variable keeps of a run: its last reply, whether it was aborted, and
\* whether it was compacted, had calls under a stop reason act has no case for, or ended
\* with calls in a reply that ended the turn (its stream broke off, as a rule).
Ending(x, s) ==
    [by |-> s,
     last |-> IF x.replied THEN {Reply(x.final, s)} ELSE {},
     aborted |-> x.reason = "cancelled",
     loose |-> x.compacted \/ x.unhandled # {} \/ (x.status = "success" /\ x.final # {})]

\* One iteration of the loop; after the last one only what is to be saved is left.
Iterate(s) ==
    /\ slot[s].pc = "running"
    /\ \E y \in Iterations(slot[s].x, s, MaxSteps, MaxUses, Compaction) :
          SetSlot(s, IF GoesOn(y)
                     THEN [slot[s] EXCEPT !.x = y]
                     ELSE [slot[s] EXCEPT !.pc = "ended", !.x = Fresh(<<>>), !.prefill = 0,
                                          !.new = NewMessages(y, slot[s].prefill, s),
                                          !.ending = {Ending(y, s)}])
    /\ UNCHANGED <<mem, meta, lines, clearing, compacting, events, overlapped, overClose, kept>>

SaveMessages(s) ==
    /\ slot[s].pc = "ended"
    /\ AppendMessages(slot[s].new)
    /\ kept' = kept \cup slot[s].ending
    /\ SetSlot(s, [slot[s] EXCEPT !.pc = "saved", !.new = <<>>, !.ending = {}])
    /\ UNCHANGED <<mem, meta, clearing, compacting, events, overlapped, overClose>>

\* Mutant: the status of the run is stored as that of the session.
StatusOfRun(mode) == "success"

\* Mutant: every session goes on waiting for input.
WaitsAgain(mode) == "waiting_for_input"

StatusAfter(mode) == IF mode = "one_shot" THEN "closed" ELSE "waiting_for_input"

\* Manager.Update with the session as it was at Get.
Update(s) ==
    /\ slot[s].pc = "saved"
    /\ Stored([slot[s].sess EXCEPT !.runIDs = Append(@, s),
                                   !.status = StatusAfter(slot[s].sess.mode)])
    /\ SetSlot(s, NoLocals("done"))
    /\ UNCHANGED <<lines, clearing, compacting, events, overlapped, overClose, kept>>

-----------------------------------------------------------------------------
TornAppend == \E s \in Sends :
    \/ slot[s].pc = "read" /\ PartlyWritten(thread, torn, <<Prompt(s)>>)
    \/ slot[s].pc = "ended" /\ PartlyWritten(thread, torn, slot[s].new)

TornCompact == compacting.at = "summarising" /\ PartlyWritten(<<>>, FALSE, Handoff)

\* By Update, by Close or by Create.
TornMeta ==
    /\ \/ \E s \in Sends : slot[s].pc = "saved"
       \/ Readable(Current) /\ Len(events) + 1 < MaxEvents
       \/ Current = Absent
    /\ meta' = Torn

\* The core stops and starts again. The map is empty, the handlers are gone, and the
\* file being written, if any, holds a part of what was to be written.
Crash ==
    /\ mem' = Absent
    /\ slot' = [s \in Sends |-> IF s \in InFlight THEN NoLocals("lost") ELSE slot[s]]
    /\ clearing' = FALSE
    /\ CompactEnds
    /\ Happens("crash")
    /\ \/ UNCHANGED <<meta, lines, kept>>
       \/ TornAppend /\ UNCHANGED <<meta, kept>>
       \/ TornCompact /\ kept' = {} /\ UNCHANGED meta
       \/ TornMeta /\ UNCHANGED <<lines, kept>>
    /\ UNCHANGED <<overlapped, overClose>>

Next ==
    \/ Create \/ Clear \/ ClearRunIDs \/ Close
    \/ CompactRead \/ CompactFails \/ WriteCompacted \/ Crash
    \/ \E s \in Sends : \/ Get(s) \/ ReadHistory(s) \/ AppendPrompt(s)
                        \/ Iterate(s) \/ SaveMessages(s) \/ Update(s)

Spec == Init /\ [][Next]_vars

-----------------------------------------------------------------------------
(* Properties.                                                              *)
Sessions ==
    [mode : Modes, status : {"active", "waiting_for_input", "closed"}, runIDs : Seq(Sends)]

Ids == Sends \X (1..MaxSteps) \X (1..MaxUses)
Lines == [role : {"user", "assistant"}, uses : SUBSET Ids, results : SUBSET Ids,
          by : Sends \cup {"summary"}]

Runs == [msgs : Seq(Lines), step : 0..MaxSteps, status : {"running", "success", "failed"},
         reason : {"none", "cancelled", "llm_error", "exceeded_max_steps"},
         final : SUBSET Ids, replied : BOOLEAN, compacted : BOOLEAN, unhandled : SUBSET Ids]

Endings == [by : Sends, last : SUBSET Lines, aborted : BOOLEAN, loose : BOOLEAN]

Slots ==
    [pc : {"idle", "refused", "got", "read", "running", "ended", "saved", "done", "lost"},
     sess : Sessions \cup {Absent}, x : Runs, prefill : Nat, new : Seq(Lines),
     ending : SUBSET Endings]

\* Every variable keeps its shape; in particular the session in memory, the file and
\* the copy of every handler are sessions, and no run passes its step limit.
TypeOK ==
    /\ mem \in Sessions \cup {Absent}
    /\ meta \in Sessions \cup {Absent, Torn}
    /\ thread \in Seq(Lines) /\ torn \in BOOLEAN
    /\ slot \in [Sends -> Slots]
    /\ clearing \in BOOLEAN /\ overlapped \in BOOLEAN
    /\ compacting \in [at : {"idle", "summarising"}, input : Seq(Lines)]
    /\ events \in Seq({"clear", "close", "compact", "crash"})
    /\ overClose \subseteq Sends /\ kept \subseteq Endings

\* HistorySound has two parts. What is read from the thread, by the next run or by
\* session.get_history and at any moment, is a history the model's API accepts: no tool call without its result, no
\* result without its call, whatever overlapping sends, clears, compactions, failed
\* runs and crashes have left there.
HistoryPaired == Paired(ReadMessages)

\* A tool call is left in the thread without a result only by a crash, by a run that
\* compacted its history and then saved its last reply alone, by a last reply that has
\* calls and yet ends the turn (its stream ended early), or by a reply that has calls and
\* a stop reason act has no case for. Failing or being cancelled, at whatever point,
\* leaves none.
OrphansExplained ==
    Orphans(thread) # {} =>
        \/ "crash" \in ToSet(events)
        \/ \E k \in kept : k.loose

HistorySound == HistoryPaired /\ OrphansExplained

\* The last reply of a run that has been saved stays in the thread until a clear or a
\* compaction of the session, also when the run compacted its own history.
RepliesKept ==
    \A k \in kept : k.last \subseteq ToSet(thread)

\* A closed session is opened again only by a run that was in flight when it was closed.
ReopenedOnlyByOverlap ==
    [][Readable(Current) /\ Current.status = "closed" /\ Readable(Current')
         /\ Current'.status # "closed"
         => \E s \in overClose : slot[s].pc = "saved" /\ slot'[s].pc = "done"]_vars

\* MetaTrue has four parts. A session that was created is gone from session.list only
\* when a crash cut the writing of its meta.json.
NeverVanishes == List = {} /\ Current # Absent => "crash" \in ToSet(events)

\* A restart finds the status that was in memory, and the run ids unless they were
\* cleared.
MetaMatches ==
    Readable(mem) /\ Readable(meta) =>
        /\ mem.status = meta.status /\ mem.mode = meta.mode
        /\ mem.runIDs = meta.runIDs \/ "clear" \in ToSet(events)

\* When sends do not overlap and nothing is cleared, the ids of all the runs that have
\* been answered are in the session, across restarts too.
RunIDsComplete ==
    Readable(Current) /\ ~overlapped /\ "clear" \notin ToSet(events)
        => ToSet(Current.runIDs) = {s \in Sends : slot[s].pc = "done"}

\* When sends do not overlap a one_shot session answers one run at most.
OneShotRunsOnce ==
    Readable(Current) /\ Current.mode = "one_shot" /\ ~overlapped
        => Cardinality({s \in Sends : slot[s].pc = "done"}) <= 1

MetaTrue == NeverVanishes /\ MetaMatches /\ RunIDsComplete /\ OneShotRunsOnce

\* "only aborted runs leave an orphan tool_use; one that ends normally fills in the
\* tool_result": no orphan while every saved run ended by itself and nothing crashed.
OnlyAbortedRunsLeaveOrphans ==
    "crash" \notin ToSet(events) /\ (\A k \in kept : ~k.aborted)
        => Orphans(thread) = {}

\* "all file operations are locked, against races of WriteCompacted": what it overwrites
\* is what was summarised.
CompactReplacesWhatItRead ==
    [][compacting.at = "summarising" /\ compacting'.at = "idle" /\ thread' = Handoff /\ kept' = {}
         => thread = compacting.input]_vars
=============================================================================
