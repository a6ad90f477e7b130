-------------------------------- MODULE NZBGet --------------------------------
(***************************************************************************)
(* The NZBGet adapter (internal/adapters/nzbget.go) against a running      *)
(* NZBGet.  NZBGet keeps a job in its queue until it ends and in its       *)
(* history afterwards; each JSON-RPC call sees one of the two, so Describe *)
(* and Remove are two calls with NZBGet going on in between.  Any call may *)
(* fail, before or after NZBGet acted on it.                               *)
(*                                                                         *)
(* NZBGet itself is external.  Its ids are taken to be fresh, and a job is *)
(* taken not to return from the history to the queue.                      *)
(***************************************************************************)
EXTENDS Naturals, FiniteSets

CONSTANTS
    NzbIds,     \* the NZBIDs NZBGet hands out
    Categories, \* categories an add may name
    Category,   \* the client's own category, or Nil
    Procs,      \* concurrent callers of the adapter
    Nil

ASSUME NZBGetAssumption == Nil \notin NzbIds /\ Category \in Categories \cup {Nil}

\* Post-processing (repair, unpack) still counts as the queue.
Queued == {"QUEUED", "DOWNLOADING", "PAUSED", "UNPACKING"}
Ended == {"SUCCESS", "FAILURE", "WARNING", "DELETED"}

VARIABLES
    status,   \* external: the native status of each job; "unused", "erased"
    category, \* external: the category each job is filed under
    call      \* what each caller is doing

vars == <<status, category, call>>

Idle == [pc |-> "idle"]

\* The state Describe folds a job to; adopted jobs; or how a call ended.
Answers == {"queued", "downloading", "completed", "failed", "not-found", "error", "ok"}

Calls ==
    {Idle}
    \cup [pc : {"listgroups", "history", "historyBlind", "final", "historyDelete"}, id : NzbIds]
    \cup [pc : {"answer"}, op : {"describe", "remove", "edit"}, id : NzbIds, answer : Answers]
    \cup [pc : {"adopted"}, jobs : SUBSET NzbIds]

TypeOK ==
    /\ status \in [NzbIds -> Queued \cup Ended \cup {"unused", "erased"}]
    /\ category \in [NzbIds -> Categories \cup {Nil}]
    /\ call \in [Procs -> Calls]

Init ==
    /\ status = [i \in NzbIds |-> "unused"]
    /\ category = [i \in NzbIds |-> Nil]
    /\ call = [p \in Procs |-> Idle]

InQueue(i) == status[i] \in Queued
InHistory(i) == status[i] \in Ended

SetStatus(i, s) == status' = [status EXCEPT ![i] = s]
Goto(p, next) == call' = [call EXCEPT ![p] = next]
At(p, pc) == call[p].pc = pc

Answer(p, op, a) ==
    Goto(p, [pc |-> "answer", op |-> op, id |-> call[p].id, answer |-> a])

-----------------------------------------------------------------------------
(* NZBGet (external). *)

\* The queue moves on: a job starts, is post-processed, or ends and moves to the
\* history.
Work(i) ==
    /\ \/ status[i] = "QUEUED" /\ SetStatus(i, "DOWNLOADING")
       \/ status[i] = "DOWNLOADING" /\ SetStatus(i, "UNPACKING")
       \/ status[i] \in {"DOWNLOADING", "UNPACKING"} /\ \E s \in Ended : SetStatus(i, s)
    /\ UNCHANGED <<category, call>>

\* Somebody deletes the job for good, or its history entry expires.
Erase(i) ==
    /\ InQueue(i) \/ InHistory(i)
    /\ SetStatus(i, "erased")
    /\ UNCHANGED <<category, call>>

-----------------------------------------------------------------------------
(* Add. *)

\* append files the job under the add's category, or the client's own.
Filed(c) == IF c = Nil THEN Category ELSE c

\* One append call that NZBGet accepts, whether or not its answer arrives; an
\* append that it rejects or that never arrives changes nothing.
Add(p, i, c) ==
    /\ call[p] = Idle
    /\ status[i] = "unused"
    /\ SetStatus(i, "QUEUED")
    /\ category' = [category EXCEPT ![i] = Filed(c)]
    /\ UNCHANGED call

-----------------------------------------------------------------------------
(* Describe. *)

\* Mutant: a downloaded group that is still being unpacked is a completion.
FoldGroupUnpacking(s) ==
    CASE s \in {"QUEUED", "PAUSED"} -> "queued"
      [] s = "UNPACKING" -> "completed"
      [] OTHER -> "downloading"

\* foldNZBGroup: nothing in the queue is done.
FoldGroup(s) == IF s \in {"QUEUED", "PAUSED"} THEN "queued" ELSE "downloading"

\* Mutant: the native history status is passed on.
FoldHistoryNative(s) == s

\* foldNZBHistory: only SUCCESS is a completion.
FoldHistory(s) == IF s = "SUCCESS" THEN "completed" ELSE "failed"

DescribeBegin(p, i) ==
    /\ call[p] = Idle
    /\ status[i] # "unused"
    /\ Goto(p, [pc |-> "listgroups", id |-> i])
    /\ UNCHANGED <<status, category>>

\* listgroups answers.
DescribeQueue(p) ==
    /\ At(p, "listgroups")
    /\ IF InQueue(call[p].id)
       THEN Answer(p, "describe", FoldGroup(status[call[p].id]))
       ELSE Goto(p, [pc |-> "history", id |-> call[p].id])
    /\ UNCHANGED <<status, category>>

\* Mutant: a failed listgroups counts as an empty queue.
QueueUnreadSwallowed(p) ==
    /\ At(p, "listgroups")
    /\ Goto(p, [pc |-> "history", id |-> call[p].id])
    /\ UNCHANGED <<status, category>>

\* listgroups fails; the history is read all the same.
QueueUnread(p) ==
    /\ At(p, "listgroups")
    /\ Goto(p, [pc |-> "historyBlind", id |-> call[p].id])
    /\ UNCHANGED <<status, category>>

\* history answers.  "Not there" needs both lists.
DescribeHistory(p) ==
    /\ At(p, "history") \/ At(p, "historyBlind")
    /\ IF InHistory(call[p].id)
       THEN Answer(p, "describe", FoldHistory(status[call[p].id]))
       ELSE Answer(p, "describe", IF At(p, "history") THEN "not-found" ELSE "error")
    /\ UNCHANGED <<status, category>>

\* history fails.
HistoryUnread(p) ==
    /\ At(p, "history") \/ At(p, "historyBlind")
    /\ Answer(p, "describe", "error")
    /\ UNCHANGED <<status, category>>

-----------------------------------------------------------------------------
(* Remove, Pause, Resume. *)

RemoveBegin(p, i) ==
    /\ call[p] = Idle
    /\ status[i] # "unused"
    /\ Goto(p, [pc |-> "final", id |-> i])
    /\ UNCHANGED <<status, category>>

\* NZBGet's editqueue: it acts on a job of the list the command is for, and
\* answers false, not an error, for any other id.
EditQueue(i, applies, s) == IF applies THEN SetStatus(i, s) ELSE UNCHANGED status

\* GroupFinalDelete answers; the bool it answers with is not looked at.
RemoveFinal(p) ==
    /\ At(p, "final")
    /\ EditQueue(call[p].id, InQueue(call[p].id), "erased")
    /\ Answer(p, "remove", "ok")
    /\ UNCHANGED category

\* GroupFinalDelete fails, whether or not NZBGet acted on it.
RemoveFinalFail(p) ==
    /\ At(p, "final")
    /\ EditQueue(call[p].id, InQueue(call[p].id), "erased") \/ UNCHANGED status
    /\ Goto(p, [pc |-> "historyDelete", id |-> call[p].id])
    /\ UNCHANGED category

\* HistoryDelete answers.
RemoveHistory(p) ==
    /\ At(p, "historyDelete")
    /\ EditQueue(call[p].id, InHistory(call[p].id), "erased")
    /\ Answer(p, "remove", "ok")
    /\ UNCHANGED category

\* HistoryDelete fails.
RemoveHistoryFail(p) ==
    /\ At(p, "historyDelete")
    /\ EditQueue(call[p].id, InHistory(call[p].id), "erased") \/ UNCHANGED status
    /\ Answer(p, "remove", "error")
    /\ UNCHANGED category

\* Pause and Resume: one editqueue call, whose bool is not looked at either.  It
\* may fail, whether or not NZBGet acted on it.
Edit(p, i, from, to) ==
    /\ call[p] = Idle
    /\ status[i] # "unused"
    /\ \E answer \in {"ok", "error"} :
        /\ Goto(p, [pc |-> "answer", op |-> "edit", id |-> i, answer |-> answer])
        /\ EditQueue(i, status[i] \in from, to) \/ (answer = "error" /\ UNCHANGED status)
    /\ UNCHANGED category

Pause(p, i) == Edit(p, i, {"QUEUED", "DOWNLOADING"}, "PAUSED")

Resume(p, i) == Edit(p, i, {"PAUSED"}, "QUEUED")

-----------------------------------------------------------------------------
(* Adopt. *)

\* Mutant: the history is adopted as well.
AdoptableFromHistory(i) ==
    Category # Nil /\ (InQueue(i) \/ InHistory(i)) /\ category[i] = Category

\* The jobs of the queue in the client's category; none without a category.  A
\* failed listgroups adopts nothing and is no step here.
Adoptable(i) == Category # Nil /\ InQueue(i) /\ category[i] = Category

Adopt(p) ==
    /\ call[p] = Idle
    /\ Goto(p, [pc |-> "adopted", jobs |-> {i \in NzbIds : Adoptable(i)}])
    /\ UNCHANGED <<status, category>>

Return(p) ==
    /\ At(p, "answer") \/ At(p, "adopted")
    /\ Goto(p, Idle)
    /\ UNCHANGED <<status, category>>

-----------------------------------------------------------------------------

Step(p) ==
    \/ \E i \in NzbIds : \/ \E c \in Categories \cup {Nil} : Add(p, i, c)
                         \/ DescribeBegin(p, i)
                         \/ RemoveBegin(p, i)
                         \/ Pause(p, i)
                         \/ Resume(p, i)
    \/ DescribeQueue(p) \/ QueueUnread(p) \/ DescribeHistory(p) \/ HistoryUnread(p)
    \/ RemoveFinal(p) \/ RemoveFinalFail(p) \/ RemoveHistory(p) \/ RemoveHistoryFail(p)
    \/ Adopt(p) \/ Return(p)

Next ==
    \/ \E p \in Procs : Step(p)
    \/ \E i \in NzbIds : Work(i) \/ Erase(i)

Spec == Init /\ [][Next]_vars

-----------------------------------------------------------------------------

\* The step in which p's call of op is answered a.
Answered(p, op, a) ==
    /\ ~At(p, "answer")
    /\ call'[p].pc = "answer"
    /\ call'[p].op = op
    /\ call'[p].answer = a

\* Describe says "not-found" only of a job that NZBGet holds neither in its queue
\* nor in its history, although the job may move from the one to the other
\* between the two calls and either call may fail.  The gateway gives up on a job
\* it is told this of (nzbget.go:278).
NotFoundIsTrue ==
    [][\A p \in Procs :
        Answered(p, "describe", "not-found") => status[call[p].id] = "erased"]_vars

\* q has just been told that job i completed or failed.
ToldEnded(q, i) ==
    /\ At(q, "answer")
    /\ call[q].op = "describe"
    /\ call[q].id = i
    /\ call[q].answer \in {"completed", "failed"}

\* The outcome that Describe reports is final: nobody sees the job running again
\* or with the other outcome, whatever is paused, resumed, removed or
\* post-processed meanwhile.  The gateway emits the outcome and forgets the job
\* (foldNZBGroup, foldNZBHistory).
OutcomeIsFinal ==
    [][\A p, q \in Procs, a \in {"queued", "downloading", "completed", "failed"} :
        Answered(p, "describe", a) /\ ToldEnded(q, call[p].id) => a = call[q].answer]_vars

\* Adoption never takes up a job whose end was already reported: its event would
\* be replayed on every restart (nzbget.go:413).
NoReplay ==
    [][\A p, q \in Procs, i \in NzbIds :
        ~At(p, "adopted") /\ call'[p].pc = "adopted" /\ ToldEnded(q, i)
            => i \notin call'[p].jobs]_vars

\* "Remove drops the item from the active queue or history" (nzbget.go:444).
RemovedIsGone ==
    [][\A p \in Procs :
        Answered(p, "remove", "ok") => status'[call[p].id] = "erased"]_vars

=============================================================================
