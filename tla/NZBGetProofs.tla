----------------------------- MODULE NZBGetProofs -----------------------------
(***************************************************************************)
(* Proofs about NZBGet, for any number of jobs and of concurrent callers.  *)
(***************************************************************************)
EXTENDS NZBGet, TLAPS

Asking == {"listgroups", "history", "historyBlind"}
Removing == {"final", "historyDelete"}

\* The record a caller keeps follows from where it is.
LEMMA CallByPC ==
    ASSUME NEW c \in Calls
    PROVE  /\ c.pc = "idle" <=> c = Idle
           /\ c.pc \in Asking \cup Removing => c.id \in NzbIds
           /\ c.pc = "answer" =>
                  c.op \in {"describe", "remove", "edit"} /\ c.id \in NzbIds /\ c.answer \in Answers
           /\ c.pc \in {"idle", "answer", "adopted"} \cup Asking \cup Removing
BY DEF Calls, Idle, Asking, Removing

-----------------------------------------------------------------------------
(* How a job's status moves. *)

Status == Queued \cup Ended \cup {"unused", "erased"}

\* From nowhere to the queue, to the history, to nothing: never back, and never
\* from one outcome to another.
StatusMoves ==
    /\ status' \in [NzbIds -> Status]
    /\ \A i \in NzbIds :
        \/ status'[i] = status[i]
        \/ status[i] = "unused" /\ status'[i] \in Queued
        \/ status[i] \in Queued /\ status'[i] \in Queued \cup Ended \cup {"erased"}
        \/ status[i] \in Ended /\ status'[i] = "erased"

\* editqueue moves a job on, or leaves it.
LEMMA EditMoves ==
    ASSUME TypeOK, NEW i \in NzbIds, NEW to \in Queued \cup {"erased"}, NEW applies,
           applies => status[i] \in Queued \/ (to = "erased" /\ status[i] \in Ended),
           EditQueue(i, applies, to)
    PROVE  StatusMoves
BY DEF TypeOK, EditQueue, SetStatus, StatusMoves, Status

\* A call of Pause or Resume.
LEMMA EditStepMoves ==
    ASSUME TypeOK, NEW p \in Procs, NEW i \in NzbIds, NEW from \in SUBSET Queued,
           NEW to \in Queued, Edit(p, i, from, to)
    PROVE  StatusMoves
<1>1. EditQueue(i, status[i] \in from, to) \/ UNCHANGED status
  BY DEF Edit
<1>2. CASE EditQueue(i, status[i] \in from, to)
  BY <1>2, EditMoves
<1>3. CASE UNCHANGED status
  BY <1>3 DEF StatusMoves, TypeOK, Status
<1> QED
  BY <1>1, <1>2, <1>3

\* Every step moves the jobs on.
LEMMA NextMoves ==
    ASSUME TypeOK, [Next]_vars
    PROVE  StatusMoves
<1>0. \A p \in Procs : call[p] \in Calls
  BY DEF TypeOK
<1>1. CASE UNCHANGED status
  BY <1>1 DEF StatusMoves, TypeOK, Status
<1>2. ASSUME NEW p \in Procs, NEW i \in NzbIds, NEW c \in Categories \cup {Nil}, Add(p, i, c)
      PROVE  StatusMoves
  BY <1>2 DEF TypeOK, Add, SetStatus, StatusMoves, Status, Queued
<1>3. ASSUME NEW p \in Procs, NEW i \in NzbIds, Pause(p, i) \/ Resume(p, i) PROVE StatusMoves
  <2>1. {"QUEUED", "DOWNLOADING"} \in SUBSET Queued /\ {"PAUSED"} \in SUBSET Queued
        /\ "PAUSED" \in Queued /\ "QUEUED" \in Queued
    BY DEF Queued
  <2> QED
    BY <1>3, <2>1, EditStepMoves DEF Pause, Resume
<1>4. ASSUME NEW p \in Procs, RemoveFinal(p) \/ RemoveFinalFail(p) PROVE StatusMoves
  <2>1. call[p].id \in NzbIds
    BY <1>0, <1>4, CallByPC DEF RemoveFinal, RemoveFinalFail, At, Removing
  <2>2. CASE EditQueue(call[p].id, InQueue(call[p].id), "erased")
    BY <2>1, <2>2, EditMoves DEF InQueue
  <2> QED
    BY <1>1, <1>4, <2>2 DEF RemoveFinal, RemoveFinalFail
<1>5. ASSUME NEW p \in Procs, RemoveHistory(p) \/ RemoveHistoryFail(p) PROVE StatusMoves
  <2>1. call[p].id \in NzbIds
    BY <1>0, <1>5, CallByPC DEF RemoveHistory, RemoveHistoryFail, At, Removing
  <2>2. CASE EditQueue(call[p].id, InHistory(call[p].id), "erased")
    BY <2>1, <2>2, EditMoves DEF InHistory
  <2> QED
    BY <1>1, <1>5, <2>2 DEF RemoveHistory, RemoveHistoryFail
<1>6. ASSUME NEW i \in NzbIds, Work(i) PROVE StatusMoves
  BY <1>6 DEF TypeOK, Work, SetStatus, StatusMoves, Status, Queued
<1>7. ASSUME NEW i \in NzbIds, Erase(i) PROVE StatusMoves
  BY <1>7 DEF TypeOK, Erase, InQueue, InHistory, SetStatus, StatusMoves, Status
<1>8. ASSUME NEW p \in Procs, Step(p) PROVE StatusMoves
  <2>1. CASE \/ \E i \in NzbIds : DescribeBegin(p, i) \/ RemoveBegin(p, i)
             \/ DescribeQueue(p) \/ QueueUnread(p) \/ DescribeHistory(p) \/ HistoryUnread(p)
             \/ Adopt(p) \/ Return(p)
    BY <1>1, <2>1 DEF DescribeBegin, RemoveBegin, DescribeQueue, QueueUnread, DescribeHistory,
                      HistoryUnread, Adopt, Return
  <2> QED
    BY <1>2, <1>3, <1>4, <1>5, <1>8, <2>1 DEF Step
<1> QED
  BY <1>1, <1>6, <1>7, <1>8 DEF Next, vars

-----------------------------------------------------------------------------
(* Type correctness. *)

\* A caller moves on.
LEMMA GotoType ==
    ASSUME TypeOK, NEW p \in Procs, NEW next \in Calls, Goto(p, next)
    PROVE  call' \in [Procs -> Calls] /\ call'[p] = next /\ \A q \in Procs \ {p} : call'[q] = call[q]
BY DEF TypeOK, Goto

\* A caller gets its answer.
LEMMA AnswerType ==
    ASSUME TypeOK, NEW p \in Procs, call[p].id \in NzbIds,
           NEW o \in {"describe", "remove", "edit"}, NEW a \in Answers, Answer(p, o, a)
    PROVE  /\ call' \in [Procs -> Calls]
           /\ call'[p] = [pc |-> "answer", op |-> o, id |-> call[p].id, answer |-> a]
           /\ \A q \in Procs \ {p} : call'[q] = call[q]
<1>1. [pc |-> "answer", op |-> o, id |-> call[p].id, answer |-> a] \in Calls
  BY DEF Calls
<1> QED
  BY <1>1, GotoType DEF Answer

\* The steps of Describe keep the types of the calls.
LEMMA DescribeTypes ==
    ASSUME TypeOK, NEW p \in Procs,
           \/ \E i \in NzbIds : DescribeBegin(p, i)
           \/ DescribeQueue(p) \/ QueueUnread(p) \/ DescribeHistory(p) \/ HistoryUnread(p)
    PROVE  call' \in [Procs -> Calls]
<1>0. call[p] \in Calls
  BY DEF TypeOK
<1>1. \A i \in NzbIds, pc \in Asking : [pc |-> pc, id |-> i] \in Calls
  BY DEF Calls, Asking
<1>2. ASSUME NEW i \in NzbIds, DescribeBegin(p, i) PROVE call' \in [Procs -> Calls]
  BY <1>1, <1>2, GotoType DEF DescribeBegin, Asking
<1>3. ASSUME At(p, "listgroups") \/ At(p, "history") \/ At(p, "historyBlind")
      PROVE  call[p].id \in NzbIds
  BY <1>0, <1>3, CallByPC DEF At, Asking
<1>4. /\ \A s : FoldGroup(s) \in Answers /\ FoldHistory(s) \in Answers
      /\ {"not-found", "error"} \subseteq Answers
  BY DEF FoldGroup, FoldHistory, Answers
<1>5. CASE DescribeQueue(p) \/ QueueUnread(p)
  <2>1. \/ Answer(p, "describe", FoldGroup(status[call[p].id]))
        \/ \E pc \in Asking : Goto(p, [pc |-> pc, id |-> call[p].id])
    BY <1>5 DEF DescribeQueue, QueueUnread, Asking
  <2>2. call[p].id \in NzbIds
    BY <1>3, <1>5 DEF DescribeQueue, QueueUnread
  <2> QED
    BY <1>1, <1>4, <2>1, <2>2, GotoType, AnswerType
<1>6. CASE DescribeHistory(p) \/ HistoryUnread(p)
  <2>1. \E a \in Answers : Answer(p, "describe", a)
    BY <1>4, <1>6 DEF DescribeHistory, HistoryUnread
  <2>2. call[p].id \in NzbIds
    BY <1>3, <1>6 DEF DescribeHistory, HistoryUnread
  <2> QED
    BY <2>1, <2>2, AnswerType
<1> QED
  BY <1>2, <1>5, <1>6

\* The other steps of a caller keep the types of the calls.
LEMMA OtherTypes ==
    ASSUME TypeOK, NEW p \in Procs,
           \/ \E i \in NzbIds : RemoveBegin(p, i) \/ Pause(p, i) \/ Resume(p, i)
           \/ RemoveFinal(p) \/ RemoveFinalFail(p) \/ RemoveHistory(p) \/ RemoveHistoryFail(p)
           \/ Adopt(p) \/ Return(p)
    PROVE  call' \in [Procs -> Calls]
<1>0. call[p] \in Calls
  BY DEF TypeOK
<1>1. \A i \in NzbIds, pc \in Removing : [pc |-> pc, id |-> i] \in Calls
  BY DEF Calls, Removing
<1>2. ASSUME NEW i \in NzbIds, RemoveBegin(p, i) PROVE call' \in [Procs -> Calls]
  BY <1>1, <1>2, GotoType DEF RemoveBegin, Removing
<1>3. ASSUME NEW i \in NzbIds, Pause(p, i) \/ Resume(p, i) PROVE call' \in [Procs -> Calls]
  <2>1. \E a \in Answers : Goto(p, [pc |-> "answer", op |-> "edit", id |-> i, answer |-> a])
    BY <1>3 DEF Pause, Resume, Edit, Answers
  <2>2. \A a \in Answers : [pc |-> "answer", op |-> "edit", id |-> i, answer |-> a] \in Calls
    BY DEF Calls
  <2> QED
    BY <2>1, <2>2, GotoType
<1>4. CASE RemoveFinal(p) \/ RemoveHistory(p) \/ RemoveHistoryFail(p)
  <2>1. \E a \in Answers : Answer(p, "remove", a)
    BY <1>4 DEF RemoveFinal, RemoveHistory, RemoveHistoryFail, Answers
  <2>2. call[p].id \in NzbIds
    BY <1>0, <1>4, CallByPC DEF RemoveFinal, RemoveHistory, RemoveHistoryFail, At, Removing
  <2> QED
    BY <2>1, <2>2, AnswerType
<1>5. CASE RemoveFinalFail(p)
  <2>1. call[p].id \in NzbIds
    BY <1>0, <1>5, CallByPC DEF RemoveFinalFail, At, Removing
  <2> QED
    BY <1>1, <1>5, <2>1, GotoType DEF RemoveFinalFail, Removing
<1>6. CASE Adopt(p)
  <2>1. [pc |-> "adopted", jobs |-> {i \in NzbIds : Adoptable(i)}] \in Calls
    BY DEF Calls
  <2> QED
    BY <1>6, <2>1, GotoType DEF Adopt
<1>7. CASE Return(p)
  BY <1>7, GotoType DEF Return, Calls
<1> QED
  BY <1>2, <1>3, <1>4, <1>5, <1>6, <1>7

\* Every step keeps the types.
LEMMA NextTypes == TypeOK /\ [Next]_vars => TypeOK'
<1> SUFFICES ASSUME TypeOK, [Next]_vars PROVE TypeOK'
  OBVIOUS
<1>1. status' \in [NzbIds -> Status]
  BY NextMoves DEF StatusMoves
<1>2. category' \in [NzbIds -> Categories \cup {Nil}]
  <2>1. ASSUME NEW p \in Procs, NEW i \in NzbIds, NEW c \in Categories \cup {Nil}, Add(p, i, c)
        PROVE  category' \in [NzbIds -> Categories \cup {Nil}]
    BY <2>1, NZBGetAssumption DEF Add, Filed, TypeOK
  <2>2. CASE UNCHANGED category
    BY <2>2 DEF TypeOK
  <2>3. ASSUME NEW p \in Procs, NEW i \in NzbIds, Pause(p, i) \/ Resume(p, i)
        PROVE  UNCHANGED category
    BY <2>3 DEF Pause, Resume, Edit
  <2>4. ASSUME NEW p \in Procs,
               \/ \E i \in NzbIds : DescribeBegin(p, i) \/ RemoveBegin(p, i)
               \/ DescribeQueue(p) \/ QueueUnread(p) \/ DescribeHistory(p) \/ HistoryUnread(p)
               \/ RemoveFinal(p) \/ RemoveFinalFail(p) \/ RemoveHistory(p) \/ RemoveHistoryFail(p)
               \/ Adopt(p) \/ Return(p)
        PROVE  UNCHANGED category
    BY <2>4 DEF DescribeBegin, RemoveBegin, DescribeQueue, QueueUnread, DescribeHistory,
                HistoryUnread, RemoveFinal, RemoveFinalFail, RemoveHistory, RemoveHistoryFail,
                Adopt, Return
  <2>5. ASSUME NEW i \in NzbIds, Work(i) \/ Erase(i) PROVE UNCHANGED category
    BY <2>5 DEF Work, Erase
  <2> QED
    BY <2>1, <2>2, <2>3, <2>4, <2>5 DEF Next, Step, vars
<1>3. call' \in [Procs -> Calls]
  <2>1. CASE UNCHANGED call
    BY <2>1 DEF TypeOK
  <2>2. ASSUME NEW p \in Procs, NEW i \in NzbIds, NEW c \in Categories \cup {Nil}, Add(p, i, c)
        PROVE  UNCHANGED call
    BY <2>2 DEF Add
  <2>3. ASSUME NEW i \in NzbIds, Work(i) \/ Erase(i) PROVE UNCHANGED call
    BY <2>3 DEF Work, Erase
  <2> QED
    BY <2>1, <2>2, <2>3, DescribeTypes, OtherTypes DEF Next, Step, vars
<1> QED
  BY <1>1, <1>2, <1>3 DEF TypeOK, Status

\* Type correctness of the adapter and its calls, however they interleave with
\* NZBGet.
THEOREM TypeCorrect == Spec => []TypeOK
<1>1. Init => TypeOK
  BY DEF Init, TypeOK, Calls
<1> QED
  BY <1>1, NextTypes, PTL DEF Spec

-----------------------------------------------------------------------------
(* What Describe knows. *)

\* A job that is asked about exists; one that was not in the queue is not there any
\* more when the history is read; and one that was reported to have ended is in
\* the history with that outcome, or gone.
DescribeInv ==
    /\ TypeOK
    /\ \A p \in Procs : call[p].pc \in Asking => status[call[p].id] # "unused"
    /\ \A p \in Procs : At(p, "history") => status[call[p].id] \in Ended \cup {"erased"}
    /\ \A q \in Procs, i \in NzbIds :
           ToldEnded(q, i) => \/ status[i] = "erased"
                              \/ status[i] \in Ended /\ call[q].answer = FoldHistory(status[i])

\* The statuses are distinct.
LEMMA StatusKinds ==
    /\ "unused" \notin Queued \cup Ended
    /\ "erased" \notin Queued \cup Ended
    /\ Queued \cap Ended = {}
BY DEF Queued, Ended

\* The step in which Describe is answered, and what the answer then says.
LEMMA DescribeAnswers ==
    ASSUME DescribeInv, [Next]_vars, NEW p \in Procs, ~At(p, "answer"),
           call'[p].pc = "answer", call'[p].op = "describe"
    PROVE  /\ call[p].id \in NzbIds /\ call'[p].id = call[p].id /\ UNCHANGED status
           /\ \/ status[call[p].id] \in Queued /\ call'[p].answer \in {"queued", "downloading"}
              \/ /\ status[call[p].id] \in Ended
                 /\ call'[p].answer = FoldHistory(status[call[p].id])
              \/ call'[p].answer = "error"
              \/ status[call[p].id] = "erased" /\ call'[p].answer = "not-found"
<1>0. TypeOK /\ call \in [Procs -> Calls] /\ call[p] \in Calls
  BY DEF DescribeInv, TypeOK
<1>1. CASE UNCHANGED call
  BY <1>1 DEF At
<1>2. ASSUME NEW q \in Procs, NEW c, Goto(q, c), c.pc # "answer" \/ c.op # "describe"
      PROVE  FALSE
  BY <1>0, <1>2 DEF Goto, At
<1>3. ASSUME NEW q \in Procs, NEW o \in {"remove", "edit"}, NEW a, Answer(q, o, a) PROVE FALSE
  BY <1>2, <1>3 DEF Answer
<1>4. ASSUME NEW q \in Procs, NEW a, Answer(q, "describe", a)
      PROVE  q = p /\ call'[p].id = call[p].id /\ call'[p].answer = a
  BY <1>0, <1>4 DEF Answer, Goto, At
<1>5. ASSUME NEW q \in Procs, DescribeQueue(q)
      PROVE  /\ p = q /\ call[p].id \in NzbIds /\ call'[p].id = call[p].id /\ UNCHANGED status
             /\ status[call[p].id] \in Queued
             /\ call'[p].answer \in {"queued", "downloading"}
  <2>1. Answer(q, "describe", FoldGroup(status[call[q].id])) /\ InQueue(call[q].id)
    <3>1. CASE InQueue(call[q].id)
      BY <1>5, <3>1 DEF DescribeQueue
    <3>2. CASE ~InQueue(call[q].id)
      BY <1>2, <1>5, <3>2 DEF DescribeQueue
    <3> QED
      BY <3>1, <3>2
  <2>2. p = q /\ call'[p].id = call[p].id /\ call'[p].answer = FoldGroup(status[call[q].id])
    BY <1>4, <2>1
  <2>3. call[p].id \in NzbIds
    BY <1>0, <1>5, <2>2, CallByPC DEF DescribeQueue, At, Asking
  <2> QED
    BY <1>5, <2>1, <2>2, <2>3 DEF DescribeQueue, InQueue, FoldGroup
<1>6. ASSUME NEW q \in Procs, DescribeHistory(q)
      PROVE  /\ p = q /\ call[p].id \in NzbIds /\ call'[p].id = call[p].id /\ UNCHANGED status
             /\ \/ /\ status[call[p].id] \in Ended
                   /\ call'[p].answer = FoldHistory(status[call[p].id])
                \/ call'[p].answer = "error"
                \/ status[call[p].id] = "erased" /\ call'[p].answer = "not-found"
  <2>1. PICK a : Answer(q, "describe", a)
    BY <1>6 DEF DescribeHistory
  <2>2. p = q /\ call'[p].id = call[p].id
    BY <1>4, <2>1
  <2>3. call[p].id \in NzbIds
    BY <1>0, <1>6, <2>2, CallByPC DEF DescribeHistory, At, Asking
  <2>4. CASE InHistory(call[p].id)
    <3>1. call'[p].answer = FoldHistory(status[call[p].id])
      <4>1. Answer(p, "describe", FoldHistory(status[call[p].id]))
        BY <1>6, <2>2, <2>4 DEF DescribeHistory
      <4> QED
        BY <1>4, <4>1
    <3> QED
      BY <1>6, <2>2, <2>3, <2>4, <3>1 DEF DescribeHistory, InHistory
  <2>5. CASE ~InHistory(call[p].id) /\ At(p, "history")
    <3>1. call'[p].answer = "not-found"
      <4>1. Answer(p, "describe", "not-found")
        BY <1>6, <2>2, <2>5 DEF DescribeHistory
      <4> QED
        BY <1>4, <4>1
    <3>2. status[call[p].id] = "erased"
      BY <2>5 DEF DescribeInv, InHistory
    <3> QED
      BY <1>6, <2>2, <2>3, <3>1, <3>2 DEF DescribeHistory
  <2>6. CASE ~InHistory(call[p].id) /\ ~At(p, "history")
    <3>1. call'[p].answer = "error"
      <4>1. Answer(p, "describe", "error")
        BY <1>6, <2>2, <2>6 DEF DescribeHistory
      <4> QED
        BY <1>4, <4>1
    <3> QED
      BY <1>6, <2>2, <2>3, <3>1 DEF DescribeHistory
  <2> QED
    BY <2>4, <2>5, <2>6
<1>7. ASSUME NEW q \in Procs, HistoryUnread(q)
      PROVE  /\ p = q /\ call[p].id \in NzbIds /\ call'[p].id = call[p].id /\ UNCHANGED status
             /\ call'[p].answer = "error"
  <2>1. p = q /\ call'[p].id = call[p].id /\ call'[p].answer = "error"
    <3>1. Answer(q, "describe", "error")
      BY <1>7 DEF HistoryUnread
    <3> QED
      BY <1>4, <3>1
  <2> QED
    BY <1>0, <1>7, <2>1, CallByPC DEF HistoryUnread, At, Asking
<1>8. ASSUME NEW q \in Procs,
             \/ \E i \in NzbIds : DescribeBegin(q, i) \/ RemoveBegin(q, i)
             \/ QueueUnread(q) \/ RemoveFinalFail(q) \/ Adopt(q) \/ Return(q)
      PROVE  FALSE
  <2>1. ASSUME NEW i \in NzbIds, DescribeBegin(q, i) PROVE FALSE
    <3>1. Goto(q, [pc |-> "listgroups", id |-> i])
      BY <2>1 DEF DescribeBegin
    <3> QED
      BY <1>2, <3>1
  <2>2. ASSUME NEW i \in NzbIds, RemoveBegin(q, i) PROVE FALSE
    <3>1. Goto(q, [pc |-> "final", id |-> i])
      BY <2>2 DEF RemoveBegin
    <3> QED
      BY <1>2, <3>1
  <2>3. CASE QueueUnread(q)
    <3>1. Goto(q, [pc |-> "historyBlind", id |-> call[q].id])
      BY <2>3 DEF QueueUnread
    <3> QED
      BY <1>2, <3>1
  <2>4. CASE RemoveFinalFail(q)
    <3>1. Goto(q, [pc |-> "historyDelete", id |-> call[q].id])
      BY <2>4 DEF RemoveFinalFail
    <3> QED
      BY <1>2, <3>1
  <2>5. CASE Adopt(q)
    <3>1. Goto(q, [pc |-> "adopted", jobs |-> {i \in NzbIds : Adoptable(i)}])
      BY <2>5 DEF Adopt
    <3> QED
      BY <1>2, <3>1
  <2>6. CASE Return(q)
    <3>1. Goto(q, [pc |-> "idle"])
      BY <2>6 DEF Return, Idle
    <3> QED
      BY <1>2, <3>1
  <2> QED
    BY <1>8, <2>1, <2>2, <2>3, <2>4, <2>5, <2>6
<1>9. ASSUME NEW q \in Procs, RemoveFinal(q) \/ RemoveHistory(q) \/ RemoveHistoryFail(q)
      PROVE  FALSE
  BY <1>3, <1>9 DEF RemoveFinal, RemoveHistory, RemoveHistoryFail
<1>10. ASSUME NEW q \in Procs, NEW i \in NzbIds, Pause(q, i) \/ Resume(q, i) PROVE FALSE
  <2>1. \E a : Goto(q, [pc |-> "answer", op |-> "edit", id |-> i, answer |-> a])
    BY <1>10 DEF Pause, Resume, Edit
  <2> QED
    BY <1>2, <2>1
<1>11. ASSUME NEW q \in Procs, NEW i \in NzbIds, NEW c \in Categories \cup {Nil}, Add(q, i, c)
       PROVE  UNCHANGED call
  BY <1>11 DEF Add
<1>12. ASSUME NEW i \in NzbIds, Work(i) \/ Erase(i) PROVE UNCHANGED call
  BY <1>12 DEF Work, Erase
<1>13. CASE \E q \in Procs : Step(q)
  BY <1>1, <1>5, <1>6, <1>7, <1>8, <1>9, <1>10, <1>11, <1>13 DEF Step
<1> QED
  BY <1>1, <1>12, <1>13 DEF Next, vars

\* A caller that comes to read the history has found the queue without its job.
LEMMA HistoryAfterQueue ==
    ASSUME DescribeInv, [Next]_vars, NEW p \in Procs, call'[p].pc \in Asking
    PROVE  /\ call'[p].id \in NzbIds /\ status[call'[p].id] # "unused"
           /\ call'[p].pc = "history" => status[call'[p].id] \in Ended \cup {"erased"}
<1>0. /\ TypeOK /\ call \in [Procs -> Calls] /\ call[p] \in Calls
      /\ status \in [NzbIds -> Status]
  BY DEF DescribeInv, TypeOK, Status
<1>1. CASE call'[p] = call[p]
  BY <1>0, <1>1, CallByPC DEF DescribeInv, At
<1>2. ASSUME NEW q \in Procs, NEW c, Goto(q, c), c.pc \notin Asking PROVE call'[p] = call[p]
  BY <1>0, <1>2 DEF Goto
<1>3. ASSUME NEW q \in Procs, NEW o, NEW a, Answer(q, o, a) PROVE call'[p] = call[p]
  <2>1. [pc |-> "answer", op |-> o, id |-> call[q].id, answer |-> a].pc \notin Asking
    BY DEF Asking
  <2> QED
    BY <1>2, <1>3, <2>1 DEF Answer
<1>4. ASSUME NEW q \in Procs, NEW c, Goto(q, c), call'[p] # call[p] PROVE p = q /\ call'[p] = c
  BY <1>0, <1>4 DEF Goto
<1>5. ASSUME NEW q \in Procs, NEW i \in NzbIds, DescribeBegin(q, i), call'[p] # call[p]
      PROVE  call'[p].pc = "listgroups" /\ call'[p].id = i /\ status[i] # "unused"
  <2>1. Goto(q, [pc |-> "listgroups", id |-> i]) /\ status[i] # "unused"
    BY <1>5 DEF DescribeBegin
  <2> QED
    BY <1>4, <1>5, <2>1
<1>6. ASSUME NEW q \in Procs, DescribeQueue(q), call'[p] # call[p]
      PROVE  /\ call'[p].id \in NzbIds
             /\ status[call'[p].id] \in Ended \cup {"erased"}
  <2>1. ~InQueue(call[q].id)
    BY <1>3, <1>6 DEF DescribeQueue
  <2>2. Goto(q, [pc |-> "history", id |-> call[q].id]) /\ At(q, "listgroups")
    BY <1>6, <2>1 DEF DescribeQueue
  <2>3. p = q /\ call'[p].id = call[p].id
    BY <1>4, <1>6, <2>2
  <2>4. call[p].id \in NzbIds /\ status[call[p].id] # "unused"
    BY <1>0, <2>2, <2>3, CallByPC DEF At, Asking, DescribeInv
  <2> QED
    BY <1>0, <2>1, <2>3, <2>4 DEF InQueue, Status
<1>7. ASSUME NEW q \in Procs, QueueUnread(q), call'[p] # call[p]
      PROVE  /\ call'[p].id \in NzbIds /\ call'[p].pc = "historyBlind"
             /\ status[call'[p].id] # "unused"
  <2>1. Goto(q, [pc |-> "historyBlind", id |-> call[q].id]) /\ At(q, "listgroups")
    BY <1>7 DEF QueueUnread
  <2>2. p = q /\ call'[p].id = call[p].id /\ call'[p].pc = "historyBlind"
    BY <1>4, <1>7, <2>1
  <2> QED
    BY <1>0, <2>1, <2>2, CallByPC DEF At, Asking, DescribeInv
<1>8. ASSUME NEW q \in Procs,
             DescribeHistory(q) \/ HistoryUnread(q) \/ RemoveFinal(q) \/ RemoveHistory(q)
                 \/ RemoveHistoryFail(q)
      PROVE  call'[p] = call[p]
  <2>1. \E o, a : Answer(q, o, a)
    <3>1. CASE DescribeHistory(q)
      BY <3>1 DEF DescribeHistory
    <3>2. CASE ~DescribeHistory(q)
      BY <1>8, <3>2 DEF HistoryUnread, RemoveFinal, RemoveHistory, RemoveHistoryFail
    <3> QED
      BY <3>1, <3>2
  <2> QED
    BY <1>3, <2>1
<1>9. ASSUME NEW q \in Procs, NEW i \in NzbIds, RemoveBegin(q, i) PROVE call'[p] = call[p]
  <2>1. Goto(q, [pc |-> "final", id |-> i]) /\ [pc |-> "final", id |-> i].pc \notin Asking
    BY <1>9 DEF RemoveBegin, Asking
  <2> QED
    BY <1>2, <2>1
<1>10. ASSUME NEW q \in Procs, RemoveFinalFail(q) PROVE call'[p] = call[p]
  <2>1. /\ Goto(q, [pc |-> "historyDelete", id |-> call[q].id])
        /\ [pc |-> "historyDelete", id |-> call[q].id].pc \notin Asking
    BY <1>10 DEF RemoveFinalFail, Asking
  <2> QED
    BY <1>2, <2>1
<1>11. ASSUME NEW q \in Procs, Adopt(q) PROVE call'[p] = call[p]
  <2> DEFINE c == [pc |-> "adopted", jobs |-> {i \in NzbIds : Adoptable(i)}]
  <2>1. Goto(q, c) /\ c.pc \notin Asking
    BY <1>11 DEF Adopt, Asking
  <2> QED
    BY <1>2, <2>1
<1>12. ASSUME NEW q \in Procs, Return(q) PROVE call'[p] = call[p]
  <2>1. Goto(q, Idle) /\ Idle.pc \notin Asking
    BY <1>12 DEF Return, Asking, Idle
  <2> QED
    BY <1>2, <2>1
<1>13. ASSUME NEW q \in Procs, NEW i \in NzbIds, Pause(q, i) \/ Resume(q, i)
       PROVE  call'[p] = call[p]
  <2>1. PICK a : Goto(q, [pc |-> "answer", op |-> "edit", id |-> i, answer |-> a])
    BY <1>13 DEF Pause, Resume, Edit
  <2>2. [pc |-> "answer", op |-> "edit", id |-> i, answer |-> a].pc \notin Asking
    BY DEF Asking
  <2> QED
    BY <1>2, <2>1, <2>2
<1>14. ASSUME NEW q \in Procs, NEW i \in NzbIds, NEW c \in Categories \cup {Nil}, Add(q, i, c)
       PROVE  call'[p] = call[p]
  BY <1>14 DEF Add
<1>15. ASSUME NEW i \in NzbIds, Work(i) \/ Erase(i) PROVE call'[p] = call[p]
  BY <1>15 DEF Work, Erase
<1>16. CASE UNCHANGED vars
  BY <1>1, <1>16 DEF vars
<1>17. ASSUME NEW q \in Procs, Step(q), call'[p] # call[p]
       PROVE  (\E i \in NzbIds : DescribeBegin(q, i)) \/ DescribeQueue(q) \/ QueueUnread(q)
  BY <1>8, <1>9, <1>10, <1>11, <1>12, <1>13, <1>14, <1>17 DEF Step
<1>18. CASE call'[p] # call[p]
  <2>1. PICK q \in Procs : Step(q)
    BY <1>15, <1>16, <1>18 DEF Next, vars
  <2>2. CASE \E i \in NzbIds : DescribeBegin(q, i)
    BY <1>5, <1>18, <2>2
  <2>3. CASE DescribeQueue(q)
    BY <1>6, <1>18, <2>3, StatusKinds DEF Ended
  <2>4. CASE QueueUnread(q)
    BY <1>7, <1>18, <2>4
  <2> QED
    BY <1>17, <1>18, <2>1, <2>2, <2>3, <2>4
<1> QED
  BY <1>1, <1>18

\* Every step keeps what Describe knows.
LEMMA NextDescribe == DescribeInv /\ [Next]_vars => DescribeInv'
<1> SUFFICES ASSUME DescribeInv, [Next]_vars PROVE DescribeInv'
  OBVIOUS
<1>0. TypeOK /\ TypeOK' /\ StatusMoves /\ call \in [Procs -> Calls]
  BY NextTypes, NextMoves DEF DescribeInv, TypeOK
<1>1. ASSUME NEW p \in Procs, call'[p].pc \in Asking
      PROVE  /\ status'[call'[p].id] # "unused"
             /\ call'[p].pc = "history" => status'[call'[p].id] \in Ended \cup {"erased"}
  BY <1>0, <1>1, HistoryAfterQueue, StatusKinds DEF StatusMoves
<1>2. ASSUME NEW q \in Procs, NEW i \in NzbIds, ToldEnded(q, i)'
      PROVE  \/ status'[i] = "erased"
             \/ status'[i] \in Ended /\ call'[q].answer = FoldHistory(status'[i])
  <2>0. /\ call'[q].pc = "answer" /\ call'[q].op = "describe" /\ call'[q].id = i
        /\ call'[q].answer \in {"completed", "failed"}
    BY <1>2 DEF ToldEnded, At
  <2>1. CASE ~At(q, "answer")
    BY <2>0, <2>1, DescribeAnswers
  <2>2. CASE At(q, "answer")
    <3>1. call'[q] = call[q]
      <4>1. CASE UNCHANGED call
        BY <4>1
      <4>2. ASSUME NEW p \in Procs, ~At(p, "answer"), NEW c, Goto(p, c) PROVE call'[q] = call[q]
        BY <1>0, <2>2, <4>2 DEF Goto
      <4>3. ASSUME NEW p \in Procs, Step(p), ~At(p, "answer")
            PROVE  UNCHANGED call \/ \E c : Goto(p, c)
        BY <4>3 DEF Step, Add, DescribeBegin, DescribeQueue, QueueUnread, DescribeHistory,
                    HistoryUnread, RemoveBegin, RemoveFinal, RemoveFinalFail, RemoveHistory,
                    RemoveHistoryFail, Pause, Resume, Edit, Adopt, Return, Answer
      <4>4. ASSUME NEW p \in Procs, Step(p), At(p, "answer") PROVE Goto(p, Idle)
        <5>1. call[p].pc = "answer" /\ call[p] # Idle
          BY <4>4 DEF At, Idle
        <5> QED
          BY <4>4, <5>1 DEF Step, Add, DescribeBegin, DescribeQueue, QueueUnread, DescribeHistory,
                    HistoryUnread, RemoveBegin, RemoveFinal, RemoveFinalFail, RemoveHistory,
                    RemoveHistoryFail, Pause, Resume, Edit, Adopt, Return, At
      <4>5. ASSUME NEW p \in Procs, Goto(p, Idle) PROVE call'[q] = call[q]
        BY <1>0, <2>0, <4>5 DEF Goto, Idle
      <4>6. ASSUME NEW j \in NzbIds, Work(j) \/ Erase(j) PROVE UNCHANGED call
        BY <4>6 DEF Work, Erase
      <4> QED
        BY <4>1, <4>2, <4>3, <4>4, <4>5, <4>6 DEF Next, vars
    <3>2. ToldEnded(q, i)
      BY <2>0, <3>1 DEF ToldEnded, At
    <3> QED
      BY <1>0, <3>1, <3>2, StatusKinds DEF DescribeInv, StatusMoves
  <2> QED
    BY <2>1, <2>2
<1> QED
  BY <1>0, <1>1, <1>2 DEF DescribeInv, At, Asking

\* The invariant holds throughout.
THEOREM DescribeInvariant == Spec => []DescribeInv
<1>1. Init => DescribeInv
  <2> SUFFICES ASSUME Init PROVE DescribeInv
    OBVIOUS
  <2>1. TypeOK
    BY DEF Init, TypeOK, Calls
  <2>2. \A p \in Procs : call[p].pc = "idle"
    BY DEF Init, Idle
  <2> QED
    BY <2>1, <2>2 DEF DescribeInv, Asking, At, ToldEnded
<1> QED
  BY <1>1, NextDescribe, PTL DEF Spec

\* "Not found" is true: the job was neither in the queue when that was read nor in
\* the history afterwards, and a job only moves from the one to the other
\* (Describe, two calls of which either may fail).
THEOREM NotFoundHolds == Spec => NotFoundIsTrue
<1>1. ASSUME DescribeInv, [Next]_vars, NEW p \in Procs, Answered(p, "describe", "not-found")
      PROVE  status[call[p].id] = "erased"
  <2>1. /\ ~At(p, "answer") /\ call'[p].pc = "answer" /\ call'[p].op = "describe"
        /\ call'[p].answer = "not-found"
    BY <1>1 DEF Answered
  <2> QED
    BY <1>1, <2>1, DescribeAnswers DEF FoldHistory
<1>2. DescribeInv /\ [Next]_vars =>
          [\A p \in Procs :
              Answered(p, "describe", "not-found") => status[call[p].id] = "erased"]_vars
  BY <1>1
<1> QED
  BY <1>2, DescribeInvariant, PTL DEF Spec, NotFoundIsTrue

\* The reported outcome is the last word: later answers about the job agree with it
\* (foldNZBGroup, foldNZBHistory).
THEOREM OutcomeHolds == Spec => OutcomeIsFinal
<1>1. ASSUME DescribeInv, [Next]_vars, NEW p \in Procs, NEW q \in Procs,
             NEW a \in {"queued", "downloading", "completed", "failed"},
             Answered(p, "describe", a), ToldEnded(q, call[p].id)
      PROVE  a = call[q].answer
  <2>1. /\ ~At(p, "answer") /\ call'[p].pc = "answer" /\ call'[p].op = "describe"
        /\ call'[p].answer = a
    BY <1>1 DEF Answered
  <2>2. /\ call[p].id \in NzbIds
        /\ \/ status[call[p].id] \in Queued
           \/ status[call[p].id] \in Ended /\ a = FoldHistory(status[call[p].id])
    BY <1>1, <2>1, DescribeAnswers
  <2>3. \/ status[call[p].id] = "erased"
        \/ /\ status[call[p].id] \in Ended
           /\ call[q].answer = FoldHistory(status[call[p].id])
    BY <1>1, <2>2 DEF DescribeInv
  <2> QED
    BY <2>2, <2>3, StatusKinds
<1>2. DescribeInv /\ [Next]_vars =>
          [\A p, q \in Procs, a \in {"queued", "downloading", "completed", "failed"} :
              Answered(p, "describe", a) /\ ToldEnded(q, call[p].id) => a = call[q].answer]_vars
  BY <1>1
<1> QED
  BY <1>2, DescribeInvariant, PTL DEF Spec, OutcomeIsFinal

\* No adoption replays an outcome: it lists the queue, and a job that was reported
\* to have ended has left it for good (Adopt).
THEOREM NothingReplayed == Spec => NoReplay
<1>1. ASSUME DescribeInv, [Next]_vars, NEW p \in Procs, NEW q \in Procs, NEW i \in NzbIds,
             ~At(p, "adopted"), call'[p].pc = "adopted", ToldEnded(q, i)
      PROVE  i \notin call'[p].jobs
  <2>0. call \in [Procs -> Calls]
    BY <1>1 DEF DescribeInv, TypeOK
  <2>1. ASSUME NEW r \in Procs, NEW c, Goto(r, c) PROVE r = p /\ c = call'[p]
    BY <1>1, <2>0, <2>1 DEF Goto, At
  <2>2. ASSUME NEW r \in Procs, NEW c, Goto(r, c), c.pc # "adopted" PROVE FALSE
    BY <1>1, <2>1, <2>2
  <2>3. ASSUME NEW r \in Procs, Adopt(r) PROVE i \notin call'[p].jobs
    <3> DEFINE c == [pc |-> "adopted", jobs |-> {j \in NzbIds : Adoptable(j)}]
    <3>1. c = call'[p]
      BY <2>1, <2>3 DEF Adopt
    <3>2. ~InQueue(i)
      BY <1>1, StatusKinds DEF DescribeInv, InQueue
    <3> QED
      BY <3>1, <3>2 DEF Adoptable
  <2>4. ASSUME NEW r \in Procs, NEW o, NEW a, Answer(r, o, a) PROVE FALSE
    <3>1. Goto(r, [pc |-> "answer", op |-> o, id |-> call[r].id, answer |-> a])
      BY <2>4 DEF Answer
    <3> QED
      BY <2>2, <3>1
  <2>5. ASSUME NEW r \in Procs, NEW x, NEW j, Goto(r, [pc |-> x, id |-> j]), x # "adopted"
        PROVE  FALSE
    BY <2>2, <2>5
  <2>6. ASSUME NEW r \in Procs,
               \/ DescribeQueue(r) \/ QueueUnread(r) \/ DescribeHistory(r) \/ HistoryUnread(r)
               \/ RemoveFinal(r) \/ RemoveFinalFail(r) \/ RemoveHistory(r) \/ RemoveHistoryFail(r)
        PROVE  FALSE
    BY <2>4, <2>5, <2>6 DEF DescribeQueue, QueueUnread, DescribeHistory, HistoryUnread, RemoveFinal,
                            RemoveFinalFail, RemoveHistory, RemoveHistoryFail
  <2>7. ASSUME NEW r \in Procs, NEW j \in NzbIds, DescribeBegin(r, j) \/ RemoveBegin(r, j)
        PROVE  FALSE
    BY <2>5, <2>7 DEF DescribeBegin, RemoveBegin
  <2>8. ASSUME NEW r \in Procs, NEW j \in NzbIds, Pause(r, j) \/ Resume(r, j) PROVE FALSE
    <3>1. PICK a : Goto(r, [pc |-> "answer", op |-> "edit", id |-> j, answer |-> a])
      BY <2>8 DEF Pause, Resume, Edit
    <3> QED
      BY <2>2, <3>1
  <2>9. ASSUME NEW r \in Procs, Return(r) PROVE FALSE
    <3>1. Goto(r, Idle) /\ Idle.pc # "adopted"
      BY <2>9 DEF Return, Idle
    <3> QED
      BY <2>2, <3>1
  <2>10. ~UNCHANGED call
    BY <1>1 DEF At
  <2>11. ASSUME NEW r \in Procs, NEW j \in NzbIds, NEW c \in Categories \cup {Nil}, Add(r, j, c)
         PROVE  FALSE
    BY <2>10, <2>11 DEF Add
  <2>12. ASSUME NEW j \in NzbIds, Work(j) \/ Erase(j) PROVE FALSE
    BY <2>10, <2>12 DEF Work, Erase
  <2>13. \E r \in Procs : Step(r)
    BY <1>1, <2>10, <2>12 DEF Next, vars
  <2> QED
    BY <2>3, <2>6, <2>7, <2>8, <2>9, <2>11, <2>13 DEF Step
<1>2. DescribeInv /\ [Next]_vars =>
          [\A p, q \in Procs, i \in NzbIds :
              ~At(p, "adopted") /\ call'[p].pc = "adopted" /\ ToldEnded(q, i)
                  => i \notin call'[p].jobs]_vars
  BY <1>1
<1> QED
  BY <1>2, DescribeInvariant, PTL DEF Spec, NoReplay

=============================================================================
