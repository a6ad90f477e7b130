-------------------------- MODULE QBittorrentProofs --------------------------
(***************************************************************************)
(* Proofs about QBittorrent, for any number of clients, jobs and           *)
(* concurrent callers.                                                     *)
(***************************************************************************)
EXTENDS QBittorrent, TLAPS

Requests == {"add", "info", "delete", "list"} \cup Verbs
Replies == {"ok", "error", "not-found", "downloading", "completed", "failed"}

WorkingCall == [pc : Working, op : Operations, client : Clients, tag : Tags \cup {Nil},
                filed : Categories \cup {Nil}, req : Requests]

AnsweredCall == [pc : {"answered"}, op : Operations, client : Clients, tag : Tags \cup {Nil},
                 answer : Replies, jobs : SUBSET Tags]

\* The record a caller keeps follows from where it is.
LEMMA CallByPC ==
    ASSUME NEW c \in Calls
    PROVE  /\ c.pc \in Working => c \in WorkingCall
           /\ c.pc = "answered" => c \in AnsweredCall
           /\ c = Idle <=> c.pc \notin Working \cup {"answered"}
           /\ c # Idle => c.pc \in Working \cup {"answered"}
BY DEF Calls, Idle, WorkingCall, AnsweredCall, Working, Requests, Replies

\* Which requests an operation makes, and that it names a job.
Fits(c) ==
    /\ c.req = "add" <=> c.op = "add"
    /\ c.req = "list" <=> c.op = "adopt"
    /\ c.req = "delete" => c.op = "remove"
    /\ c.req \in Verbs => c.op \in {"pause", "resume"}
    /\ c.op # "adopt" => c.tag \in Tags

CallsFit == \A p \in Procs : At(p, Working) => Fits(call[p])

-----------------------------------------------------------------------------
(* How a call goes on. *)

\* Between two steps a call keeps its operation and its job.
Continues(p) ==
    /\ call' \in [Procs -> Calls]
    /\ \A q \in Procs \ {p} : call'[q] = call[q]
    /\ call'[p].op = call[p].op /\ call'[p].tag = call[p].tag /\ call'[p].client = call[p].client

\* A call sends on.
LEMMA Proceeds ==
    ASSUME TypeOK, CallsFit, NEW p \in Procs, At(p, Working), NEW x \in Working,
           Goto(p, [call[p] EXCEPT !.pc = x])
    PROVE  Continues(p) /\ call'[p].pc \in Working /\ Fits(call'[p])
<1>1. call[p] \in WorkingCall /\ Fits(call[p])
  BY CallByPC DEF TypeOK, At, CallsFit
<1> DEFINE c == [call[p] EXCEPT !.pc = x]
<1>2. /\ c \in WorkingCall /\ c.op = call[p].op /\ c.tag = call[p].tag /\ c.client = call[p].client
      /\ c.req = call[p].req /\ c.pc = x
  BY <1>1 DEF WorkingCall
<1>3. Fits(c)
  BY <1>1, <1>2 DEF Fits
<1>4. c \in Calls
  BY <1>2 DEF WorkingCall, Calls, Requests
<1>5. call' = [call EXCEPT ![p] = c]
  BY DEF Goto
<1> HIDE DEF c
<1>6. call'[p] = c /\ call' \in [Procs -> Calls] /\ \A q \in Procs \ {p} : call'[q] = call[q]
  BY <1>4, <1>5 DEF TypeOK
<1> QED
  BY <1>2, <1>3, <1>6 DEF Continues

\* A call makes its next request.
LEMMA RequestProceeds ==
    ASSUME TypeOK, CallsFit, NEW p \in Procs, At(p, Working), NEW r \in Requests,
           call[p].op \notin {"add", "adopt"}, r \notin {"add", "list"},
           r = "delete" => call[p].op = "remove",
           r \in Verbs => call[p].op \in {"pause", "resume"},
           Request(p, r)
    PROVE  Continues(p) /\ call'[p].pc \in Working /\ Fits(call'[p])
<1>1. call[p] \in WorkingCall /\ Fits(call[p])
  BY CallByPC DEF TypeOK, At, CallsFit
<1> DEFINE c == [call[p] EXCEPT !.req = r, !.pc = "auth"]
<1>2. /\ c \in WorkingCall /\ c.op = call[p].op /\ c.tag = call[p].tag /\ c.client = call[p].client
      /\ c.req = r /\ c.pc = "auth"
  BY <1>1 DEF WorkingCall, Working
<1>3. Fits(c)
  BY <1>1, <1>2 DEF Fits
<1>4. c \in Calls
  BY <1>2 DEF WorkingCall, Calls, Requests
<1>5. call' = [call EXCEPT ![p] = c]
  BY DEF Request, Goto
<1> HIDE DEF c
<1>6. call'[p] = c /\ call' \in [Procs -> Calls] /\ \A q \in Procs \ {p} : call'[q] = call[q]
  BY <1>4, <1>5 DEF TypeOK
<1> QED
  BY <1>2, <1>3, <1>6 DEF Continues, Working

\* A call is answered.
LEMMA AnswerProceeds ==
    ASSUME TypeOK, NEW p \in Procs, At(p, Working), NEW a \in Replies, NEW found \in SUBSET Tags,
           AnswerWith(p, a, found)
    PROVE  /\ Continues(p) /\ call'[p].pc = "answered"
           /\ call'[p].answer = a /\ call'[p].jobs = found
<1>1. call[p] \in WorkingCall
  BY CallByPC DEF TypeOK, At
<1> DEFINE c == [pc |-> "answered", op |-> call[p].op, client |-> call[p].client,
                 tag |-> call[p].tag, answer |-> a, jobs |-> found]
<1>2. c \in AnsweredCall
  BY <1>1 DEF WorkingCall, AnsweredCall
<1>3. c \in Calls
  BY <1>2 DEF AnsweredCall, Calls, Replies
<1>4. call' = [call EXCEPT ![p] = c]
  BY DEF AnswerWith, Goto
<1>5. call'[p] = c /\ call' \in [Procs -> Calls] /\ \A q \in Procs \ {p} : call'[q] = call[q]
  BY <1>3, <1>4 DEF TypeOK
<1> QED
  BY <1>5 DEF Continues

\* Where a call may be after a step of authed or of a request, and what an answer
\* to it is worth.
CallOutcome(p) ==
    /\ Continues(p)
    /\ \/ call'[p].pc \in Working /\ Fits(call'[p])
       \/ /\ call'[p].pc = "answered"
          /\ call'[p].op = "describe" /\ call'[p].answer = "completed"
                 => UNCHANGED torrent /\ torrent[call[p].tag].state = "seeding"
          /\ \A t \in call'[p].jobs : torrent[t].state \notin Ended \cup {"gone"}

\* A request fails.
LEMMA FailProceeds ==
    ASSUME TypeOK, CallsFit, NEW p \in Procs, At(p, Working), Fail(p)
    PROVE  CallOutcome(p)
<1>1. call[p] \in WorkingCall /\ Fits(call[p])
  BY CallByPC DEF TypeOK, At, CallsFit
<1>2. CASE call[p].req \in {"stop", "start"}
  <2>1. call[p].op \in {"pause", "resume"}
    BY <1>1, <1>2 DEF Fits, Verbs
  <2>2. Request(p, call[p].op)
    BY <1>2 DEF Fail
  <2> QED
    BY <2>1, <2>2, RequestProceeds DEF CallOutcome, Requests, Verbs
<1>3. CASE call[p].req \notin {"stop", "start"}
  <2>1. AnswerWith(p, "error", {})
    BY <1>3 DEF Fail, Answer
  <2> QED
    BY <2>1, AnswerProceeds DEF CallOutcome, Replies
<1> QED
  BY <1>2, <1>3

\* byTag has found the torrent, or not.
LEMMA LookupProceeds ==
    ASSUME TypeOK, CallsFit, NEW p \in Procs, At(p, Working), call[p].req = "info",
           LookedUp(p), UNCHANGED torrent
    PROVE  CallOutcome(p)
<1>1. /\ call[p] \in WorkingCall /\ Fits(call[p])
      /\ call[p].op \in {"describe", "remove", "pause", "resume"}
  BY CallByPC DEF TypeOK, At, CallsFit, Fits, WorkingCall, Operations
<1>2. ASSUME NEW a \in Replies, Answer(p, a),
             a = "completed" => torrent[call[p].tag].state = "seeding"
      PROVE  CallOutcome(p)
  <2>1. AnswerWith(p, a, {})
    BY <1>2 DEF Answer
  <2> QED
    BY <1>2, <2>1, AnswerProceeds DEF CallOutcome
<1>3. CASE torrent[call[p].tag].state \in Listed /\ call[p].op = "describe"
  <2> DEFINE a == FoldQB(torrent[call[p].tag].state)
  <2>1. Answer(p, a)
    BY <1>3 DEF LookedUp
  <2>2. a \in Replies /\ (a = "completed" => torrent[call[p].tag].state = "seeding")
    BY DEF FoldQB, Replies, Ended
  <2> HIDE DEF a
  <2> QED
    BY <1>2, <2>1, <2>2
<1>4. CASE torrent[call[p].tag].state \in Listed /\ call[p].op = "remove"
  <2>1. Request(p, "delete")
    BY <1>4 DEF LookedUp
  <2> QED
    BY <1>4, <2>1, RequestProceeds DEF CallOutcome, Requests, Verbs
<1>5. CASE torrent[call[p].tag].state \in Listed /\ call[p].op \in {"pause", "resume"}
  <2>1. Request(p, FirstVerb(call[p].op))
    BY <1>5 DEF LookedUp
  <2>2. FirstVerb(call[p].op) \in {"stop", "start"}
    BY DEF FirstVerb
  <2> QED
    BY <1>5, <2>1, <2>2, RequestProceeds DEF CallOutcome, Requests, Verbs
<1>6. CASE torrent[call[p].tag].state \notin Listed
  <2>1. Answer(p, "not-found") \/ Answer(p, "ok") \/ Answer(p, "error")
    BY <1>6 DEF LookedUp
  <2> QED
    BY <1>2, <2>1 DEF Replies
<1> QED
  BY <1>1, <1>3, <1>4, <1>5, <1>6

\* The request is served.
LEMMA ServedProceeds ==
    ASSUME TypeOK, CallsFit, NEW p \in Procs, Served(p)
    PROVE  CallOutcome(p)
<1>0. At(p, Working) /\ torrent' = Effect(p)
  BY DEF Served, At, Working
<1>1. CASE call[p].req = "info"
  <2>1. LookedUp(p) /\ UNCHANGED torrent
    BY <1>0, <1>1 DEF Served, Effect, Verbs
  <2> QED
    BY <1>0, <1>1, <2>1, LookupProceeds
<1>2. CASE call[p].req = "list"
  <2> DEFINE found == {t \in Tags : Adoptable(call[p].client, t)}
  <2>1. AnswerWith(p, "ok", found)
    BY <1>2 DEF Served, Verbs
  <2>2. found \in SUBSET Tags /\ \A t \in found : torrent[t].state \notin Ended \cup {"gone"}
    BY DEF Adoptable, FoldQB, Ended, Listed
  <2> HIDE DEF found
  <2> QED
    BY <1>0, <2>1, <2>2, AnswerProceeds DEF CallOutcome, Replies
<1>3. CASE call[p].req \in Verbs /\ ~Supported(call[p].req)
  <2>1. Fail(p)
    BY <1>3 DEF Served, Verbs
  <2> QED
    BY <1>0, <2>1, FailProceeds
<1>4. CASE call[p].req \notin {"info", "list"} /\ ~(call[p].req \in Verbs /\ ~Supported(call[p].req))
  <2>1. AnswerWith(p, "ok", {})
    BY <1>4 DEF Served, Answer
  <2> QED
    BY <1>0, <2>1, AnswerProceeds DEF CallOutcome, Replies
<1> QED
  BY <1>1, <1>2, <1>3, <1>4

\* Every step of a call in flight.
LEMMA WorkProceeds ==
    ASSUME TypeOK, CallsFit, NEW p \in Procs, Work(p)
    PROVE  /\ At(p, Working) /\ CallOutcome(p)
           /\ \/ UNCHANGED torrent
              \/ torrent' = Effect(p) /\ (call[p].req = "add" => call'[p].pc = "answered")
<1>1. CASE SessionHeld(p)
  <2>1. At(p, Working) /\ Goto(p, [call[p] EXCEPT !.pc = "send"]) /\ "send" \in Working
    BY <1>1 DEF SessionHeld, At, Working
  <2> QED
    BY <1>1, <2>1, Proceeds DEF CallOutcome, SessionHeld
<1>2. CASE Login(p)
  <2>1. At(p, Working)
    BY <1>2 DEF Login, NeedsLogin, At, Working
  <2>2. \E x \in Working : Goto(p, [call[p] EXCEPT !.pc = x])
    BY <1>2 DEF Login, Working
  <2> QED
    BY <1>2, <2>1, <2>2, Proceeds DEF CallOutcome, Login
<1>3. CASE LoginFail(p)
  <2>1. At(p, Working) /\ Fail(p) /\ UNCHANGED torrent
    BY <1>3 DEF LoginFail, NeedsLogin, At, Working
  <2> QED
    BY <2>1, FailProceeds
<1>4. CASE Forbidden(p)
  <2>1. At(p, Working) /\ UNCHANGED torrent
    BY <1>4 DEF Forbidden, At, Working
  <2>2. Fail(p) \/ Goto(p, [call[p] EXCEPT !.pc = "relogin"])
    BY <1>4 DEF Forbidden
  <2> QED
    BY <2>1, <2>2, FailProceeds, Proceeds DEF CallOutcome, Working
<1>5. CASE Served(p)
  <2>1. At(p, Working) /\ torrent' = Effect(p) /\ call[p] \in WorkingCall
    BY <1>5, CallByPC DEF Served, At, Working, TypeOK
  <2>2. ASSUME call[p].req = "add" PROVE call'[p].pc = "answered"
    <3>1. AnswerWith(p, "ok", {})
      BY <1>5, <2>2 DEF Served, Answer, Verbs
    <3> QED
      BY <2>1, <3>1, AnswerProceeds DEF Replies
  <2> QED
    BY <1>5, <2>1, <2>2, ServedProceeds
<1>6. CASE SendFail(p)
  <2>1. At(p, Working) /\ Fail(p) /\ (UNCHANGED torrent \/ torrent' = Effect(p))
    BY <1>6 DEF SendFail, At, Working
  <2>2. ASSUME call[p].req = "add" PROVE call'[p].pc = "answered"
    <3>1. AnswerWith(p, "error", {})
      BY <2>1, <2>2 DEF Fail, Answer
    <3> QED
      BY <2>1, <3>1, AnswerProceeds DEF Replies
  <2> QED
    BY <2>1, <2>2, FailProceeds
<1> QED
  BY <1>1, <1>2, <1>3, <1>4, <1>5, <1>6 DEF Work

-----------------------------------------------------------------------------
(* Torrents and the calls on them. *)

\* A torrent that is not there yet belongs to nobody; the add that draws its tag is
\* alone with it, and every other call comes later.
TagsFresh ==
    /\ \A t \in Tags :
           torrent[t].state = "none" => torrent[t].added = 0 /\ torrent[t].owner = Nil
    /\ \A p \in Procs :
           At(p, Working) /\ call[p].op \notin {"add", "adopt"} => torrent[call[p].tag].state # "none"
    /\ \A p \in Procs :
           At(p, Working) /\ call[p].op = "add" =>
               /\ torrent[call[p].tag].state = "none"
               /\ \A q \in Procs \ {p} :
                      At(q, Working) /\ call[q].op = "add" => call[q].tag # call[p].tag

\* A torrent that was reported as completed is, until it is deleted.
ToldCompleted(q, t) == ToldEnded(q, t) /\ call[q].answer = "completed"

ToldTrue ==
    \A q \in Procs, t \in Tags : ToldCompleted(q, t) => torrent[t].state \in {"seeding", "gone"}

\* The inductive invariant.
CallInv == TypeOK /\ CallsFit /\ TagsFresh /\ AddedOnce /\ ToldTrue

\* What a step may make of a torrent: it appears once, and completion is final.
TorrentMoves ==
    /\ torrent' \in [Tags -> Torrent]
    /\ \A t \in Tags :
        \/ torrent'[t] = torrent[t]
        \/ /\ torrent[t].state = "none" /\ torrent'[t].state = "hidden"
           /\ torrent'[t].added = torrent[t].added + 1
        \/ /\ torrent[t].state # "none" /\ torrent'[t].state # "none"
           /\ torrent'[t].added = torrent[t].added
           /\ torrent[t].state \in {"seeding", "gone"} => torrent'[t].state \in {"seeding", "gone"}

\* A change of a torrent's state alone.
LEMMA StateMoves ==
    ASSUME TypeOK, NEW t \in Tags, NEW state \in ({"hidden", "gone"} \cup Listed),
           torrent[t].state # "none",
           torrent[t].state \in {"seeding", "gone"} => state \in {"seeding", "gone"},
           torrent' = [torrent EXCEPT ![t].state = state]
    PROVE  TorrentMoves /\ \A u \in Tags \ {t} : torrent'[u] = torrent[u]
<1>1. torrent[t] \in Torrent
  BY DEF TypeOK
<1>2. /\ torrent'[t] = [torrent[t] EXCEPT !.state = state]
      /\ \A u \in Tags \ {t} : torrent'[u] = torrent[u]
      /\ torrent' = [torrent EXCEPT ![t] = [torrent[t] EXCEPT !.state = state]]
  BY DEF TypeOK
<1>3. /\ [torrent[t] EXCEPT !.state = state] \in Torrent
      /\ torrent'[t].state = state /\ torrent'[t].added = torrent[t].added
  BY <1>1, <1>2 DEF Torrent
<1>4. torrent' \in [Tags -> Torrent]
  BY <1>2, <1>3 DEF TypeOK
<1> QED
  BY <1>2, <1>3, <1>4 DEF TorrentMoves, Listed, Ended

\* The effect of a request on the torrents.
LEMMA EffectMoves ==
    ASSUME CallInv, NEW p \in Procs, At(p, Working), torrent' = Effect(p)
    PROVE  /\ TorrentMoves
           /\ \A t \in Tags : torrent'[t] # torrent[t] => call[p].op # "adopt" /\ t = call[p].tag
           /\ call[p].req # "add" =>
                  \A t \in Tags : torrent[t].state = "none" => torrent'[t] = torrent[t]
<1>0. /\ TypeOK /\ call[p] \in WorkingCall /\ Fits(call[p])
      /\ torrent \in [Tags -> Torrent]
  BY CallByPC DEF CallInv, TypeOK, At, CallsFit
<1>1. CASE UNCHANGED torrent
  BY <1>0, <1>1 DEF TorrentMoves
<1>2. CASE call[p].req = "add"
  <2>1. call[p].op = "add" /\ call[p].tag \in Tags /\ torrent[call[p].tag].state = "none"
    BY <1>0, <1>2 DEF Fits, CallInv, TagsFresh
  <2> DEFINE t == call[p].tag
             new == [state |-> "hidden", added |-> torrent[t].added + 1, category |-> call[p].filed,
                     owner |-> call[p].client]
  <2>2. torrent' = [torrent EXCEPT ![t] = new]
    BY <1>2 DEF Effect, AddTorrent, Verbs
  <2>3. new \in Torrent
    BY <1>0, <2>1 DEF Torrent, WorkingCall
  <2>4. torrent'[t] = new /\ torrent' \in [Tags -> Torrent] /\ \A u \in Tags \ {t} : torrent'[u] = torrent[u]
    BY <1>0, <2>1, <2>2, <2>3
  <2> QED
    BY <1>2, <2>1, <2>4 DEF TorrentMoves
<1>3. CASE call[p].req = "delete"
  <2>1. call[p].op = "remove" /\ call[p].tag \in Tags /\ torrent[call[p].tag].state # "none"
    BY <1>0, <1>3 DEF Fits, CallInv, TagsFresh
  <2>2. torrent' = [torrent EXCEPT ![call[p].tag].state = "gone"]
    BY <1>3 DEF Effect, Verbs
  <2> QED
    BY <1>0, <2>1, <2>2, StateMoves
<1>4. CASE call[p].req \in Verbs /\ Supported(call[p].req)
  <2>1. /\ call[p].op \in {"pause", "resume"} /\ call[p].tag \in Tags
        /\ torrent[call[p].tag].state # "none"
    BY <1>0, <1>4 DEF Fits, CallInv, TagsFresh
  <2>2. torrent' = [torrent EXCEPT ![call[p].tag].state = Controlled(p)]
    BY <1>4 DEF Effect, Verbs
  <2>3. torrent[call[p].tag].state \in {"none", "hidden", "gone"} \cup Listed
    BY <1>0, <2>1 DEF Torrent
  <2>4. /\ Controlled(p) \in {"hidden", "gone"} \cup Listed
        /\ torrent[call[p].tag].state \in {"seeding", "gone"} =>
               Controlled(p) = torrent[call[p].tag].state
    BY <2>1, <2>3 DEF Controlled, Listed, Ended
  <2> QED
    BY <1>0, <2>1, <2>2, <2>4, StateMoves
<1>5. CASE /\ call[p].req \notin {"add", "delete"}
           /\ ~(call[p].req \in Verbs /\ Supported(call[p].req))
  <2>1. UNCHANGED torrent
    BY <1>5 DEF Effect
  <2> QED
    BY <1>1, <2>1
<1> QED
  BY <1>2, <1>3, <1>4, <1>5

\* The torrents' own progress.
LEMMA ProgressMoves ==
    ASSUME TypeOK, NEW t \in Tags, Progress(t)
    PROVE  TorrentMoves /\ \A u \in Tags : torrent[u].state = "none" => torrent'[u] = torrent[u]
<1>1. \E state \in {"hidden", "gone"} \cup Listed :
          /\ torrent[t].state # "none"
          /\ torrent[t].state \in {"seeding", "gone"} => state = "gone"
          /\ torrent' = [torrent EXCEPT ![t].state = state]
  BY DEF Progress, Become, Listed, Ended
<1> QED
  BY <1>1, StateMoves

\* A new call: an add draws a tag that nobody knows, and any other call on a job
\* comes after its add.
LEMMA Begins ==
    ASSUME TypeOK, NEW p \in Procs, Begin(p)
    PROVE  /\ UNCHANGED <<serverVars, jar, torrent>> /\ call[p] = Idle
           /\ call' \in [Procs -> Calls] /\ \A q \in Procs \ {p} : call'[q] = call[q]
           /\ call'[p].pc = "auth" /\ Fits(call'[p])
           /\ \/ call'[p].op = "add" /\ FreshTag(call'[p].tag)
              \/ call'[p].op = "adopt"
              \/ /\ call'[p].op \notin {"add", "adopt"}
                 /\ torrent[call'[p].tag].owner \in Clients
<1>1. ASSUME NEW c \in Calls, Goto(p, c)
      PROVE  /\ call'[p] = c /\ call' \in [Procs -> Calls]
             /\ \A q \in Procs \ {p} : call'[q] = call[q]
  BY <1>1 DEF Goto, TypeOK
<1>2. ASSUME NEW c \in Clients, NEW t \in Tags, NEW category \in Categories \cup {Nil},
             AddBegin(p, c, t, category)
      PROVE  /\ call' \in [Procs -> Calls] /\ \A q \in Procs \ {p} : call'[q] = call[q]
             /\ call'[p].pc = "auth" /\ Fits(call'[p]) /\ call'[p].op = "add"
             /\ FreshTag(call'[p].tag)
  <2> DEFINE n == [pc |-> "auth", op |-> "add", client |-> c, tag |-> t,
                   filed |-> Filed(c, category), req |-> "add"]
  <2>1. Filed(c, category) \in Categories \cup {Nil}
    BY QBittorrentAssumption DEF Filed
  <2>2. n \in Calls
    BY <2>1 DEF Calls, Working, Operations
  <2>3. Fits(n)
    BY DEF Fits, Verbs
  <2>4. Goto(p, n) /\ FreshTag(t)
    BY <1>2 DEF AddBegin
  <2>5. n.pc = "auth" /\ n.op = "add" /\ n.tag = t
    OBVIOUS
  <2> HIDE DEF n
  <2> QED
    BY <1>1, <2>2, <2>3, <2>4, <2>5
<1>3. ASSUME NEW c \in Clients, NEW t \in Tags, NEW o \in {"describe", "remove", "pause", "resume"},
             ByTag(p, o, c, t)
      PROVE  /\ call' \in [Procs -> Calls] /\ \A q \in Procs \ {p} : call'[q] = call[q]
             /\ call'[p].pc = "auth" /\ Fits(call'[p]) /\ call'[p].op \notin {"add", "adopt"}
             /\ torrent[call'[p].tag].owner \in Clients
  <2> DEFINE n == [pc |-> "auth", op |-> o, client |-> c, tag |-> t, filed |-> Nil, req |-> "info"]
  <2>1. n \in Calls
    BY DEF Calls, Working, Operations
  <2>2. Fits(n)
    BY DEF Fits, Verbs
  <2>3. Goto(p, n) /\ torrent[t].owner = c
    BY <1>3 DEF ByTag
  <2>4. n.pc = "auth" /\ n.op = o /\ n.tag = t
    OBVIOUS
  <2> HIDE DEF n
  <2> QED
    BY <1>1, <2>1, <2>2, <2>3, <2>4
<1>4. ASSUME NEW c \in Clients, AdoptBegin(p, c)
      PROVE  /\ call' \in [Procs -> Calls] /\ \A q \in Procs \ {p} : call'[q] = call[q]
             /\ call'[p].pc = "auth" /\ Fits(call'[p]) /\ call'[p].op = "adopt"
  <2> DEFINE n == [pc |-> "auth", op |-> "adopt", client |-> c, tag |-> Nil, filed |-> Nil,
                   req |-> "list"]
  <2>1. n \in Calls
    BY DEF Calls, Working, Operations
  <2>2. Fits(n)
    BY DEF Fits, Verbs
  <2>3. Goto(p, n)
    BY <1>4 DEF AdoptBegin
  <2>4. n.pc = "auth" /\ n.op = "adopt"
    OBVIOUS
  <2> HIDE DEF n
  <2> QED
    BY <1>1, <2>1, <2>2, <2>3, <2>4
<1>5. UNCHANGED <<serverVars, jar, torrent>> /\ call[p] = Idle
  BY DEF Begin, AddBegin, ByTag, AdoptBegin
<1> QED
  BY <1>2, <1>3, <1>4, <1>5 DEF Begin

\* The sessions keep their type.
LEMMA SessionTypes ==
    ASSUME TypeOK, [Next]_vars
    PROVE  /\ whitelisted' \in BOOLEAN /\ modern' \in BOOLEAN
           /\ jar' \in [Clients -> {"none", "live", "expired"}]
<1>1. UNCHANGED serverVars
  BY DEF Next, Begin, AddBegin, ByTag, AdoptBegin, Work, SessionHeld, Login, LoginFail, Forbidden,
         Served, SendFail, Return, Progress, Expire, vars, serverVars
<1>2. jar' \in [Clients -> {"none", "live", "expired"}]
  <2>1. CASE UNCHANGED jar
    BY <2>1 DEF TypeOK
  <2>2. ASSUME NEW p \in Procs, Login(p) PROVE jar' \in [Clients -> {"none", "live", "expired"}]
    BY <2>2 DEF Login, TypeOK
  <2>3. ASSUME NEW c \in Clients, Expire(c) PROVE jar' \in [Clients -> {"none", "live", "expired"}]
    BY <2>3 DEF Expire, TypeOK
  <2>4. ASSUME NEW p \in Procs, Begin(p) PROVE UNCHANGED jar
    BY <2>4 DEF Begin, AddBegin, ByTag, AdoptBegin
  <2>5. ASSUME NEW p \in Procs,
               SessionHeld(p) \/ LoginFail(p) \/ Forbidden(p) \/ Served(p) \/ SendFail(p) \/ Return(p)
        PROVE  UNCHANGED jar
    BY <2>5 DEF SessionHeld, LoginFail, Forbidden, Served, SendFail, Return
  <2>6. ASSUME NEW t \in Tags, Progress(t) PROVE UNCHANGED jar
    BY <2>6 DEF Progress
  <2> QED
    BY <2>1, <2>2, <2>3, <2>4, <2>5, <2>6 DEF Next, Work, vars
<1> QED
  BY <1>1, <1>2 DEF TypeOK, serverVars

\* A step that moves the torrents and no call, except to its end.
LEMMA TorrentsMove ==
    ASSUME CallInv, TorrentMoves, call' \in [Procs -> Calls],
           \A t \in Tags : torrent[t].state = "none" => torrent'[t] = torrent[t],
           \A q \in Procs : call'[q] = call[q] \/ call'[q] = Idle
    PROVE  CallsFit' /\ TagsFresh' /\ AddedOnce' /\ ToldTrue'
<1>0. /\ Idle.pc \notin Working /\ Idle.pc # "answered"
      /\ torrent \in [Tags -> Torrent] /\ \A t \in Tags : torrent[t].added \in Nat
  BY DEF Idle, Working, CallInv, TypeOK, Torrent
<1>1. \A q \in Procs : call'[q].pc \in Working => call'[q] = call[q] /\ call[q].pc \in Working
  BY <1>0
<1>2. CallsFit'
  BY <1>1 DEF CallInv, CallsFit, At, Fits
<1>3. \A t \in Tags : torrent'[t].state = "none" <=> torrent[t].state = "none"
  BY DEF TorrentMoves
<1>4. \A q \in Procs : call'[q].pc \in Working /\ call'[q].op # "adopt" => call[q].tag \in Tags
  BY <1>1 DEF CallInv, CallsFit, At, Fits
<1>5. TagsFresh'
  BY <1>1, <1>3, <1>4 DEF CallInv, TagsFresh, At
<1>6. AddedOnce'
  BY <1>0, <1>3 DEF CallInv, AddedOnce, TorrentMoves
<1>7. ToldTrue'
  <2> SUFFICES ASSUME NEW q \in Procs, NEW t \in Tags, ToldCompleted(q, t)'
               PROVE  torrent'[t].state \in {"seeding", "gone"}
    BY DEF ToldTrue
  <2>1. call'[q] = call[q]
    BY <1>0 DEF ToldCompleted, ToldEnded, At
  <2>2. ToldCompleted(q, t)
    BY <2>1 DEF ToldCompleted, ToldEnded, At
  <2>3. torrent[t].state \in {"seeding", "gone"} /\ torrent[t].state # "none"
    BY <2>2 DEF CallInv, ToldTrue
  <2> QED
    BY <2>3 DEF TorrentMoves
<1> QED
  BY <1>2, <1>5, <1>6, <1>7

\* A step of a call in flight.  The add that is served ends its call with the same
\* step, so that its tag is not given to qBittorrent again.
LEMMA WorkMoves ==
    ASSUME CallInv, NEW p \in Procs, Work(p)
    PROVE  /\ torrent' \in [Tags -> Torrent] /\ call' \in [Procs -> Calls]
           /\ CallsFit' /\ TagsFresh' /\ AddedOnce' /\ ToldTrue'
<1>1. /\ At(p, Working) /\ CallOutcome(p) /\ Continues(p)
      /\ \/ UNCHANGED torrent
         \/ torrent' = Effect(p) /\ (call[p].req = "add" => call'[p].pc = "answered")
  BY WorkProceeds DEF CallInv, CallOutcome
<1>2. /\ torrent \in [Tags -> Torrent] /\ \A t \in Tags : torrent[t].added \in Nat
      /\ TypeOK /\ CallsFit /\ TagsFresh /\ AddedOnce /\ ToldTrue
  BY DEF CallInv, TypeOK, Torrent
<1>3. /\ TorrentMoves
      /\ \A t \in Tags : torrent'[t] # torrent[t] => call[p].op # "adopt" /\ t = call[p].tag
      /\ call[p].req # "add" =>
             \A t \in Tags : torrent[t].state = "none" => torrent'[t] = torrent[t]
  <2>1. CASE UNCHANGED torrent
    BY <1>2, <2>1 DEF TorrentMoves
  <2>2. CASE torrent' = Effect(p)
    BY <1>1, <2>2, EffectMoves
  <2> QED
    BY <1>1, <2>1, <2>2
<1>4. \A q \in Procs \ {p} : call'[q] = call[q]
  BY <1>1 DEF Continues
<1>5. call'[p].op = call[p].op /\ call'[p].tag = call[p].tag
  BY <1>1 DEF Continues
<1>6. CallsFit'
  <2>1. call'[p].pc \in Working => Fits(call'[p])
    BY <1>1 DEF CallOutcome, Working
  <2> QED
    BY <1>2, <1>4, <2>1 DEF CallsFit, At, Fits
<1>7. \A q \in Procs : call'[q].pc \in Working =>
          /\ call[q].pc \in Working /\ call'[q].op = call[q].op /\ call'[q].tag = call[q].tag
          /\ Fits(call[q])
  BY <1>1, <1>2, <1>4, <1>5 DEF At, CallsFit
<1>8. TagsFresh'
  <2>1. \A t \in Tags :
            torrent'[t].state = "none" => torrent'[t].added = 0 /\ torrent'[t].owner = Nil
    BY <1>2, <1>3 DEF TorrentMoves, TagsFresh
  <2>2. ASSUME NEW q \in Procs, call'[q].pc \in Working, call'[q].op \notin {"add", "adopt"}
        PROVE  torrent'[call'[q].tag].state # "none"
    BY <1>2, <1>3, <1>7, <2>2 DEF TorrentMoves, TagsFresh, At, Fits
  <2>3. ASSUME NEW q \in Procs, call'[q].pc \in Working, call'[q].op = "add"
        PROVE  /\ torrent'[call'[q].tag].state = "none"
               /\ \A r \in Procs \ {q} :
                      call'[r].pc \in Working /\ call'[r].op = "add" => call'[r].tag # call'[q].tag
    <3>1. /\ call[q].pc \in Working /\ call[q].op = "add" /\ call[q].tag \in Tags
          /\ call'[q].tag = call[q].tag /\ call[q].req = "add"
      BY <1>7, <2>3 DEF Fits
    <3>2. /\ torrent[call[q].tag].state = "none"
          /\ \A r \in Procs \ {q} :
                 call[r].pc \in Working /\ call[r].op = "add" => call[r].tag # call[q].tag
      BY <1>2, <3>1 DEF TagsFresh, At
    <3>3. torrent'[call[q].tag] = torrent[call[q].tag]
      <4>1. CASE q = p
        BY <1>1, <2>3, <3>1, <4>1 DEF Working
      <4>2. CASE q # p /\ call[p].op = "add"
        BY <1>1, <1>3, <3>1, <3>2, <4>2 DEF At
      <4>3. CASE q # p /\ call[p].op # "add"
        <5>1. Fits(call[p])
          BY <1>1, <1>2 DEF CallsFit
        <5> QED
          BY <1>3, <3>1, <3>2, <4>3, <5>1 DEF Fits
      <4> QED
        BY <4>1, <4>2, <4>3
    <3> QED
      BY <1>7, <3>1, <3>2, <3>3
  <2> QED
    BY <2>1, <2>2, <2>3 DEF TagsFresh, At
<1>9. AddedOnce'
  BY <1>2, <1>3 DEF AddedOnce, TorrentMoves, TagsFresh
<1>10. ToldTrue'
  <2> SUFFICES ASSUME NEW q \in Procs, NEW t \in Tags, ToldCompleted(q, t)'
               PROVE  torrent'[t].state \in {"seeding", "gone"}
    BY DEF ToldTrue
  <2>1. CASE q = p
    BY <1>1, <1>5, <2>1 DEF ToldCompleted, ToldEnded, At, CallOutcome, Working
  <2>2. CASE q # p
    <3>1. ToldCompleted(q, t)
      BY <1>4, <2>2 DEF ToldCompleted, ToldEnded, At
    <3>2. torrent[t].state \in {"seeding", "gone"} /\ torrent[t].state # "none"
      BY <1>2, <3>1 DEF ToldTrue
    <3> QED
      BY <1>3, <3>2 DEF TorrentMoves
  <2> QED
    BY <2>1, <2>2
<1> QED
  BY <1>1, <1>3, <1>6, <1>8, <1>9, <1>10 DEF TorrentMoves, Continues

\* A call begins: an add draws a tag that no torrent and no other call has.
LEMMA BeginMoves ==
    ASSUME CallInv, NEW p \in Procs, Begin(p)
    PROVE  /\ UNCHANGED torrent /\ call' \in [Procs -> Calls]
           /\ CallsFit' /\ TagsFresh' /\ AddedOnce' /\ ToldTrue'
<1>1. /\ UNCHANGED torrent /\ call[p] = Idle
      /\ call' \in [Procs -> Calls] /\ \A q \in Procs \ {p} : call'[q] = call[q]
      /\ call'[p].pc = "auth" /\ Fits(call'[p])
      /\ \/ call'[p].op = "add" /\ FreshTag(call'[p].tag)
         \/ call'[p].op = "adopt"
         \/ /\ call'[p].op \notin {"add", "adopt"}
            /\ torrent[call'[p].tag].owner \in Clients
  BY Begins DEF CallInv
<1>2. Idle.pc \notin Working /\ "auth" \in Working /\ "auth" # "answered"
  BY DEF Idle, Working
<1>3. CallsFit'
  BY <1>1 DEF CallInv, CallsFit, At, Fits
<1>4. TagsFresh'
  <2>1. /\ \A t \in Tags :
               torrent[t].state = "none" => torrent[t].added = 0 /\ torrent[t].owner = Nil
        /\ Nil \notin Clients
    BY QBittorrentAssumption DEF CallInv, TagsFresh
  <2>2. ASSUME NEW q \in Procs, call'[q].pc \in Working, call'[q].op \notin {"add", "adopt"}
        PROVE  torrent[call'[q].tag].state # "none"
    BY <1>1, <2>1, <2>2 DEF CallInv, TagsFresh, At, Fits
  <2>3. ASSUME NEW q \in Procs, call'[q].pc \in Working, call'[q].op = "add"
        PROVE  torrent[call'[q].tag].state = "none"
    BY <1>1, <2>3 DEF CallInv, TagsFresh, At, FreshTag
  <2>4. ASSUME NEW q \in Procs \ {p}, call'[q].pc \in Working, call'[p].op = "add"
        PROVE  call'[q].tag # call'[p].tag
    <3>1. call[q].pc \in Working /\ call[q] # Idle
      BY <1>1, <1>2, <2>4
    <3> QED
      BY <1>1, <2>4, <3>1 DEF FreshTag
  <2>5. ASSUME NEW q \in Procs, NEW r \in Procs \ {q},
               call'[q].pc \in Working, call'[q].op = "add",
               call'[r].pc \in Working, call'[r].op = "add"
        PROVE  call'[r].tag # call'[q].tag
    <3>1. CASE q = p \/ r = p
      BY <2>4, <2>5, <3>1
    <3>2. CASE q # p /\ r # p
      BY <1>1, <2>5, <3>2 DEF CallInv, TagsFresh, At
    <3> QED
      BY <3>1, <3>2
  <2> QED
    BY <1>1, <2>1, <2>2, <2>3, <2>5 DEF TagsFresh, At
<1>5. AddedOnce' /\ ToldTrue'
  BY <1>1, <1>2 DEF CallInv, AddedOnce, ToldTrue, ToldCompleted, ToldEnded, At
<1> QED
  BY <1>1, <1>3, <1>4, <1>5

\* The invariant holds initially.
LEMMA InitInv == Init => CallInv
<1> SUFFICES ASSUME Init PROVE CallInv
  OBVIOUS
<1>1. Idle \in Calls /\ \A p \in Procs : ~At(p, Working) /\ ~At(p, {"answered"})
  BY DEF Init, At, Calls, Idle, Working
<1>2. \A t \in Tags : /\ torrent[t].state = "none" /\ torrent[t].added = 0 /\ torrent[t].owner = Nil
                      /\ torrent[t] \in Torrent
  BY DEF Init, Torrent
<1>3. TypeOK
  BY <1>1, <1>2 DEF Init, TypeOK
<1> QED
  BY <1>1, <1>2, <1>3 DEF CallInv, CallsFit, TagsFresh, AddedOnce, ToldTrue, ToldCompleted, ToldEnded

\* Every step keeps it.
LEMMA NextInv == CallInv /\ [Next]_vars => CallInv'
<1> SUFFICES ASSUME CallInv, [Next]_vars PROVE CallInv'
  OBVIOUS
<1> DEFINE Kept == /\ torrent' \in [Tags -> Torrent] /\ call' \in [Procs -> Calls]
                   /\ CallsFit' /\ TagsFresh' /\ AddedOnce' /\ ToldTrue'
<1>0. TypeOK /\ torrent \in [Tags -> Torrent] /\ call \in [Procs -> Calls] /\ Idle \in Calls
  BY DEF CallInv, TypeOK, Calls
<1>1. ASSUME NEW p \in Procs, Begin(p) PROVE Kept
  BY <1>0, <1>1, BeginMoves
<1>2. ASSUME NEW p \in Procs, Work(p) PROVE Kept
  BY <1>2, WorkMoves
<1>3. ASSUME UNCHANGED torrent,
             UNCHANGED call \/ \E p \in Procs : call' = [call EXCEPT ![p] = Idle]
      PROVE  Kept
  <2>1. TorrentMoves
    BY <1>0, <1>3 DEF TorrentMoves
  <2>2. call' \in [Procs -> Calls] /\ \A q \in Procs : call'[q] = call[q] \/ call'[q] = Idle
    BY <1>0, <1>3
  <2> QED
    BY <1>0, <1>3, <2>1, <2>2, TorrentsMove
<1>4. ASSUME NEW p \in Procs, Return(p) PROVE Kept
  BY <1>3, <1>4 DEF Return, Goto
<1>5. ASSUME NEW t \in Tags, Progress(t) PROVE Kept
  <2>1. UNCHANGED call /\ TorrentMoves
    BY <1>0, <1>5, ProgressMoves DEF Progress
  <2> QED
    BY <1>0, <1>5, <2>1, ProgressMoves, TorrentsMove DEF TorrentMoves
<1>6. ASSUME NEW c \in Clients, Expire(c) PROVE Kept
  BY <1>3, <1>6 DEF Expire
<1>7. ASSUME UNCHANGED vars PROVE Kept
  BY <1>3, <1>7 DEF vars
<1>8. Kept
  <2> HIDE DEF Kept
  <2> QED
    BY <1>1, <1>2, <1>4, <1>5, <1>6, <1>7 DEF Next
<1> QED
  BY <1>0, <1>8, SessionTypes DEF CallInv, TypeOK

\* The invariant of every behaviour of the adapter.
THEOREM CallInvariant == Spec => []CallInv
BY InitInv, NextInv, PTL DEF Spec

\* Every caller, session and torrent keeps its type, so every record field that a
\* step reads is there.
THEOREM TypeCorrect == Spec => []TypeOK
<1>1. CallInv => TypeOK
  BY DEF CallInv
<1> QED
  BY <1>1, CallInvariant, PTL

\* authed and Add: whatever is sent again after a 403 and whatever answer is lost,
\* a job's torrent is put into qBittorrent at most once.
THEOREM AddedAtMostOnce == Spec => []AddedOnce
<1>1. CallInv => AddedOnce
  BY DEF CallInv
<1> QED
  BY <1>1, CallInvariant, PTL

\* Adopt: a torrent that was reported as completed, or as failed and not resumed
\* since, is not taken up again, however the calls of other goroutines interleave
\* with it.
THEOREM NothingReplayed == Spec => NoReplay
<1>1. ASSUME CallInv, [Next]_vars, NEW p \in Procs, NEW q \in Procs, NEW t \in Tags,
             Answered(p, "adopt"), ToldEnded(q, t),
             call[q].answer = "completed" \/ torrent[t].state \in Ended
      PROVE  t \notin call'[p].jobs
  <2>0. TypeOK /\ torrent[t].state \in Ended \cup {"gone"}
    BY <1>1 DEF CallInv, ToldTrue, ToldCompleted, Ended
  <2>1. ASSUME NEW r \in Procs, \A s \in Procs \ {r} : call'[s] = call[s] PROVE r = p
    BY <1>1, <2>1 DEF Answered, At
  <2>2. ASSUME NEW r \in Procs, Work(r) PROVE t \notin call'[p].jobs
    <3>1. CallOutcome(r)
      BY <1>1, <2>2, WorkProceeds DEF CallInv
    <3>2. r = p
      BY <2>1, <3>1 DEF CallOutcome, Continues
    <3> QED
      BY <1>1, <2>0, <3>1, <3>2 DEF CallOutcome, Answered, Working
  <2>3. ASSUME NEW r \in Procs, Begin(r) PROVE FALSE
    <3>1. r = p
      BY <2>0, <2>1, <2>3, Begins
    <3> QED
      BY <1>1, <2>0, <2>3, <3>1, Begins DEF Answered
  <2>4. ~UNCHANGED call
    BY <1>1 DEF Answered, At
  <2>5. ASSUME NEW r \in Procs, Return(r) PROVE FALSE
    <3>1. call' = [call EXCEPT ![r] = Idle] /\ call \in [Procs -> Calls]
      BY <2>0, <2>5 DEF Return, Goto, TypeOK
    <3>2. call'[p] = call[p] \/ call'[p] = Idle
      BY <3>1
    <3> QED
      BY <1>1, <3>2 DEF Answered, At, Idle
  <2>6. ASSUME NEW u \in Tags, Progress(u) PROVE FALSE
    BY <2>4, <2>6 DEF Progress
  <2>7. ASSUME NEW c \in Clients, Expire(c) PROVE FALSE
    BY <2>4, <2>7 DEF Expire
  <2> QED
    BY <1>1, <2>2, <2>3, <2>4, <2>5, <2>6, <2>7 DEF Next, vars
<1>2. CallInv /\ [Next]_vars =>
          [\A p, q \in Procs, t \in Tags :
              /\ Answered(p, "adopt")
              /\ ToldEnded(q, t)
              /\ call[q].answer = "completed" \/ torrent[t].state \in Ended
              => t \notin call'[p].jobs]_vars
  BY <1>1
<1> QED
  BY <1>2, CallInvariant, PTL DEF Spec, NoReplay

=============================================================================
