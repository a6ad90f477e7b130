----------------------------- MODULE QBittorrent -----------------------------
(***************************************************************************)
(* The qBittorrent adapter (internal/adapters/qbittorrent.go) against a    *)
(* running qBittorrent that several clients of the gateway may share.      *)
(*                                                                         *)
(* Every request goes through authed: log in first when the cookie jar     *)
(* holds no session, log in again and resend once when the request is      *)
(* refused with 403.  The goroutines that use a client share its jar.  An  *)
(* operation is one or more requests; between two of them sessions expire  *)
(* and torrents move on.                                                   *)
(*                                                                         *)
(* qBittorrent itself is external.  It is taken never to check a finished  *)
(* torrent again, to start an errored one again only when it is told to    *)
(* resume it, and job tags are taken to be unique.                         *)
(***************************************************************************)
EXTENDS Naturals, FiniteSets

CONSTANTS
    Clients,    \* the gateway's clients on this instance
    Categories, \* torrent categories
    CategoryOf, \* the category of each client, or Nil
    Tags,       \* job tags
    Procs,      \* concurrent callers of the adapters
    Nil

ASSUME QBittorrentAssumption ==
    /\ CategoryOf \in [Clients -> Categories \cup {Nil}]
    /\ Nil \notin Categories \cup Clients

Ended == {"seeding", "error"}

\* A torrent that was added and is not listed yet is "hidden".
Listed == {"downloading", "paused"} \cup Ended

VARIABLES
    whitelisted, \* external: the WebUI needs no session from this network
    modern,      \* external: version 5, with stop and start for pause and resume
    jar,         \* the session in each client's cookie jar
    torrent,     \* external: the torrent that carries each tag
    call         \* what each caller is doing

vars == <<whitelisted, modern, jar, torrent, call>>
serverVars == <<whitelisted, modern>>

Idle == [pc |-> "idle"]

Operations == {"add", "describe", "remove", "pause", "resume", "adopt"}

Verbs == {"stop", "start", "pause", "resume"}

\* The steps of authed.
Working == {"auth", "send", "relogin", "resend"}

Calls ==
    {Idle}
    \cup [pc : Working, op : Operations, client : Clients, tag : Tags \cup {Nil},
          filed : Categories \cup {Nil}, req : {"add", "info", "delete", "list"} \cup Verbs]
    \cup [pc : {"answered"}, op : Operations, client : Clients, tag : Tags \cup {Nil},
          answer : {"ok", "error", "not-found", "downloading", "completed", "failed"},
          jobs : SUBSET Tags]

\* added counts how often qBittorrent took an add with this tag.
Torrent == [state : {"none", "hidden", "gone"} \cup Listed, added : Nat,
            category : Categories \cup {Nil}, owner : Clients \cup {Nil}]

TypeOK ==
    /\ whitelisted \in BOOLEAN
    /\ modern \in BOOLEAN
    /\ jar \in [Clients -> {"none", "live", "expired"}]
    /\ torrent \in [Tags -> Torrent]
    /\ call \in [Procs -> Calls]

Init ==
    /\ whitelisted \in BOOLEAN
    /\ modern \in BOOLEAN
    /\ jar = [c \in Clients |-> "none"]
    /\ torrent = [t \in Tags |-> [state |-> "none", added |-> 0, category |-> Nil, owner |-> Nil]]
    /\ call = [p \in Procs |-> Idle]

-----------------------------------------------------------------------------
(* qBittorrent (external). *)

Become(t, state) == torrent' = [torrent EXCEPT ![t].state = state]

\* A torrent is listed, ends, or is deleted by somebody.
Progress(t) ==
    /\ \/ torrent[t].state = "hidden" /\ Become(t, "downloading")
       \/ torrent[t].state = "downloading" /\ \E s \in Ended : Become(t, s)
       \/ torrent[t].state \in Listed /\ Become(t, "gone")
    /\ UNCHANGED <<serverVars, jar, call>>

\* The session of a client times out, or qBittorrent restarts.
Expire(c) ==
    /\ jar[c] = "live"
    /\ jar' = [jar EXCEPT ![c] = "expired"]
    /\ UNCHANGED <<serverVars, torrent, call>>

-----------------------------------------------------------------------------
(* The operations. *)

Goto(p, next) == call' = [call EXCEPT ![p] = next]

At(p, pcs) == call[p].pc \in pcs

\* A tag that no other add has drawn.
FreshTag(t) ==
    torrent[t].state = "none" /\ \A q \in Procs : call[q] # Idle => call[q].tag # t

\* An add files the torrent under its own category or the client's.
Filed(c, category) == IF category = Nil THEN CategoryOf[c] ELSE category

AddBegin(p, c, t, category) ==
    /\ call[p] = Idle
    /\ FreshTag(t)
    /\ Goto(p, [pc |-> "auth", op |-> "add", client |-> c, tag |-> t,
                filed |-> Filed(c, category), req |-> "add"])
    /\ UNCHANGED <<serverVars, jar, torrent>>

\* Describe, Remove, Pause and Resume look the torrent up by its tag first.
ByTag(p, op, c, t) ==
    /\ call[p] = Idle
    /\ torrent[t].owner = c
    /\ Goto(p, [pc |-> "auth", op |-> op, client |-> c, tag |-> t, filed |-> Nil, req |-> "info"])
    /\ UNCHANGED <<serverVars, jar, torrent>>

AdoptBegin(p, c) ==
    /\ call[p] = Idle
    /\ Goto(p, [pc |-> "auth", op |-> "adopt", client |-> c, tag |-> Nil, filed |-> Nil, req |-> "list"])
    /\ UNCHANGED <<serverVars, jar, torrent>>

AnswerWith(p, a, found) ==
    Goto(p, [pc |-> "answered", op |-> call[p].op, client |-> call[p].client,
             tag |-> call[p].tag, answer |-> a, jobs |-> found])

Answer(p, a) == AnswerWith(p, a, {})

\* The next request of the operation, again through authed.
Request(p, req) == Goto(p, [call[p] EXCEPT !.req = req, !.pc = "auth"])

\* The verbs control tries, the one of version 5 first.
FirstVerb(op) == IF op = "pause" THEN "stop" ELSE "start"

\* A request failed: control falls back to the older verb, everything else
\* returns the error.
Fail(p) ==
    IF call[p].req \in {"stop", "start"} THEN Request(p, call[p].op) ELSE Answer(p, "error")

-----------------------------------------------------------------------------
(* authed. *)

HasSession(c) == jar[c] # "none"

SessionHeld(p) ==
    /\ At(p, {"auth"})
    /\ HasSession(call[p].client)
    /\ Goto(p, [call[p] EXCEPT !.pc = "send"])
    /\ UNCHANGED <<serverVars, jar, torrent>>

NeedsLogin(p) == At(p, {"relogin"}) \/ (At(p, {"auth"}) /\ ~HasSession(call[p].client))

\* A whitelisted caller gets no session cookie and needs none.
Login(p) ==
    /\ NeedsLogin(p)
    /\ jar' = IF whitelisted THEN jar ELSE [jar EXCEPT ![call[p].client] = "live"]
    /\ Goto(p, [call[p] EXCEPT !.pc = IF @ = "auth" THEN "send" ELSE "resend"])
    /\ UNCHANGED <<serverVars, torrent>>

LoginFail(p) ==
    /\ NeedsLogin(p)
    /\ Fail(p)
    /\ UNCHANGED <<serverVars, jar, torrent>>

\* qBittorrent serves the request.
Admitted(c) == whitelisted \/ jar[c] = "live"

\* Mutant: every 403 is answered by another login.
ForbiddenAgain(p) ==
    /\ At(p, {"send", "resend"})
    /\ ~Admitted(call[p].client)
    /\ Goto(p, [call[p] EXCEPT !.pc = "relogin"])
    /\ UNCHANGED <<serverVars, jar, torrent>>

\* 403: log in again once; the second 403 is an error like any other status.
Forbidden(p) ==
    /\ At(p, {"send", "resend"})
    /\ ~Admitted(call[p].client)
    /\ IF At(p, {"send"}) THEN Goto(p, [call[p] EXCEPT !.pc = "relogin"]) ELSE Fail(p)
    /\ UNCHANGED <<serverVars, jar, torrent>>

-----------------------------------------------------------------------------
(* The requests. *)

Supported(verb) == (verb \in {"stop", "start"}) = modern

\* What a request that changes a torrent makes of it.
AddTorrent(p) ==
    [torrent EXCEPT ![call[p].tag] =
        [state |-> "hidden", added |-> @.added + 1, category |-> call[p].filed,
         owner |-> call[p].client]]

Controlled(p) ==
    LET state == torrent[call[p].tag].state
    IN  CASE call[p].op = "pause" /\ state = "downloading" -> "paused"
          [] call[p].op = "resume" /\ state \in {"paused", "error"} -> "downloading"
          [] OTHER -> state

Effect(p) ==
    CASE call[p].req = "add" -> AddTorrent(p)
      [] call[p].req = "delete" -> [torrent EXCEPT ![call[p].tag].state = "gone"]
      [] call[p].req \in Verbs /\ Supported(call[p].req) ->
            [torrent EXCEPT ![call[p].tag].state = Controlled(p)]
      [] OTHER -> torrent

\* Mutant: the native state is passed on.
FoldQBNative(state) == state

\* foldQB.
FoldQB(state) ==
    CASE state = "error" -> "failed"
      [] state = "seeding" -> "completed"
      [] OTHER -> "downloading"

\* Mutant: finished torrents, which keep their tag, are adopted too.
AdoptableEnded(c, t) ==
    /\ torrent[t].state \in Listed
    /\ CategoryOf[c] = Nil \/ torrent[t].category \in {Nil, CategoryOf[c]}

\* A torrent with a job tag that still runs and is not filed under another
\* category than the client's.
Adoptable(c, t) ==
    /\ torrent[t].state \in Listed
    /\ FoldQB(torrent[t].state) = "downloading"
    /\ CategoryOf[c] = Nil \/ torrent[t].category \in {Nil, CategoryOf[c]}

\* What the operation does once its torrent was looked up.
LookedUp(p) ==
    LET t == torrent[call[p].tag]
    IN  IF t.state \in Listed
        THEN CASE call[p].op = "describe" -> Answer(p, FoldQB(t.state))
               [] call[p].op = "remove" -> Request(p, "delete")
               [] OTHER -> Request(p, FirstVerb(call[p].op))
        ELSE CASE call[p].op = "describe" -> Answer(p, "not-found")
               [] call[p].op = "remove" -> Answer(p, "ok")
               [] OTHER -> Answer(p, "error")

\* The request is served and its answer read.
Served(p) ==
    /\ At(p, {"send", "resend"})
    /\ Admitted(call[p].client)
    /\ torrent' = Effect(p)
    /\ CASE call[p].req = "info" -> LookedUp(p)
         [] call[p].req = "list" ->
               AnswerWith(p, "ok", {t \in Tags : Adoptable(call[p].client, t)})
         [] call[p].req \in Verbs /\ ~Supported(call[p].req) -> Fail(p)
         [] OTHER -> Answer(p, "ok")
    /\ UNCHANGED <<serverVars, jar>>

\* Mutant: a request whose answer is lost is sent again.
SendFailResent(p) ==
    /\ At(p, {"send"})
    /\ torrent' = torrent \/ (Admitted(call[p].client) /\ torrent' = Effect(p))
    /\ Goto(p, [call[p] EXCEPT !.pc = "resend"])
    /\ UNCHANGED <<serverVars, jar>>

\* The transport fails, before or after qBittorrent acted on the request, or
\* qBittorrent refuses it.
SendFail(p) ==
    /\ At(p, {"send", "resend"})
    /\ torrent' = torrent \/ (Admitted(call[p].client) /\ torrent' = Effect(p))
    /\ Fail(p)
    /\ UNCHANGED <<serverVars, jar>>

Return(p) ==
    /\ At(p, {"answered"})
    /\ Goto(p, Idle)
    /\ UNCHANGED <<serverVars, jar, torrent>>

-----------------------------------------------------------------------------

Work(p) == SessionHeld(p) \/ Login(p) \/ LoginFail(p) \/ Forbidden(p) \/ Served(p) \/ SendFail(p)

Begin(p) ==
    \E c \in Clients :
        \/ \E t \in Tags, category \in Categories \cup {Nil} : AddBegin(p, c, t, category)
        \/ \E t \in Tags, op \in {"describe", "remove", "pause", "resume"} : ByTag(p, op, c, t)
        \/ AdoptBegin(p, c)

Next ==
    \/ \E p \in Procs : Begin(p) \/ Work(p) \/ Return(p)
    \/ \E t \in Tags : Progress(t)
    \/ \E c \in Clients : Expire(c)

Spec == Init /\ [][Next]_vars

\* The HTTP client's timeout ends every request.
FairSpec == Spec /\ \A p \in Procs : WF_vars(Work(p))

-----------------------------------------------------------------------------

\* An add puts a torrent into qBittorrent at most once, although the request is
\* sent again after a 403 and its answer may be lost (authed, Add).
AddedOnce == \A t \in Tags : torrent[t].added <= 1

\* Every operation comes to an answer, however often sessions expire: authed logs
\* in again once and control tries two verbs.
CallsEnd == \A p \in Procs : call[p].pc \in Working ~> call[p].pc = "answered"

\* The step in which p's operation is answered.
Answered(p, op) == ~At(p, {"answered"}) /\ call'[p].pc = "answered" /\ call'[p].op = op

\* q has just been told that the job of tag t completed or failed.
ToldEnded(q, t) ==
    /\ At(q, {"answered"})
    /\ call[q].op = "describe"
    /\ call[q].tag = t
    /\ call[q].answer \in {"completed", "failed"}

\* Adoption never takes up a torrent that was reported as completed: it keeps its
\* tag and seeds forever, and its event would be replayed on every restart
\* (qbittorrent.go:449).  Nor one that was reported as failed, unless a resume has
\* started it again.
NoReplay ==
    [][\A p, q \in Procs, t \in Tags :
        /\ Answered(p, "adopt")
        /\ ToldEnded(q, t)
        /\ call[q].answer = "completed" \/ torrent[t].state \in Ended
        => t \notin call'[p].jobs]_vars

-----------------------------------------------------------------------------
(* A statement of the code's comments that does not hold.                   *)

\* Remove of a tag that info does not list: "already gone" (qbittorrent.go:295),
\* while "a fresh magnet resolves metadata before info lists it" (line 244).
RemovedIsGone ==
    [][\A p \in Procs :
        Answered(p, "remove") /\ call'[p].answer = "ok"
            => torrent'[call[p].tag].state = "gone"]_vars

=============================================================================
