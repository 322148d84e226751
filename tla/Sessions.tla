------------------------------- MODULE Sessions -------------------------------
(***************************************************************************)
(* Sessions (pkg/auth/session.go) and the middleware that turns a cookie   *)
(* into a subject (BrowserAuth, pkg/middleware/auth.go).  Every call of    *)
(* the store is a step of its own, so requests, logouts and the expiry     *)
(* interleave between them; the store is the app's database.               *)
(***************************************************************************)
EXTENDS Integers, FiniteSets

CONSTANTS
    Requests,     \* the requests that carry a cookie
    Ids,          \* sessions, which is also what their cookies say
    Subject,      \* [Ids -> subject]
    Nothing,      \* no session was read
    Duration,     \* a session's lifetime
    Threshold,    \* the age from which it is extended
    MaxTime

VARIABLES
    toucher,      \* the store implements SessionToucher
    now,
    sessions,     \* [a set of ids -> [created, expires]]: the store
    created,      \* the ids ever created
    subjects,     \* the subjects there are
    pc,           \* what a request is at
    token,        \* the cookie it came with
    read,         \* the session as it read it
    answer,       \* whom it was taken for: an id, nobody, an error
    revoked,      \* sessions whose logout has returned
    late,         \* requests that began after the logout of their session
    seenExpired   \* sessions some request read when they had expired

vars == <<toucher, now, sessions, created, subjects, pc, token, read, answer, revoked, late, seenExpired>>

KnownSubjects == {Subject[i] : i \in Ids}
Times    == 0 .. MaxTime + Duration
Records  == [created : 0 .. MaxTime, expires : Times]

TypeOK ==
    /\ toucher \in BOOLEAN /\ now \in 0 .. MaxTime
    /\ created \subseteq Ids /\ DOMAIN sessions \subseteq created
    /\ \A i \in DOMAIN sessions : sessions[i] \in Records
    /\ subjects \subseteq KnownSubjects
    /\ pc \in [Requests -> {"none", "get", "check", "delete", "touch", "load", "done"}]
    /\ token \in [Requests -> Ids]
    /\ read \in [Requests -> Records \cup {Nothing}]
    /\ answer \in [Requests -> {"none", "anonymous", "subject", "error"}]
    /\ revoked \cup seenExpired \subseteq Ids /\ late \subseteq Requests

Init ==
    /\ toucher \in BOOLEAN /\ now = 0
    /\ sessions = [i \in {} |-> Nothing] /\ created = {} /\ subjects = KnownSubjects
    /\ pc = [r \in Requests |-> "none"]
    /\ token \in [Requests -> Ids]
    /\ read = [r \in Requests |-> Nothing]
    /\ answer = [r \in Requests |-> "none"]
    /\ revoked = {} /\ late = {} /\ seenExpired = {}

To(r, p) == pc' = [pc EXCEPT ![r] = p]
Answer(r, a) == To(r, "done") /\ answer' = [answer EXCEPT ![r] = a]
Untouched == UNCHANGED <<toucher, created, subjects, token, now>>

\* CreateSession: a new id and token.
CreateSession(i) ==
    /\ i \notin created /\ Subject[i] \in subjects
    /\ created' = created \cup {i}
    /\ sessions' = [j \in DOMAIN sessions \cup {i} |->
                       IF j = i THEN [created |-> now, expires |-> now + Duration] ELSE sessions[j]]
    /\ UNCHANGED <<toucher, now, subjects, pc, token, read, answer, revoked, late, seenExpired>>

Without(ids) == [j \in DOMAIN sessions \ ids |-> sessions[j]]

\* DeleteSession and DeleteSubjectSessions: the logout, of one or of all.
Logout(ids) ==
    /\ ids # {} /\ ids \subseteq created /\ ~ids \subseteq revoked
    /\ sessions' = Without(ids)
    /\ revoked' = revoked \cup ids
    /\ UNCHANGED <<toucher, now, created, subjects, pc, token, read, answer, late, seenExpired>>

\* The app removes a subject, whose sessions stay behind.
RemoveSubject(s) ==
    /\ s \in subjects
    /\ subjects' = subjects \ {s}
    /\ UNCHANGED <<toucher, now, sessions, created, pc, token, read, answer, revoked, late, seenExpired>>

(***************************************************************************)
(* A request: BrowserAuth.Load and ValidateSession                         *)
(***************************************************************************)

Begin(r) ==
    /\ pc[r] = "none" /\ token[r] \in created
    /\ To(r, "get")
    /\ late' = IF token[r] \in revoked THEN late \cup {r} ELSE late
    /\ Untouched /\ UNCHANGED <<sessions, read, answer, revoked, seenExpired>>

\* GetByToken; its error is the answer.
Get(r) ==
    /\ pc[r] = "get"
    /\ \/ /\ token[r] \in DOMAIN sessions
          /\ read' = [read EXCEPT ![r] = sessions[token[r]]]
          /\ To(r, "check") /\ UNCHANGED answer
       \/ token[r] \notin DOMAIN sessions /\ Answer(r, "anonymous") /\ UNCHANGED read
       \/ Answer(r, "error") /\ UNCHANGED read
    /\ Untouched /\ UNCHANGED <<sessions, revoked, late, seenExpired>>

\* Mutant: what is older than the threshold and cannot be extended counts as
\* expired.
CheckStrict(r) ==
    /\ pc[r] = "check"
    /\ LET expired == now > read[r].expires
           old     == Threshold > 0 /\ now - read[r].created > Threshold IN
       /\ To(r, IF expired \/ (old /\ ~toucher) THEN "delete" ELSE IF old THEN "touch" ELSE "load")
       /\ seenExpired' = IF expired THEN seenExpired \cup {token[r]} ELSE seenExpired
    /\ Untouched /\ UNCHANGED <<sessions, read, answer, revoked, late>>

\* The expiry, then the age, both of the session as it was read.
Check(r) ==
    /\ pc[r] = "check"
    /\ LET expired == now > read[r].expires
           old     == Threshold > 0 /\ now - read[r].created > Threshold IN
       /\ To(r, IF expired THEN "delete" ELSE IF old /\ toucher THEN "touch" ELSE "load")
       /\ seenExpired' = IF expired THEN seenExpired \cup {token[r]} ELSE seenExpired
    /\ Untouched /\ UNCHANGED <<sessions, read, answer, revoked, late>>

\* An expired session is deleted, if that succeeds; the cookie is cleared.
DeleteExpired(r) ==
    /\ pc[r] = "delete"
    /\ sessions' \in {sessions, Without({token[r]})}
    /\ Answer(r, "anonymous")
    /\ Untouched /\ UNCHANGED <<read, revoked, late, seenExpired>>

\* Mutant: the extension writes the session, whether it is there or not.
TouchUpserts(r) ==
    /\ pc[r] = "touch"
    /\ sessions' = [j \in DOMAIN sessions \cup {token[r]} |->
                       IF j = token[r] THEN [read[r] EXCEPT !.expires = now + Duration] ELSE sessions[j]]
    /\ To(r, "load")
    /\ Untouched /\ UNCHANGED <<read, answer, revoked, late, seenExpired>>

\* Touch: a session that is gone stays gone; a failure is only logged.
Touch(r) ==
    /\ pc[r] = "touch"
    /\ \/ UNCHANGED sessions
       \/ /\ token[r] \in DOMAIN sessions
          /\ sessions' = [sessions EXCEPT ![token[r]].expires = now + Duration]
    /\ To(r, "load")
    /\ Untouched /\ UNCHANGED <<read, answer, revoked, late, seenExpired>>

\* WithSubjectLoader: an error, a subject that is gone, or the answer.
LoadSubject(r) ==
    /\ pc[r] = "load"
    /\ \/ Answer(r, IF Subject[token[r]] \in subjects THEN "subject" ELSE "anonymous")
       \/ Answer(r, "error")
    /\ Untouched /\ UNCHANGED <<sessions, read, revoked, late, seenExpired>>

TimePasses ==
    /\ now < MaxTime
    /\ now' = now + 1
    /\ UNCHANGED <<toucher, sessions, created, subjects, pc, token, read, answer, revoked, late, seenExpired>>

Validate(r) ==
    Begin(r) \/ Get(r) \/ Check(r) \/ DeleteExpired(r) \/ Touch(r) \/ LoadSubject(r)

Next ==
    \/ \E i \in Ids : CreateSession(i) \/ Logout({i})
    \/ \E s \in KnownSubjects :
           \/ RemoveSubject(s)
           \/ Logout({i \in created : Subject[i] = s})
    \/ \E r \in Requests : Validate(r)
    \/ TimePasses

(***************************************************************************)
(* Properties                                                              *)
(***************************************************************************)

\* A logout is final: the session is not in the store again, and no request that
\* begins after it is taken for the subject, however the extensions of others
\* interleave with it (ValidateSession, DeleteSession, DeleteSubjectSessions).
LogoutIsFinal ==
    /\ revoked \cap DOMAIN sessions = {}
    /\ \A r \in late : answer[r] # "subject"

\* Nobody is logged out before their time: the answer "nobody" means a logout, a
\* removed subject, or a session that a request has read after its expiry.  (Not
\* more than that: a session extended between such a read and its deletion is
\* deleted all the same.)
NotBeforeItsTime ==
    \A r \in Requests : answer[r] = "anonymous" =>
        token[r] \in revoked \cup seenExpired \/ Subject[token[r]] \notin subjects

Inv == TypeOK /\ LogoutIsFinal /\ NotBeforeItsTime
===============================================================================
