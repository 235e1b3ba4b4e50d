-------------------------- MODULE UploadAdmission --------------------------
(***************************************************************************)
(* How create_upload_session admits an upload: the project must be active, *)
(* the Idempotency-Key new or answered by the record of its first use, and *)
(* the organisation must have room for one more session and its bytes.     *)
(*                                                                         *)
(* A request is one transaction.  Its first statement updates the row of   *)
(* its user, so requests of one user run one after the other; the project  *)
(* is read without a lock; the row of the organisation is locked before    *)
(* its sessions are counted.  Projects are archived, restored and deleted  *)
(* by other requests meanwhile.                                            *)
(***************************************************************************)
EXTENDS Integers, FiniteSets

CONSTANTS
    Requests,      \* request handlers, several may run at once
    Projects,      \* the projects of one organisation
    Calls,         \* what clients ask for: [actor, project, key, body]
    SizeOf,        \* the size_bytes of each body
    MaxFile,       \* upload_max_file_bytes
    MaxActive,     \* upload_max_active_per_organization
    MaxReserved,   \* upload_max_reserved_bytes_per_organization
    None           \* no record, no answer

ASSUME CallsAssumption == \A c \in Calls : c.project \in Projects
ASSUME SizesAssumption == \A c \in Calls : SizeOf[c.body] \in Nat \ {0}
ASSUME LimitsAssumption == MaxFile \in Nat /\ MaxActive \in Nat /\ MaxReserved \in Nat

VARIABLES
    project,    \* the committed status of each project
    records,    \* the committed idempotency record of each scope, or None
    sessions,   \* the committed upload sessions
    pc,         \* how far the transaction of each request is
    call,       \* what each request asks for
    answer      \* what it was answered, None before

vars == <<project, records, sessions, pc, call, answer>>

----------------------------------------------------------------------------
(* The primary key of idempotency_records: the route names the project.    *)
Scope(c) == [actor |-> c.actor, project |-> c.project, key |-> c.key]
Scopes == {Scope(c) : c \in Calls}
Bodies == {c.body : c \in Calls}

(* A session is named by the scope that created it and how many that scope *)
(* had created before.                                                     *)
Id == [scope : Scopes, nth : Nat]
Session == [id : Id, body : Bodies, active : BOOLEAN]
Record == [body : Bodies, session : Id]

Refusals == {"PROJECT_ARCHIVED", "PROJECT_NOT_FOUND", "UPLOAD_TOO_LARGE",
             "IDEMPOTENCY_CONFLICT", "UPLOAD_CONCURRENCY_LIMIT", "QUOTA_EXCEEDED"}
Refused == [code : Refusals \cup {"lost"}]
Accepted == [code : {"created", "replayed"}, session : Id]

ASSUME NoneAssumption == None \notin Record /\ None \notin Accepted

InTransaction == {"authorized", "new", "locked", "admitted"}

(* Every variable has its type. *)
TypeOK ==
    /\ project \in [Projects -> {"ACTIVE", "ARCHIVED", "DELETED"}]
    /\ records \in [Scopes -> Record \cup {None}]
    /\ sessions \subseteq Session
    /\ pc \in [Requests -> {"idle", "asked"} \cup InTransaction]
    /\ call \in [Requests -> Calls]
    /\ answer \in [Requests -> Refused \cup Accepted \cup {None}]

Init ==
    /\ project = [p \in Projects |-> "ACTIVE"]
    /\ records = [s \in Scopes |-> None]
    /\ sessions = {}
    /\ pc = [r \in Requests |-> "idle"]
    /\ call \in [Requests -> Calls]
    /\ answer = [r \in Requests |-> None]

----------------------------------------------------------------------------
(* Row locks, held until the transaction ends.                             *)

(* Mutant: the user is read and not updated. *)
UserRowUnlocked(r) == TRUE

UserRowFree(r) ==
    \A other \in Requests \ {r} :
        pc[other] \in InTransaction => call[other].actor # call[r].actor

(* Mutant: the sessions are counted without the lock. *)
CountedWithoutLock(r) == TRUE

OrganizationRowFree(r) ==
    \A other \in Requests \ {r} : pc[other] \notin {"locked", "admitted"}

(* INSERT ... ON CONFLICT DO NOTHING waits for a transaction that has      *)
(* inserted the same key and not ended.                                    *)
KeyFree(r) ==
    \A other \in Requests \ {r} :
        pc[other] \in {"new", "locked", "admitted"} => Scope(call[other]) # Scope(call[r])

(* What _active_quota returns: the active sessions, and the sum of their   *)
(* sizes, which counts each byte of each of them.                          *)
Active == {s \in sessions : s.active}
Reserved == UNION {{s} \X (1..SizeOf[s.body]) : s \in Active}
ReservedBytes == Cardinality(Reserved)

Goto(r, label) == pc' = [pc EXCEPT ![r] = label]

(* The answer of a request that ends; a refusal rolls back its transaction. *)
Answer(r, a) ==
    /\ answer' = [answer EXCEPT ![r] = a]
    /\ Goto(r, "idle")
    /\ UNCHANGED <<project, call>>

Refuse(r, code) == Answer(r, [code |-> code]) /\ UNCHANGED <<records, sessions>>

----------------------------------------------------------------------------
(* A client asks, for the first time or again. *)
Ask(r, c) ==
    /\ pc[r] = "idle"
    /\ call' = [call EXCEPT ![r] = c]
    /\ answer' = [answer EXCEPT ![r] = None]
    /\ Goto(r, "asked")
    /\ UNCHANGED <<project, records, sessions>>

(* The user is synchronised, the project is read, the size is checked. *)
Authorize(r) ==
    /\ pc[r] = "asked"
    /\ UserRowFree(r)
    /\ LET status == project[call[r].project] IN
         \/ status = "DELETED" /\ Refuse(r, "PROJECT_NOT_FOUND")
         \/ status = "ARCHIVED" /\ Refuse(r, "PROJECT_ARCHIVED")
         \/ /\ status = "ACTIVE"
            /\ SizeOf[call[r].body] > MaxFile
            /\ Refuse(r, "UPLOAD_TOO_LARGE")
         \/ /\ status = "ACTIVE"
            /\ SizeOf[call[r].body] <= MaxFile
            /\ Goto(r, "authorized")
            /\ UNCHANGED <<project, records, sessions, call, answer>>

(* Mutant: the payload of the first use is not compared. *)
IdentifyByKeyOnly(r) ==
    /\ pc[r] = "authorized"
    /\ KeyFree(r)
    /\ LET record == records[Scope(call[r])] IN
         \/ /\ record = None
            /\ Goto(r, "new")
            /\ UNCHANGED <<project, records, sessions, call, answer>>
         \/ /\ record # None
            /\ Answer(r, [code |-> "replayed", session |-> record.session])
            /\ UNCHANGED <<records, sessions>>

(* Mutant: a record lapses when its session is over. *)
IdentifyUntilOver(r) ==
    /\ pc[r] = "authorized"
    /\ KeyFree(r)
    /\ LET record == records[Scope(call[r])]
           lapsed == \A s \in Active : s.id.scope # Scope(call[r]) IN
         \/ /\ lapsed
            /\ Goto(r, "new")
            /\ UNCHANGED <<project, records, sessions, call, answer>>
         \/ /\ ~lapsed
            /\ record.body # call[r].body
            /\ Refuse(r, "IDEMPOTENCY_CONFLICT")
         \/ /\ ~lapsed
            /\ record.body = call[r].body
            /\ Answer(r, [code |-> "replayed", session |-> record.session])
            /\ UNCHANGED <<records, sessions>>

(* begin_idempotent_command: the key is new, or its record answers. *)
Identify(r) ==
    /\ pc[r] = "authorized"
    /\ KeyFree(r)
    /\ LET record == records[Scope(call[r])] IN
         \/ /\ record = None
            /\ Goto(r, "new")
            /\ UNCHANGED <<project, records, sessions, call, answer>>
         \/ /\ record # None
            /\ record.body # call[r].body
            /\ Refuse(r, "IDEMPOTENCY_CONFLICT")
         \/ /\ record # None
            /\ record.body = call[r].body
            /\ Answer(r, [code |-> "replayed", session |-> record.session])
            /\ UNCHANGED <<records, sessions>>

LockOrganization(r) ==
    /\ pc[r] = "new"
    /\ OrganizationRowFree(r)
    /\ Goto(r, "locked")
    /\ UNCHANGED <<project, records, sessions, call, answer>>

(* Mutant: a request without room waits for it. *)
WaitForRoom(r) ==
    /\ pc[r] = "locked"
    /\ Cardinality(Active) < MaxActive
    /\ ReservedBytes + SizeOf[call[r].body] <= MaxReserved
    /\ Goto(r, "admitted")
    /\ UNCHANGED <<project, records, sessions, call, answer>>

ReadQuota(r) ==
    /\ pc[r] = "locked"
    /\ LET full == Cardinality(Active) >= MaxActive
           exceeded == ReservedBytes + SizeOf[call[r].body] > MaxReserved IN
         \/ full /\ Refuse(r, "UPLOAD_CONCURRENCY_LIMIT")
         \/ ~full /\ exceeded /\ Refuse(r, "QUOTA_EXCEEDED")
         \/ /\ ~full /\ ~exceeded
            /\ Goto(r, "admitted")
            /\ UNCHANGED <<project, records, sessions, call, answer>>

(* The session, its events and the completed record are committed at once. *)
Commit(r) ==
    /\ pc[r] = "admitted"
    /\ LET scope == Scope(call[r])
           id == [scope |-> scope,
                  nth |-> Cardinality({s \in sessions : s.id.scope = scope})] IN
         /\ sessions' = sessions \cup {[id |-> id, body |-> call[r].body, active |-> TRUE]}
         /\ records' = [records EXCEPT ![scope] = [body |-> call[r].body, session |-> id]]
         /\ Answer(r, [code |-> "created", session |-> id])

(* The process or the connection is lost before the transaction ends. *)
Abandon(r) == pc[r] \in InTransaction /\ Refuse(r, "lost")

----------------------------------------------------------------------------
(* The commit of archive_project, restore_project and delete_project: the  *)
(* version column makes the read and the write of the project one step.    *)

Archive(p) ==
    /\ project[p] # "DELETED"
    /\ project' = [project EXCEPT ![p] = "ARCHIVED"]
    /\ UNCHANGED <<records, sessions, pc, call, answer>>

Restore(p) ==
    /\ project[p] # "DELETED"
    /\ project' = [project EXCEPT ![p] = "ACTIVE"]
    /\ UNCHANGED <<records, sessions, pc, call, answer>>

Delete(p) ==
    /\ project[p] # "DELETED"
    /\ project' = [project EXCEPT ![p] = "DELETED"]
    /\ UNCHANGED <<records, sessions, pc, call, answer>>

(* A session reaches an outcome of UploadContract and reserves no more. *)
Release(s) ==
    /\ s.active
    /\ sessions' = (sessions \ {s}) \cup {[s EXCEPT !.active = FALSE]}
    /\ UNCHANGED <<project, records, pc, call, answer>>

Step(r) ==
    \/ Authorize(r)
    \/ Identify(r)
    \/ LockOrganization(r)
    \/ ReadQuota(r)
    \/ Commit(r)

Next ==
    \/ \E r \in Requests : Step(r) \/ Abandon(r) \/ \E c \in Calls : Ask(r, c)
    \/ \E p \in Projects : Archive(p) \/ Restore(p) \/ Delete(p)
    \/ \E s \in sessions : Release(s)

Spec == Init /\ [][Next]_vars

(* Waiters for a row lock are queued, so none is passed over for ever; the *)
(* other statements of a handler just run.  Nobody has to ask, or to       *)
(* finish an upload.                                                       *)
FairSpec == Spec /\ \A r \in Requests : SF_vars(Step(r))

----------------------------------------------------------------------------
(* However requests interleave, the active sessions of the organisation    *)
(* never exceed its number of sessions or its bytes: each commit follows   *)
(* the count that the lock on the organisation protects.                   *)
QuotaRespected ==
    /\ Cardinality(Active) <= MaxActive
    /\ ReservedBytes <= MaxReserved

(* A key creates at most one session, whatever is asked again, at once or  *)
(* after a lost answer, and a finished upload does not make the key new.   *)
OneSessionPerKey == \A s, t \in sessions : s.id.scope = t.id.scope => s = t

(* A record stands exactly for a committed session: a refused or lost      *)
(* request leaves its key free to be used again, and a used key can always *)
(* be answered.                                                            *)
RecordsNameSessions ==
    \A k \in Scopes :
        IF records[k] = None THEN \A s \in sessions : s.id.scope # k
        ELSE \E s \in sessions : /\ s.id = records[k].session
                                /\ s.id.scope = k
                                /\ s.body = records[k].body

(* Whoever is told of a session, by the request that made it or by a       *)
(* replay, asked for that session: same user, project, key and payload.    *)
AnswerMatchesCall ==
    \A r \in Requests :
        answer[r] \in Accepted =>
            \E s \in sessions : /\ s.id = answer[r].session
                                /\ s.id.scope = Scope(call[r])
                                /\ s.body = call[r].body

(* Requests in a transaction have different users, and one of them at most *)
(* has the row of the organisation.                                        *)
RowsHeldApart ==
    \A r, q \in Requests : r # q =>
        /\ pc[r] \in InTransaction /\ pc[q] \in InTransaction
             => call[r].actor # call[q].actor
        /\ pc[r] \in {"locked", "admitted"} => pc[q] \notin {"locked", "admitted"}

(* A key found new stays new until its transaction ends. *)
NewKeysStayNew ==
    \A r \in Requests :
        pc[r] \in {"new", "locked", "admitted"} => records[Scope(call[r])] = None

(* The number of sessions and their bytes: within the limits, and with     *)
(* room for a request that has been admitted.                              *)
RoomForAdmitted ==
    /\ IsFiniteSet(sessions) /\ IsFiniteSet(Reserved)
    /\ QuotaRespected
    /\ \A r \in Requests : pc[r] = "admitted" =>
          /\ Cardinality(Active) < MaxActive
          /\ ReservedBytes + SizeOf[call[r].body] <= MaxReserved

(* The inductive invariant: what the row locks and the order of the steps  *)
(* of a request keep true, and with it every safety property.              *)
IInv ==
    /\ TypeOK
    /\ RowsHeldApart
    /\ NewKeysStayNew
    /\ RoomForAdmitted
    /\ OneSessionPerKey
    /\ RecordsNameSessions
    /\ AnswerMatchesCall

(* No request waits for ever for the rows of its user and organisation. *)
EveryRequestEnds == \A r \in Requests : pc[r] # "idle" ~> pc[r] = "idle"

(* ADR-0005 on a write that races with archiving: the state at the commit  *)
(* decides, so no session is committed in a project that is not active.    *)
(* The code reads the project at the start and not again.                  *)
NoWriteAfterArchive ==
    [][\A s \in sessions' :
          s.id \notin {t.id : t \in sessions} => project[s.id.scope.project] = "ACTIVE"]_vars

============================================================================
