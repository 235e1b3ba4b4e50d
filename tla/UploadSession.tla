--------------------------- MODULE UploadSession ---------------------------
(***************************************************************************)
(* One upload session of the API: its row of upload_sessions, the rows of  *)
(* upload_parts and artifacts that refer to it, and the multipart uploads  *)
(* and the object that the object store holds under its object key.        *)
(*                                                                         *)
(* Several requests (sign, register, complete, cancel, get) and the        *)
(* maintenance worker work on the session at the same time.  A handler is  *)
(* cut into one action for each stretch between two points where another   *)
(* process can act: a row lock wait, a commit, or a call of the store.     *)
(* A transaction that has not committed is invisible to the others, so its *)
(* effects appear in the action of its COMMIT; a handler that fails before *)
(* rolls back and leaves only what it did to the store.                    *)
(***************************************************************************)
EXTENDS Integers, FiniteSets, FiniteSetsExt

CONSTANTS
    Requests,      \* concurrent API requests, each of an actor of its own
    Maintenance,   \* the maintenance worker (one, by its advisory lock)
    UploadIds,     \* multipart identifiers the store can hand out
    PartNumbers,   \* part numbers a client may register
    Etags,         \* (etag, size) pairs a part can be registered with
    PartSize,      \* size_bytes of each part
    ExpectedSize,  \* expected_size of the session
    MaxFaults,     \* bound on storage faults and crashes
    None           \* SQL NULL, a missing row, no process

(* The object's bytes, as far as verification can tell them apart: they    *)
(* have the declared size and SHA-256, or not.  The artifact's status is   *)
(* the verdict.                                                            *)
Contents == {"match", "mismatch"}
Verdicts == {"AVAILABLE", "QUARANTINED"}

ASSUME ProcessAssumption == Maintenance \notin Requests
ASSUME NoneAssumption ==
    None \notin Requests \cup {Maintenance} \cup UploadIds \cup Etags
                \cup Contents \cup Verdicts
ASSUME SizeAssumption == ExpectedSize \in Nat \ {0}
ASSUME FaultAssumption == MaxFaults \in Nat

VARIABLES
    row,         \* the committed row of upload_sessions
    parts,       \* committed rows of upload_parts, by part number
    artifact,    \* status of the row of artifacts, None when there is none
    outbox,      \* types of the outbox events committed for the session
    lock,        \* the process holding the row with SELECT ... FOR UPDATE
    remote,      \* the store's multipart uploads for the object key
    object,      \* the store's object under the object key
    late,        \* calls given up by the adapter that may still take effect
    pc,          \* where each process is in its handler
    mem,         \* each process's copy of the row (the ORM instance)
    local,       \* what the last store call returned to the process
    ttlPassed,   \* expires_at <= now
    backoff,     \* cleanup_next_attempt_at > now
    faults,      \* storage faults and crashes still allowed
    answer       \* the response sent in the last step, if any

vars == <<row, parts, artifact, outbox, lock, remote, object, late, pc, mem,
          local, ttlPassed, backoff, faults, answer>>

database == <<row, parts, artifact, outbox>>
store    == <<remote, object, late>>
clock    == <<ttlPassed, backoff>>

Processes == Requests \cup {Maintenance}

----------------------------------------------------------------------------
(* Statuses of the domain.                                                 *)

Active   == {"PENDING_UPLOAD", "UPLOADING", "COMPLETING"}
Terminal == {"COMPLETED", "ABORTED", "EXPIRED", "FAILED"}

Row == [status: Active \cup Terminal,
        storage_upload_id: UploadIds \cup {None},
        reserved_bytes: {0, ExpectedSize},
        version: Nat]

(* PartRegistered, Initialized, ... stand for the event types              *)
(* UploadPartRegistered.v1, UploadSessionMultipartInitialized.v1,          *)
(* UploadSessionCancelled.v1, UploadSessionExpired.v1, ArtifactVerified.v1 *)
(* and ArtifactQuarantined.v1.                                             *)
EventTypes == {"PartRegistered", "Initialized", "Cancelled", "Expired",
               "Verified", "Quarantined"}

Calls == [call: {"complete", "abort"}, id: UploadIds]

RequestPoints == {"get_expire", "sign_start", "sign_commit",
    "register_expire", "register_insert", "complete_relock",
    "complete_remote", "complete_verify", "complete_commit",
    "cancel_expire", "cancel_abort", "cancel_commit"}
MaintenancePoints == {"maint_expire", "maint_abort", "maint_reread",
    "maint_clear", "maint_fail", "maint_record"}

Operations == {"get", "sign", "register", "complete", "cancel"}
Codes == {"ok", "replay", "conflict", "expired", "missing", "mismatch",
          "unavailable", "error"}

(* What an idle process holds of the row: nothing. *)
NoCopy == [status |-> "PENDING_UPLOAD", storage_upload_id |-> None,
           reserved_bytes |-> 0, version |-> 0]

(* Every variable has its type: in particular each copy a handler may      *)
(* write back is a row, and an artifact is published with a verdict, never *)
(* in the column's default VERIFYING.                                      *)
TypeOK ==
    /\ row \in Row
    /\ parts \in [PartNumbers -> Etags \cup {None}]
    /\ artifact \in Verdicts \cup {None}
    /\ outbox \subseteq EventTypes
    /\ lock \in Requests \cup {None}
    /\ remote \in [UploadIds -> {"unused", "open", "completed", "aborted"}]
    /\ object \in Contents \cup {None}
    /\ late \subseteq Calls
    /\ pc \in [Processes -> {"idle"} \cup RequestPoints \cup MaintenancePoints]
    /\ mem \in [Processes -> Row]
    /\ local \in [Processes -> UploadIds \cup Contents \cup {None}]
    /\ ttlPassed \in BOOLEAN
    /\ backoff \in BOOLEAN
    /\ faults \in 0 .. MaxFaults
    /\ answer \in [op: Operations, code: Codes] \cup {None}

(* The row as create_upload_session commits it. *)
Init ==
    /\ row = [status |-> "PENDING_UPLOAD", storage_upload_id |-> None,
              reserved_bytes |-> ExpectedSize, version |-> 1]
    /\ parts = [p \in PartNumbers |-> None]
    /\ artifact = None
    /\ outbox = {}
    /\ lock = None
    /\ remote = [u \in UploadIds |-> "unused"]
    /\ object = None
    /\ late = {}
    /\ pc = [p \in Processes |-> "idle"]
    /\ mem = [p \in Processes |-> NoCopy]
    /\ local = [p \in Processes |-> None]
    /\ ttlPassed = FALSE
    /\ backoff = FALSE
    /\ faults = MaxFaults
    /\ answer = None

----------------------------------------------------------------------------
(* Transactions.                                                           *)

RowUnlocked == TRUE

(* A statement that writes or locks the row waits while another process    *)
(* holds it FOR UPDATE.                                                    *)
RowFree == lock = None

FreshUnversioned(p) == TRUE

(* UPDATE ... WHERE id = :id AND version = :loaded matches the row: it has *)
(* not changed since p loaded its copy (otherwise StaleDataError).         *)
Fresh(p) == row.version = mem[p].version

(* An UPDATE writes the columns that changed and increments the version    *)
(* (version_id_col).                                                       *)
Update(new) == row' = [new EXCEPT !.version = row.version + 1]

Load(p, point) ==
    /\ mem' = [mem EXCEPT ![p] = row]
    /\ pc' = [pc EXCEPT ![p] = point]
    /\ answer' = None
    /\ UNCHANGED local

Goto(p, point) ==
    /\ pc' = [pc EXCEPT ![p] = point]
    /\ answer' = None
    /\ UNCHANGED mem

(* The end of a handler: its transaction is over, its row lock released. *)
End(p) ==
    /\ pc' = [pc EXCEPT ![p] = "idle"]
    /\ mem' = [mem EXCEPT ![p] = NoCopy]
    /\ local' = [local EXCEPT ![p] = None]
    /\ lock' = IF lock = p THEN None ELSE lock

Reply(p, op, code) ==
    /\ End(p)
    /\ answer' = [op |-> op, code |-> code]

(* One storage fault (timeout, 5xx, a lost answer) or crash. *)
Fault == faults > 0 /\ faults' = faults - 1

(* _expire_if_needed: the status and the clock make the row expire. *)
expire_if_needed(r) == r.status \in Active /\ ttlPassed

ReleasedLate(r, status) == [r EXCEPT !.status = status]

(* Leaving the active statuses gives the reservation back. *)
Released(r, status) == [r EXCEPT !.status = status, !.reserved_bytes = 0]

(* The UPDATE of a handler that loaded the row without locking it: it      *)
(* waits for the row, succeeds when the copy is fresh, and fails with a    *)
(* StaleDataError (an unhandled 500) otherwise.                            *)
ExpireLoaded(p, op, code, events) ==
    /\ RowFree
    /\ \/ /\ Fresh(p)
          /\ Update(Released(row, "EXPIRED"))
          /\ outbox' = outbox \cup events
          /\ Reply(p, op, code)
       \/ /\ ~Fresh(p)
          /\ Reply(p, op, "error")
          /\ UNCHANGED <<row, outbox>>
    /\ UNCHANGED <<parts, artifact, store, clock, faults>>

(* The expiry of a handler that holds the row locked, with no event.       *)
ExpireLocked(p, op) ==
    /\ expire_if_needed(row)
    /\ Update(Released(row, "EXPIRED"))
    /\ Reply(p, op, "expired")
    /\ UNCHANGED <<parts, artifact, outbox, store, clock, faults>>

----------------------------------------------------------------------------
(* get_upload_session                                                      *)

GetRead(r) ==
    /\ pc[r] = "idle"
    /\ \/ /\ expire_if_needed(row)
          /\ Load(r, "get_expire")
          /\ UNCHANGED lock
       \/ /\ ~expire_if_needed(row)
          /\ Reply(r, "get", "ok")
    /\ UNCHANGED <<database, store, clock, faults>>

GetExpire(r) ==
    /\ pc[r] = "get_expire"
    /\ ExpireLoaded(r, "get", "ok", {"Expired"})

----------------------------------------------------------------------------
(* sign_upload_parts.  The row stays locked while the store starts the     *)
(* multipart upload.  Presigning changes nothing, in the store or in the   *)
(* database, and is part of the last action.                               *)

SignLock(r) ==
    /\ pc[r] = "idle"
    /\ RowFree
    /\ \/ ExpireLocked(r, "sign")
       \/ /\ ~expire_if_needed(row)
          /\ row.status = "PENDING_UPLOAD"
          /\ Load(r, "sign_start")
          /\ lock' = r
          /\ UNCHANGED <<database, store, clock, faults>>
       \/ /\ ~expire_if_needed(row)
          /\ row.status # "PENDING_UPLOAD"
          /\ Reply(r, "sign", IF row.status = "UPLOADING" THEN "ok" ELSE "conflict")
          /\ UNCHANGED <<database, store, clock, faults>>

SignStart(r) ==
    /\ pc[r] = "sign_start"
    /\ \E u \in UploadIds :
         /\ remote[u] = "unused"
         /\ remote' = [remote EXCEPT ![u] = "open"]
         /\ local' = [local EXCEPT ![r] = u]
    /\ Goto(r, "sign_commit")
    /\ UNCHANGED <<database, lock, object, late, clock, faults>>

(* The call fails.  The store may have started an upload whose identifier  *)
(* never arrives; the adapter then tries again or gives up.                *)
SignStartFault(r) ==
    /\ pc[r] = "sign_start"
    /\ Fault
    /\ \/ UNCHANGED remote
       \/ \E u \in UploadIds :
            /\ remote[u] = "unused"
            /\ remote' = [remote EXCEPT ![u] = "open"]
    /\ \/ Goto(r, "sign_start") /\ UNCHANGED <<local, lock>>
       \/ Reply(r, "sign", "unavailable")
    /\ UNCHANGED <<database, object, late, clock>>

SignCommit(r) ==
    /\ pc[r] = "sign_commit"
    /\ Update([row EXCEPT !.status = "UPLOADING",
                          !.storage_upload_id = local[r]])
    /\ outbox' = outbox \cup {"Initialized"}
    /\ Reply(r, "sign", "ok")
    /\ UNCHANGED <<parts, artifact, store, clock, faults>>

----------------------------------------------------------------------------
(* register_upload_part.  The status is read without a lock; the INSERT    *)
(* comes later.  Its foreign key check takes the row FOR KEY SHARE, which  *)
(* waits for a FOR UPDATE but does not look at the status again.  A part   *)
(* that is there is compared with the submitted one if the lookup found    *)
(* it, and fails the INSERT (an unhandled IntegrityError) if it did not.   *)

RegisterRead(r) ==
    /\ pc[r] = "idle"
    /\ \/ /\ expire_if_needed(row)
          /\ Load(r, "register_expire")
          /\ UNCHANGED lock
       \/ /\ ~expire_if_needed(row)
          /\ row.status = "UPLOADING"
          /\ Load(r, "register_insert")
          /\ UNCHANGED lock
       \/ /\ ~expire_if_needed(row)
          /\ row.status # "UPLOADING"
          /\ Reply(r, "register", "conflict")
    /\ UNCHANGED <<database, store, clock, faults>>

RegisterExpire(r) ==
    /\ pc[r] = "register_expire"
    /\ ExpireLoaded(r, "register", "expired", {})

(* INSERT into upload_parts: the primary key refuses a second row. *)
InsertPart(p, e) == parts[p] = None /\ parts' = [parts EXCEPT ![p] = e]

RegisterInsert(r) ==
    /\ pc[r] = "register_insert"
    /\ RowFree
    /\ \E p \in PartNumbers, e \in Etags :
         \/ /\ InsertPart(p, e)
            /\ outbox' = outbox \cup {"PartRegistered"}
            /\ Reply(r, "register", "ok")
         \/ /\ parts[p] # None
            /\ \E code \in {IF parts[p] = e THEN "ok" ELSE "conflict", "error"} :
                 Reply(r, "register", code)
            /\ UNCHANGED <<parts, outbox>>
    /\ UNCHANGED <<row, artifact, store, clock, faults>>

----------------------------------------------------------------------------
(* complete_upload_session                                                 *)

Registered == {p \in PartNumbers : parts[p] # None}

(* The submitted list is the registered one and the sizes add up. *)
PartListMatches(submitted) ==
    /\ submitted = parts
    /\ MapThenSumSet(LAMBDA p : PartSize[p], Registered) = ExpectedSize

(* Checked by both transactions of the handler: another request has        *)
(* published the artifact.                                                 *)
AlreadyPublished == row.status = "COMPLETED" /\ artifact # None

(* The first transaction: replay, refuse, or commit the COMPLETING         *)
(* checkpoint.  A session that is COMPLETING already keeps its lock and    *)
(* goes straight to the store.                                             *)
CompleteLock(r) ==
    /\ pc[r] = "idle"
    /\ RowFree
    /\ \/ /\ AlreadyPublished
          /\ Reply(r, "complete", "replay")
          /\ UNCHANGED <<database, store, clock, faults>>
       \/ ExpireLocked(r, "complete")
       \/ /\ ~AlreadyPublished
          /\ ~expire_if_needed(row)
          /\ \E submitted \in [PartNumbers -> Etags \cup {None}] :
               LET accepted == /\ row.status \in {"UPLOADING", "COMPLETING"}
                               /\ row.storage_upload_id # None
                               /\ PartListMatches(submitted)
               IN \/ /\ ~accepted
                     /\ Reply(r, "complete", "conflict")
                     /\ UNCHANGED row
                  \/ /\ accepted
                     /\ row.status = "UPLOADING"
                     /\ Update([row EXCEPT !.status = "COMPLETING"])
                     /\ Goto(r, "complete_relock")
                     /\ UNCHANGED <<local, lock>>
                  \/ /\ accepted
                     /\ row.status = "COMPLETING"
                     /\ Load(r, "complete_remote")
                     /\ lock' = r
                     /\ UNCHANGED row
          /\ UNCHANGED <<parts, artifact, outbox, store, clock, faults>>

(* The second transaction locks the row again and looks only for a         *)
(* published artifact, not for an expiry that came in between.             *)
CompleteRelock(r) ==
    /\ pc[r] = "complete_relock"
    /\ RowFree
    /\ \/ AlreadyPublished /\ Reply(r, "complete", "replay")
       \/ /\ ~AlreadyPublished
          /\ Load(r, "complete_remote")
          /\ lock' = r
    /\ UNCHANGED <<database, store, clock, faults>>

(* The store assembles the object from the parts it received; nobody but   *)
(* the client knows whether they are the declared bytes.                   *)
StoreComplete(u) ==
    /\ remote[u] = "open"
    /\ remote' = [remote EXCEPT ![u] = "completed"]
    /\ object' \in Contents

(* The store has no upload under that identifier (NoSuchUpload, 404); a    *)
(* cleared storage_upload_id gets the same answer.                         *)
NotFound(u) == u = None \/ u \in {v \in UploadIds : remote[v] # "open"}

CompleteRemote(r) ==
    /\ pc[r] = "complete_remote"
    /\ \/ /\ mem[r].storage_upload_id \in UploadIds
          /\ StoreComplete(mem[r].storage_upload_id)
          /\ Goto(r, "complete_verify")
          /\ UNCHANGED <<local, lock>>
       \/ /\ NotFound(mem[r].storage_upload_id)
          /\ \/ /\ object # None
                /\ Goto(r, "complete_verify")
                /\ UNCHANGED <<local, lock>>
             \/ /\ object = None
                /\ Reply(r, "complete", "missing")
          /\ UNCHANGED <<remote, object>>
    /\ UNCHANGED <<database, late, clock, faults>>

(* The call or the head that follows it fails: the completion may have     *)
(* been applied, or not, or be applied later.                              *)
CompleteRemoteFault(r) ==
    /\ pc[r] = "complete_remote"
    /\ Fault
    /\ \/ /\ NotFound(mem[r].storage_upload_id)
          /\ \E code \in {"missing", "unavailable"} : Reply(r, "complete", code)
          /\ UNCHANGED store
       \/ /\ mem[r].storage_upload_id \in UploadIds
          /\ remote[mem[r].storage_upload_id] = "open"
          /\ Reply(r, "complete", "unavailable")
          /\ \/ UNCHANGED store
             \/ /\ late' = late \cup {[call |-> "complete", id |-> mem[r].storage_upload_id]}
                /\ UNCHANGED <<remote, object>>
             \/ /\ StoreComplete(mem[r].storage_upload_id)
                /\ UNCHANGED late
    /\ UNCHANGED <<database, clock>>

(* verify_object: head, then the whole object is streamed and hashed.  The *)
(* object cannot be gone: maintenance deletes no object whose key an       *)
(* upload session has, unless its artifact is DELETING.                    *)
CompleteVerify(r) ==
    /\ pc[r] = "complete_verify"
    /\ \/ /\ local' = [local EXCEPT ![r] = object]
          /\ Goto(r, "complete_commit")
          /\ UNCHANGED <<lock, faults>>
       \/ /\ Fault
          /\ Reply(r, "complete", "unavailable")
    /\ UNCHANGED <<database, store, clock>>

VerdictUnchecked(content) == "AVAILABLE"

Verdict(content) == IF content = "match" THEN "AVAILABLE" ELSE "QUARANTINED"

(* The second COMMIT: the artifact, the session and the event. *)
CompleteCommit(r) ==
    /\ pc[r] = "complete_commit"
    /\ artifact = None                       \* uq_artifacts_upload_session_id
    /\ artifact' = Verdict(local[r])
    /\ Update(Released(row, "COMPLETED"))
    /\ outbox' = outbox \cup
         {IF Verdict(local[r]) = "AVAILABLE" THEN "Verified" ELSE "Quarantined"}
    /\ Reply(r, "complete", IF Verdict(local[r]) = "AVAILABLE" THEN "ok" ELSE "mismatch")
    /\ UNCHANGED <<parts, store, clock, faults>>

----------------------------------------------------------------------------
(* cancel_upload_session.  The row is read without a lock and the remote   *)
(* upload is aborted before the UPDATE, whose version check decides.  The  *)
(* idempotency key of a cancel is a new one: with a used one it is         *)
(* replayed or refused, and changes nothing.                               *)

CancelAnything(status) == TRUE

require_upload_session_cancellable(status) ==
    status \in {"PENDING_UPLOAD", "UPLOADING", "ABORTED"}

CancelRead(r) ==
    /\ pc[r] = "idle"
    /\ \/ /\ expire_if_needed(row)
          /\ Load(r, "cancel_expire")
          /\ UNCHANGED lock
       \/ /\ ~expire_if_needed(row)
          /\ require_upload_session_cancellable(row.status)
          /\ Load(r, IF row.storage_upload_id = None THEN "cancel_commit"
                                                     ELSE "cancel_abort")
          /\ UNCHANGED lock
       \/ /\ ~expire_if_needed(row)
          /\ ~require_upload_session_cancellable(row.status)
          /\ Reply(r, "cancel", "conflict")
    /\ UNCHANGED <<database, store, clock, faults>>

CancelExpire(r) ==
    /\ pc[r] = "cancel_expire"
    /\ ExpireLoaded(r, "cancel", "ok", {"Expired"})

StoreAbort(u) ==
    /\ remote[u] = "open"
    /\ remote' = [remote EXCEPT ![u] = "aborted"]

(* Any error of the abort is a failure, NOT_FOUND included. *)
CancelAbort(r) ==
    /\ pc[r] = "cancel_abort"
    /\ \/ /\ StoreAbort(mem[r].storage_upload_id)
          /\ Goto(r, "cancel_commit")
          /\ UNCHANGED <<local, lock>>
       \/ /\ NotFound(mem[r].storage_upload_id)
          /\ Reply(r, "cancel", "unavailable")
          /\ UNCHANGED remote
    /\ UNCHANGED <<database, object, late, clock, faults>>

(* A failing abort may have been applied, or not, or be applied later. *)
AbortFault(u) ==
    /\ Fault
    /\ \/ UNCHANGED <<remote, late>>
       \/ StoreAbort(u) /\ UNCHANGED late
       \/ /\ late' = late \cup {[call |-> "abort", id |-> u]}
          /\ UNCHANGED remote
    /\ UNCHANGED object

CancelAbortFault(r) ==
    /\ pc[r] = "cancel_abort"
    /\ AbortFault(mem[r].storage_upload_id)
    /\ Reply(r, "cancel", "unavailable")
    /\ UNCHANGED <<database, clock>>

(* Cancelling a session that was ABORTED when it was read changes no       *)
(* column, so no UPDATE and no version check; the event is emitted again.  *)
CancelCommit(r) ==
    /\ pc[r] = "cancel_commit"
    /\ \/ /\ mem[r].status = "ABORTED"
          /\ outbox' = outbox \cup {"Cancelled"}
          /\ Reply(r, "cancel", "ok")
          /\ UNCHANGED row
       \/ /\ mem[r].status # "ABORTED"
          /\ RowFree
          /\ Fresh(r)
          /\ Update(Released(row, "ABORTED"))
          /\ outbox' = outbox \cup {"Cancelled"}
          /\ Reply(r, "cancel", "ok")
       \/ /\ mem[r].status # "ABORTED"
          /\ RowFree
          /\ ~Fresh(r)
          /\ Reply(r, "cancel", "error")
          /\ UNCHANGED <<row, outbox>>
    /\ UNCHANGED <<parts, artifact, store, clock, faults>>

----------------------------------------------------------------------------
(* ArtifactMaintenanceService._expire_sessions, for this session's row.    *)

SelectedTerminalOnly ==
    row.status \in {"EXPIRED", "ABORTED", "FAILED"} /\ row.storage_upload_id # None /\ ~backoff
SelectedActiveOnly == row.status \in Active /\ ttlPassed /\ ~backoff

(* Overdue active sessions, and finished ones with an upload to clean up.  *)
Selected ==
    /\ \/ row.status \in Active /\ ttlPassed
       \/ /\ row.status \in {"EXPIRED", "ABORTED", "FAILED"}
          /\ row.storage_upload_id # None
    /\ ~backoff

MaintSelect ==
    /\ pc[Maintenance] = "idle"
    /\ Selected
    /\ Load(Maintenance, IF row.status \in Active THEN "maint_expire" ELSE "maint_abort")
    /\ UNCHANGED <<database, lock, store, clock, faults>>

(* A stale copy fails the whole pass; the next one starts over. *)
MaintExpire ==
    /\ pc[Maintenance] = "maint_expire"
    /\ RowFree
    /\ \/ /\ Fresh(Maintenance)
          /\ Update(Released(row, "EXPIRED"))
          /\ outbox' = outbox \cup {"Expired"}
          /\ IF mem[Maintenance].storage_upload_id = None
             THEN End(Maintenance) /\ answer' = None
             ELSE Goto(Maintenance, "maint_abort") /\ UNCHANGED <<local, lock>>
       \/ /\ ~Fresh(Maintenance)
          /\ End(Maintenance) /\ answer' = None
          /\ UNCHANGED <<row, outbox>>
    /\ UNCHANGED <<parts, artifact, store, clock, faults>>

(* NOT_FOUND counts as success here. *)
MaintAbort ==
    /\ pc[Maintenance] = "maint_abort"
    /\ \/ StoreAbort(mem[Maintenance].storage_upload_id)
       \/ NotFound(mem[Maintenance].storage_upload_id) /\ UNCHANGED remote
    /\ Goto(Maintenance, "maint_reread")
    /\ UNCHANGED <<database, lock, local, object, late, clock, faults>>

MaintAbortFault ==
    /\ pc[Maintenance] = "maint_abort"
    /\ AbortFault(mem[Maintenance].storage_upload_id)
    /\ Goto(Maintenance, "maint_fail")
    /\ UNCHANGED <<database, lock, local, clock>>

(* The row is read again, and forgets the identifier if it still has it;   *)
(* a row that changes in between fails the pass.                           *)
MaintReread ==
    /\ pc[Maintenance] = "maint_reread"
    /\ \/ /\ row.storage_upload_id = mem[Maintenance].storage_upload_id
          /\ Load(Maintenance, "maint_clear")
          /\ UNCHANGED lock
       \/ /\ row.storage_upload_id # mem[Maintenance].storage_upload_id
          /\ End(Maintenance) /\ answer' = None
    /\ UNCHANGED <<database, store, clock, faults>>

MaintClear ==
    /\ pc[Maintenance] = "maint_clear"
    /\ RowFree
    /\ \/ /\ Fresh(Maintenance)
          /\ Update([row EXCEPT !.storage_upload_id = None])
          /\ backoff' = FALSE
       \/ ~Fresh(Maintenance) /\ UNCHANGED <<row, backoff>>
    /\ End(Maintenance) /\ answer' = None
    /\ UNCHANGED <<parts, artifact, outbox, store, ttlPassed, faults>>

(* _record_upload_failure: the row is read again and told when to retry.   *)
MaintFail ==
    /\ pc[Maintenance] = "maint_fail"
    /\ Load(Maintenance, "maint_record")
    /\ UNCHANGED <<database, lock, store, clock, faults>>

MaintRecord ==
    /\ pc[Maintenance] = "maint_record"
    /\ RowFree
    /\ \/ /\ Fresh(Maintenance)
          /\ Update(row)
          /\ backoff' = TRUE
       \/ ~Fresh(Maintenance) /\ UNCHANGED <<row, backoff>>
    /\ End(Maintenance) /\ answer' = None
    /\ UNCHANGED <<parts, artifact, outbox, store, ttlPassed, faults>>

----------------------------------------------------------------------------
(* The environment.                                                        *)

(* The process dies or its connection does: its transaction rolls back.    *)
Crash(p) ==
    /\ pc[p] # "idle"
    /\ Fault
    /\ End(p)
    /\ answer' = None
    /\ UNCHANGED <<database, store, clock>>

(* A call the adapter gave up on reaches the store after all. *)
LateCall ==
    /\ \E c \in late :
         /\ late' = late \ {c}
         /\ \/ /\ c.call = "complete"
               /\ StoreComplete(c.id)
            \/ /\ c.call = "abort"
               /\ StoreAbort(c.id)
               /\ UNCHANGED object
            \/ /\ remote[c.id] # "open"
               /\ UNCHANGED <<remote, object>>
    /\ answer' = None
    /\ UNCHANGED <<database, lock, pc, mem, local, clock, faults>>

TtlPasses ==
    /\ ~ttlPassed
    /\ ttlPassed' = TRUE
    /\ answer' = None
    /\ UNCHANGED <<database, lock, store, pc, mem, local, backoff, faults>>

BackoffElapses ==
    /\ backoff
    /\ backoff' = FALSE
    /\ answer' = None
    /\ UNCHANGED <<database, lock, store, pc, mem, local, ttlPassed, faults>>

(* The steps of a handler that has begun; the first step of each is the    *)
(* client's choice.                                                        *)
Continue(r) ==
    \/ GetExpire(r) \/ SignStart(r) \/ SignStartFault(r) \/ SignCommit(r)
    \/ RegisterExpire(r) \/ RegisterInsert(r)
    \/ CompleteRelock(r) \/ CompleteRemote(r) \/ CompleteRemoteFault(r)
    \/ CompleteVerify(r) \/ CompleteCommit(r)
    \/ CancelExpire(r) \/ CancelAbort(r) \/ CancelAbortFault(r) \/ CancelCommit(r)

Begin(r) ==
    GetRead(r) \/ SignLock(r) \/ RegisterRead(r) \/ CompleteLock(r) \/ CancelRead(r)

Maintain ==
    \/ MaintSelect \/ MaintExpire \/ MaintAbort \/ MaintAbortFault
    \/ MaintReread \/ MaintClear \/ MaintFail \/ MaintRecord

Next ==
    \/ \E r \in Requests : Begin(r) \/ Continue(r)
    \/ Maintain
    \/ \E p \in Processes : Crash(p)
    \/ LateCall \/ TtlPasses \/ BackoffElapses

Spec == Init /\ [][Next]_vars

(* A handler that has begun goes on until it ends or dies; run_forever     *)
(* starts a maintenance pass again and again, and a failed pass does not   *)
(* stop it; time passes.  Clients are free to stop at any point.           *)
Fairness ==
    /\ \A r \in Requests : WF_vars(Continue(r))
    /\ WF_vars(Maintain)
    /\ WF_vars(TtlPasses)
    /\ WF_vars(BackoffElapses)

FairSpec == Spec /\ Fairness

----------------------------------------------------------------------------
(* Safety.                                                                 *)

(* The bytes the session holds against the organization's quota: all of    *)
(* them while it is active, none once it is not, whichever handler or      *)
(* maintenance pass took it out of the active statuses.                    *)
ReservationMatchesStatus ==
    row.reserved_bytes = IF row.status \in Active THEN ExpectedSize ELSE 0

(* A session is COMPLETED exactly when its artifact exists, and an         *)
(* artifact has the verdict of the bytes the store holds now: a retry, a   *)
(* lost answer or a completion applied late never puts other bytes under   *)
(* a published artifact.                                                   *)
ArtifactMatchesObject ==
    /\ (artifact # None) <=> (row.status = "COMPLETED")
    /\ artifact = "AVAILABLE" => object = "match"
    /\ artifact = "QUARANTINED" => object = "mismatch"

(* A cancelled session has left no multipart upload open in the store      *)
(* under the identifier it knows: cancel aborts what it read before the    *)
(* sign request that would have started an upload can commit.              *)
AbortedLeavesNothingOpen ==
    row.status = "ABORTED" =>
        \A u \in UploadIds : row.storage_upload_id = u => remote[u] # "open"

(* The events the outbox publishes agree with the session: a cancellation  *)
(* is announced if and only if it happened, a verdict likewise, and an     *)
(* expiry is announced only for a session that did expire.                 *)
OutboxAgrees ==
    /\ ("Cancelled" \in outbox) <=> (row.status = "ABORTED")
    /\ ("Verified" \in outbox) <=> (artifact = "AVAILABLE")
    /\ ("Quarantined" \in outbox) <=> (artifact = "QUARANTINED")
    /\ ("Expired" \in outbox) => (row.status \in {"EXPIRED", "COMPLETED"})

(* No step leads out of a terminal status back into an active one, and     *)
(* COMPLETED and ABORTED are left by no step at all: a cancellation racing *)
(* a completion loses or wins for good.                                    *)
OutcomeIsFinal ==
    [][/\ row.status \in Terminal => row'.status \in Terminal
       /\ row.status \in {"COMPLETED", "ABORTED"} => row'.status = row.status]_vars

(* The first registration of a part stands, however many requests register *)
(* it at the same time.                                                    *)
PartNeverRewritten ==
    [][\A p \in PartNumbers : parts[p] # None => parts'[p] = parts[p]]_vars

(* The contract of UploadContract: what the rest of the platform sees of a *)
(* session is one reservation and one outcome.                             *)
Outcome ==
    CASE row.status \in Active      -> "open"
      [] row.status = "ABORTED"     -> "cancelled"
      [] row.status = "EXPIRED"     -> "expired"
      [] row.status = "COMPLETED"   -> "published"
      [] OTHER                      -> "failed"

Contract == INSTANCE UploadContract
    WITH outcome <- Outcome, reserved <- row.reserved_bytes, verdict <- artifact

(* Every step of the handlers is a step of the contract or invisible.      *)
ContractHolds == Contract!Spec

----------------------------------------------------------------------------
(* The inductive invariant behind the safety properties.                   *)

(* A copy is never newer than the row, and one with the row's version is   *)
(* the row: what the version check of an UPDATE relies on.                 *)
CopiesAreVersioned ==
    /\ row.version > 0
    /\ \A p \in Processes :
         /\ mem[p].version <= row.version
         /\ mem[p].version = row.version => mem[p] = row
         /\ mem[p].status = "ABORTED" => row.status = "ABORTED"

(* A request holds the row at exactly these points, and then its copy is   *)
(* current.                                                                *)
LockedPoints == {"sign_start", "sign_commit",
                 "complete_remote", "complete_verify", "complete_commit"}

LockHeld ==
    \A r \in Requests :
        /\ (lock = r) <=> (pc[r] \in LockedPoints)
        /\ lock = r => mem[r] = row

(* Where a process has got to, and what it has seen on the way. *)
Progress(p) ==
    /\ pc[p] \in MaintenancePoints => p = Maintenance
    /\ pc[p] \in RequestPoints => p \in Requests
    /\ pc[p] \in {"get_expire", "register_expire", "cancel_expire", "maint_expire"}
         => mem[p].status \in Active
    /\ pc[p] \in {"sign_start", "sign_commit"} => mem[p].status = "PENDING_UPLOAD"
    /\ pc[p] = "sign_commit" =>
         local[p] \in UploadIds /\ remote[local[p]] = "open"
    /\ pc[p] = "complete_relock" =>
         row.status \in {"COMPLETING", "EXPIRED", "COMPLETED"}
    /\ pc[p] \in {"complete_remote", "complete_verify", "complete_commit"} =>
         row.status \in {"COMPLETING", "EXPIRED"}
    /\ pc[p] \in {"complete_verify", "complete_commit"} => object # None
    /\ pc[p] = "complete_commit" => local[p] = object
    /\ pc[p] \in {"cancel_abort", "maint_abort"} =>
         mem[p].storage_upload_id # None
    /\ pc[p] \in {"cancel_abort", "cancel_commit"} =>
         mem[p].status \in {"PENDING_UPLOAD", "UPLOADING", "ABORTED"}
    /\ pc[p] = "cancel_commit" =>
         \A u \in UploadIds : mem[p].storage_upload_id = u =>
                               remote[u] \in {"completed", "aborted"}

(* The identifiers that a handler or a late call can still use. *)
Known(u) ==
    \/ row.storage_upload_id = u
    \/ \E p \in Processes : mem[p].storage_upload_id = u
    \/ \E c \in late : c.id = u

(* There is one at most, the store has started it, and once the object     *)
(* exists it is closed: no call can replace the object.                    *)
OneKnownUpload ==
    /\ row.status = "PENDING_UPLOAD" =>
         object = None /\ \A u \in UploadIds : ~Known(u)
    /\ \A u, v \in UploadIds : Known(u) /\ Known(v) => u = v
    /\ \A u \in UploadIds : Known(u) =>
         /\ remote[u] # "unused"
         /\ object # None => remote[u] # "open"

(* The strengthening of the safety invariants that every step preserves:   *)
(* row locks and version checks are what keeps the handlers apart.         *)
IInv ==
    /\ TypeOK
    /\ ReservationMatchesStatus
    /\ CopiesAreVersioned
    /\ LockHeld
    /\ \A p \in Processes : Progress(p)
    /\ OneKnownUpload
    /\ ArtifactMatchesObject
    /\ AbortedLeavesNothingOpen
    /\ OutboxAgrees

----------------------------------------------------------------------------
(* Liveness, under FairSpec.                                               *)

(* The quota a session holds is given back in the end, by its handlers or  *)
(* by maintenance, whatever fails on the way.                              *)
ReservationReleased == row.reserved_bytes # 0 ~> row.reserved_bytes = 0

(* A multipart upload whose identifier reached the row does not stay open  *)
(* for ever: it is completed, cancelled, or aborted by maintenance.        *)
KnownMultipartReclaimed ==
    \A u \in UploadIds : (row.storage_upload_id = u) ~> (remote[u] # "open")

----------------------------------------------------------------------------
(* What the documents say and the code does not keep.                      *)

(* ADR-0006: EXPIRED is a terminal status.                                 *)
ExpiredIsFinal ==
    [][row.status = "EXPIRED" => row'.status = "EXPIRED"]_vars

(* M2-04: a session in a terminal status refuses further registrations.    *)
NoPartAfterTerminal ==
    [][row.status \in Terminal => parts' = parts]_vars

(* M2-04: cancel aborts the remote upload idempotently, so without a       *)
(* storage fault it does not fail with STORAGE_UNAVAILABLE.                *)
CancelIsIdempotent ==
    answer = [op |-> "cancel", code |-> "unavailable"] => faults < MaxFaults

(* Design 06: an upload the store started and the database did not save is *)
(* cleaned up.                                                             *)
EveryMultipartReclaimed ==
    \A u \in UploadIds : (remote[u] = "open") ~> (remote[u] # "open")

============================================================================
