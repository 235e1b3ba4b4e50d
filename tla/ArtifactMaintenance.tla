------------------------ MODULE ArtifactMaintenance ------------------------
(***************************************************************************)
(* The life of published artifacts and of their objects: requests delete   *)
(* them, and the maintenance worker removes what was deleted, looks for    *)
(* objects that are missing, and removes objects nothing refers to.        *)
(*                                                                         *)
(* An object key names an upload session, the artifact it published and    *)
(* the object in the store.  What happens to the session itself is left to *)
(* UploadContract, which UploadSession implements.  A pass of maintenance  *)
(* is cut into one action for each call of the store and each transaction; *)
(* requests act between any two of them.  Passes do not overlap, which     *)
(* MaintenanceRunner shows of workers that keep their connections.         *)
(***************************************************************************)
EXTENDS Integers, FiniteSets

CONSTANTS
    Keys,        \* object keys, numbered in the order the store lists them
    Requests,    \* clients that delete artifacts
    BatchSize,   \* rows or objects handled by one phase of a pass
    MaxFaults,   \* bound on storage faults, lost objects and failed passes
    None         \* no artifact, no event

ASSUME KeysAssumption == Keys \subseteq Nat
ASSUME BatchAssumption == BatchSize \in Nat \ {0}
ASSUME FaultAssumption == MaxFaults \in Nat

VARIABLES
    session,     \* how the upload session of a key stands, "none": no row
    completing,  \* keys whose session has a handler about to publish
    artifact,    \* the committed row of artifacts of a key, or None
    older,       \* pairs of artifacts, the first with the older updated_at
    backoff,     \* keys whose cleanup_next_attempt_at > now
    outbox,      \* committed outbox events; equal ones are one
    objects,     \* keys with an object in the store
    recent,      \* objects within the protection window
    late,        \* deletions given up by the adapter that may still happen
    point,       \* where the maintenance pass is
    work,        \* what its present phase has not handled yet
    current,     \* the item it is handling
    copy,        \* the row it has read again
    seen,        \* the ETag each client holds
    reading,     \* the row a delete request has read, None when there is none
    faults       \* faults still allowed

vars == <<session, completing, artifact, older, backoff, outbox,
          objects, recent, late, point, work, current, copy, seen, reading, faults>>

uploads == <<session, completing>>
rows    == <<artifact, older, backoff, outbox>>
store   == <<objects, recent, late>>
pass    == <<point, work, current, copy>>
clients == <<seen, reading>>

----------------------------------------------------------------------------
Outcomes == {"none", "open", "cancelled", "expired", "published"}
Verdicts == {"AVAILABLE", "QUARANTINED"}
Statuses == Verdicts \cup {"FAILED", "DELETING", "DELETED"}

Artifact == [status: Statuses, version: Nat]
Tag == [key: Keys, version: Nat]
Reading == [key: Keys, status: Statuses, version: Nat]

(* Requested, Deleted, Missing and Orphan stand for the event types        *)
(* ArtifactDeletionRequested.v1, ArtifactDeleted.v1,                       *)
(* ArtifactObjectMissing.v1 and ArtifactOrphanDeleted.v1.                  *)
Event == [type: {"Requested", "Deleted", "Missing", "Orphan"},
          key: Keys, version: Nat, status: Statuses \cup {"none"}]

Points == {"idle", "delete", "delete_done", "delete_failed", "reconcile",
           "missing", "missing_commit", "orphans", "orphan_delete",
           "orphan_commit"}

ASSUME NoneAssumption == None \notin Artifact \cup Tag \cup Reading

(* updated_at orders the artifacts, and nothing else. *)
Ordered ==
    \A j, k \in Keys :
        /\ (<<j, k>> \in older \/ <<k, j>> \in older) <=>
              (j # k /\ artifact[j] # None /\ artifact[k] # None)
        /\ ~(<<j, k>> \in older /\ <<k, j>> \in older)

(* Every variable has its type, and updated_at orders the artifacts. *)
TypeOK ==
    /\ session \in [Keys -> Outcomes]
    /\ completing \subseteq Keys
    /\ artifact \in [Keys -> Artifact \cup {None}]
    /\ older \subseteq Keys \X Keys /\ Ordered
    /\ backoff \subseteq Keys
    /\ outbox \subseteq Event
    /\ objects \subseteq Keys
    /\ recent \subseteq objects
    /\ late \subseteq Keys
    /\ point \in Points
    /\ work \subseteq Keys
    /\ current \in Keys \cup {None}
    /\ copy \in Artifact \cup {None}
    /\ seen \in [Requests -> Tag \cup {None}]
    /\ reading \in [Requests -> Reading \cup {None}]
    /\ faults \in 0 .. MaxFaults

(* Sessions that have just been created, and objects left over from rows   *)
(* that are gone (a restored database).                                    *)
Init ==
    /\ session \in [Keys -> {"none", "open"}]
    /\ completing = {}
    /\ artifact = [k \in Keys |-> None]
    /\ older = {}
    /\ backoff = {}
    /\ outbox = {}
    /\ objects = {k \in Keys : session[k] = "none"}
    /\ recent = objects
    /\ late = {}
    /\ point = "idle"
    /\ work = {}
    /\ current = None
    /\ copy = None
    /\ seen = [r \in Requests |-> None]
    /\ reading = [r \in Requests |-> None]
    /\ faults = MaxFaults

----------------------------------------------------------------------------
(* Rows, events and the store.                                             *)

Status(k) == IF artifact[k] = None THEN "none" ELSE artifact[k].status

(* updated_at of k becomes the present. *)
Touched(k) ==
    {pair \in older : k \notin {pair[1], pair[2]}}
    \cup {<<other, k>> : other \in {o \in Keys \ {k} : artifact[o] # None}}

(* A versioned UPDATE of the status. *)
Write(k, status) ==
    /\ artifact' = [artifact EXCEPT ![k] =
                      [status |-> status, version |-> @.version + 1]]
    /\ older' = Touched(k)

Announce(type, k, version, status) ==
    outbox' = outbox \cup
        {[type |-> type, key |-> k, version |-> version, status |-> status]}

Fault == faults > 0 /\ faults' = faults - 1

Remove(k) ==
    /\ objects' = objects \ {k}
    /\ recent' = recent \ {k}

(* ORDER BY ... LIMIT: those with fewer than BatchSize others before them. *)
Batch(candidates, before) ==
    {k \in candidates :
        Cardinality({other \in candidates : <<other, k>> \in before}) < BatchSize}

(* The order in which the store lists its keys. *)
Listed == {p \in Keys \X Keys : p[1] < p[2]}

----------------------------------------------------------------------------
(* The sessions, as UploadContract lets them go: an object is assembled    *)
(* for a session that is open, or has expired meanwhile; its handler, or   *)
(* that of a retry while the session is open, publishes it with a verdict; *)
(* open sessions are cancelled or expire.                                  *)

(* The handler may lose the store's answer, or die. *)
Assemble(k) ==
    /\ session[k] \in {"open", "expired"}
    /\ k \notin objects
    /\ objects' = objects \cup {k}
    /\ recent' = recent \cup {k}
    /\ \/ completing' = completing \cup {k} /\ UNCHANGED faults
       \/ Fault /\ UNCHANGED completing
    /\ UNCHANGED <<session, rows, late, pass, clients>>

RetryComplete(k) ==
    /\ session[k] = "open"
    /\ k \in objects \ completing
    /\ completing' = completing \cup {k}
    /\ UNCHANGED <<session, rows, store, pass, clients, faults>>

Publish(k) ==
    /\ k \in completing
    /\ completing' = completing \ {k}
    /\ session' = [session EXCEPT ![k] = "published"]
    /\ \E verdict \in Verdicts :
         artifact' = [artifact EXCEPT ![k] = [status |-> verdict, version |-> 1]]
    /\ older' = Touched(k)
    /\ UNCHANGED <<backoff, outbox, store, pass, clients, faults>>

(* Only a session without an object is cancelled: the object is assembled  *)
(* for a session that is COMPLETING, which cancel refuses.                 *)
Close(k) ==
    /\ session[k] = "open"
    /\ \E outcome \in {"expired"} \cup IF k \in objects THEN {} ELSE {"cancelled"} :
         session' = [session EXCEPT ![k] = outcome]
    /\ UNCHANGED <<completing, rows, store, pass, clients, faults>>

----------------------------------------------------------------------------
(* get_artifact, create_download_url and delete_artifact.                  *)

(* The ETag of an artifact that is not hidden. *)
GetArtifact(r) ==
    /\ reading[r] = None
    /\ \E k \in Keys :
         /\ Status(k) \in Verdicts \cup {"FAILED"}
         /\ seen' = [seen EXCEPT ![r] = [key |-> k, version |-> artifact[k].version]]
    /\ UNCHANGED <<uploads, rows, store, pass, reading, faults>>

(* If-Match is compared with the row as read.  A mismatch (412) and a      *)
(* deleted artifact (404) end the request; the client forgets its ETag.    *)
DeleteRead(r) ==
    /\ reading[r] = None
    /\ seen[r] # None
    /\ LET k == seen[r].key IN
         IF artifact[k].version = seen[r].version /\ Status(k) # "DELETED"
         THEN /\ reading' = [reading EXCEPT ![r] =
                   [key |-> k, status |-> Status(k), version |-> artifact[k].version]]
              /\ UNCHANGED seen
         ELSE /\ seen' = [seen EXCEPT ![r] = None]
              /\ UNCHANGED reading
    /\ UNCHANGED <<uploads, rows, store, pass, faults>>

FreshUnversioned(k, version) == TRUE

(* UPDATE ... WHERE version = :loaded finds the row it has read. *)
Fresh(k, version) == artifact[k].version = version

(* The flush of the new status, a refresh, the event, the commit.  A       *)
(* status that was DELETING already makes no UPDATE and no version check;  *)
(* the event then carries whatever the refresh finds.                      *)
DeleteCommit(r) ==
    /\ reading[r] # None
    /\ reading' = [reading EXCEPT ![r] = None]
    /\ LET k == reading[r].key IN
         \/ /\ reading[r].status # "DELETING"
            /\ Fresh(k, reading[r].version)
            /\ Write(k, "DELETING")
            /\ Announce("Requested", k, artifact[k].version + 1, "DELETING")
            /\ seen' = [seen EXCEPT ![r].version = artifact[k].version + 1]
         \/ /\ reading[r].status # "DELETING"
            /\ ~Fresh(k, reading[r].version)
            /\ seen' = [seen EXCEPT ![r] = None]
            /\ UNCHANGED <<artifact, older, outbox>>
         \/ /\ reading[r].status = "DELETING"
            /\ Announce("Requested", k, artifact[k].version, Status(k))
            /\ seen' = [seen EXCEPT ![r].version = artifact[k].version]
            /\ UNCHANGED <<artifact, older>>
    /\ UNCHANGED <<uploads, backoff, store, pass, faults>>

----------------------------------------------------------------------------
(* ArtifactMaintenanceService.run_once, after the expiry of sessions.      *)

(* A phase begins with the items it has selected; idle is the phase        *)
(* between two passes.                                                     *)
Enter(phase, selected) ==
    /\ point' = phase
    /\ work' = selected
    /\ current' = None
    /\ copy' = None

(* An item of the phase is taken up, goes on, or is done with.  The order  *)
(* within a batch is left open.                                            *)
Take(k, next) ==
    /\ k \in work
    /\ point' = next
    /\ work' = work \ {k}
    /\ current' = k
    /\ UNCHANGED copy

Skip(k) ==
    /\ k \in work
    /\ work' = work \ {k}
    /\ UNCHANGED <<point, current, copy>>

GoOn(next) == point' = next /\ UNCHANGED <<work, current>>

Done(phase) == Enter(phase, work)

(* _delete_artifacts *)
SelectDeleting ==
    /\ point = "idle"
    /\ Enter("delete",
             Batch({k \in Keys \ backoff : Status(k) = "DELETING"}, older))
    /\ UNCHANGED <<uploads, rows, store, clients, faults>>

(* NOT_FOUND counts as success. *)
DeleteObject ==
    /\ point = "delete"
    /\ \E k \in work : Remove(k) /\ Take(k, "delete_done")
    /\ UNCHANGED <<uploads, rows, late, clients, faults>>

(* A failing deletion may have happened, or not, or happen later. *)
RemoveFault(k) ==
    /\ Fault
    /\ \/ Remove(k) /\ UNCHANGED late
       \/ late' = late \cup {k} /\ UNCHANGED <<objects, recent>>

DeleteObjectFault ==
    /\ point = "delete"
    /\ \E k \in work : RemoveFault(k) /\ Take(k, "delete_failed")
    /\ UNCHANGED <<uploads, rows, clients>>

(* The row is read again and written in one action: while it is DELETING   *)
(* nobody but the worker writes it.                                        *)
DeleteDone ==
    /\ point = "delete_done"
    /\ Write(current, "DELETED")
    /\ backoff' = backoff \ {current}
    /\ Announce("Deleted", current, artifact[current].version + 1, "DELETED")
    /\ Done("delete")
    /\ UNCHANGED <<uploads, store, clients, faults>>

DeleteFailedGivesUp ==
    /\ point = "delete_failed"
    /\ Write(current, "FAILED")
    /\ backoff' = backoff \cup {current}
    /\ Done("delete")
    /\ UNCHANGED <<uploads, outbox, store, clients, faults>>

(* _record_artifact_failure *)
DeleteFailed ==
    /\ point = "delete_failed"
    /\ Write(current, "DELETING")
    /\ backoff' = backoff \cup {current}
    /\ Done("delete")
    /\ UNCHANGED <<uploads, outbox, store, clients, faults>>

(* _reconcile_missing *)
SelectAvailable ==
    /\ point = "delete"
    /\ work = {}
    /\ Enter("reconcile",
             Batch({k \in Keys : Status(k) = "AVAILABLE"}, older))
    /\ UNCHANGED <<uploads, rows, store, clients, faults>>

HeadObjectAnyError ==
    /\ point = "reconcile"
    /\ \E k \in work :
         \/ k \in objects /\ Skip(k) /\ UNCHANGED faults
         \/ k \notin objects /\ Take(k, "missing") /\ UNCHANGED faults
         \/ Fault /\ Take(k, "missing")
    /\ UNCHANGED <<uploads, rows, store, clients>>

(* Only an explicit NOT_FOUND is a missing object; any other error skips   *)
(* the artifact until a later pass.                                        *)
HeadObject ==
    /\ point = "reconcile"
    /\ \E k \in work :
         \/ k \in objects /\ Skip(k) /\ UNCHANGED faults
         \/ k \notin objects /\ Take(k, "missing") /\ UNCHANGED faults
         \/ Fault /\ Skip(k)
    /\ UNCHANGED <<uploads, rows, store, clients>>

(* Mutant: the status is not looked at again. *)
MissingUnread ==
    /\ point = "missing"
    /\ GoOn("missing_commit")
    /\ copy' = artifact[current]
    /\ UNCHANGED <<uploads, rows, store, clients, faults>>

(* The row is read again before it is written. *)
MissingReread ==
    /\ point = "missing"
    /\ \/ /\ Status(current) = "AVAILABLE"
          /\ GoOn("missing_commit")
          /\ copy' = artifact[current]
       \/ Status(current) # "AVAILABLE" /\ Done("reconcile")
    /\ UNCHANGED <<uploads, rows, store, clients, faults>>

(* A row that has changed since fails the whole pass. *)
MissingCommit ==
    /\ point = "missing_commit"
    /\ \/ /\ Fresh(current, copy.version)
          /\ Write(current, "FAILED")
          /\ Announce("Missing", current, artifact[current].version + 1, "FAILED")
          /\ Done("reconcile")
       \/ /\ ~Fresh(current, copy.version)
          /\ Enter("idle", {})
          /\ UNCHANGED <<artifact, older, outbox>>
    /\ UNCHANGED <<uploads, backoff, store, clients, faults>>

(* _delete_orphans: the objects beyond the protection window, in the       *)
(* store's order; those that are referred to count against the batch too.  *)
ListObjects ==
    /\ point = "reconcile"
    /\ work = {}
    /\ Enter("orphans", Batch(objects \ recent, Listed))
    /\ UNCHANGED <<uploads, rows, store, clients, faults>>

ReferencedByArtifact(k) == Status(k) \notin {"none", "DELETED"}

(* An upload session in any status, or an artifact that is not DELETED,    *)
(* refers to the object.                                                   *)
Referenced(k) == session[k] # "none" \/ Status(k) \notin {"none", "DELETED"}

CheckOrphan ==
    /\ point = "orphans"
    /\ \E k \in work :
         IF Referenced(k) THEN Skip(k) ELSE Take(k, "orphan_delete")
    /\ UNCHANGED <<uploads, rows, store, clients, faults>>

DeleteOrphan ==
    /\ point = "orphan_delete"
    /\ \/ /\ Remove(current)
          /\ GoOn("orphan_commit")
          /\ UNCHANGED <<copy, late, faults>>
       \/ RemoveFault(current) /\ Done("orphans")
    /\ UNCHANGED <<uploads, rows, clients>>

AnnounceOrphan ==
    /\ point = "orphan_commit"
    /\ Announce("Orphan", current, 1, "none")
    /\ Done("orphans")
    /\ UNCHANGED <<uploads, artifact, older, backoff, store, clients, faults>>

PassEnds ==
    /\ point = "orphans"
    /\ work = {}
    /\ Enter("idle", {})
    /\ UNCHANGED <<uploads, rows, store, clients, faults>>

(* The pass times out, the listing fails or the worker dies; a deletion    *)
(* that was under way may still happen.  The advisory lock is released and *)
(* the next pass starts over.                                              *)
PassFails ==
    /\ point # "idle"
    /\ Fault
    /\ Enter("idle", {})
    /\ \/ UNCHANGED late
       \/ /\ point = "delete"
          /\ \E k \in work : late' = late \cup {k}
       \/ /\ point = "orphan_delete"
          /\ late' = late \cup {current}
    /\ UNCHANGED <<uploads, rows, objects, recent, clients>>

----------------------------------------------------------------------------
(* The environment.                                                        *)

LateDelete ==
    /\ \E k \in late : Remove(k) /\ late' = late \ {k}
    /\ UNCHANGED <<uploads, rows, pass, clients, faults>>

(* The store loses the object of an artifact. *)
LoseObject(k) ==
    /\ Status(k) \in Verdicts
    /\ k \in objects
    /\ Fault
    /\ Remove(k)
    /\ UNCHANGED <<uploads, rows, late, pass, clients>>

WindowPasses ==
    /\ recent # {}
    /\ recent' = {}
    /\ UNCHANGED <<uploads, rows, objects, late, pass, clients, faults>>

BackoffElapses ==
    /\ backoff # {}
    /\ backoff' = {}
    /\ UNCHANGED <<uploads, artifact, older, outbox, store, pass, clients, faults>>

Maintain ==
    \/ SelectDeleting \/ DeleteObject \/ DeleteObjectFault
    \/ DeleteDone \/ DeleteFailed
    \/ SelectAvailable \/ HeadObject \/ MissingReread \/ MissingCommit
    \/ ListObjects \/ CheckOrphan \/ DeleteOrphan \/ AnnounceOrphan \/ PassEnds

Next ==
    \/ \E k \in Keys : \/ Assemble(k) \/ RetryComplete(k) \/ Publish(k)
                     \/ Close(k) \/ LoseObject(k)
    \/ \E r \in Requests : GetArtifact(r) \/ DeleteRead(r) \/ DeleteCommit(r)
    \/ Maintain
    \/ PassFails \/ LateDelete \/ WindowPasses \/ BackoffElapses

Spec == Init /\ [][Next]_vars

(* run_forever goes on after a failed pass, time passes, and a handler     *)
(* that is about to publish does.  Clients may stop at any point.          *)
Fairness ==
    /\ WF_vars(Maintain)
    /\ WF_vars(WindowPasses)
    /\ WF_vars(BackoffElapses)
    /\ \A k \in Keys : WF_vars(Publish(k))

FairSpec == Spec /\ Fairness

----------------------------------------------------------------------------
(* Safety.                                                                 *)

(* An artifact that is FAILED or DELETED has no object: a timeout or an    *)
(* outage is never taken for a missing object, and DELETED is written only *)
(* after the object is gone, whichever calls fail or arrive late.          *)
GoneMeansGone ==
    \A k \in Keys : Status(k) \in {"FAILED", "DELETED"} => k \notin objects

(* The worker removes an object only if its deletion was requested or no   *)
(* upload session names it; an upload in progress keeps its object, and a  *)
(* usable artifact loses it only when the store does.                      *)
RemovalsAreJustified ==
    [][\A k \in objects \ objects' :
         \/ Status(k) \in {"DELETING", "DELETED"}
         \/ session[k] = "none"
         \/ LoseObject(k)]_vars

(* An artifact moves forward only, a version at a time: it is deleted from *)
(* DELETING and never returns from there, and DELETED is final, although   *)
(* requests and the worker write from copies they read earlier.            *)
LifecycleMovesForward ==
    [][\A k \in Keys : artifact[k] # None =>
         \/ artifact'[k] = artifact[k]
         \/ /\ artifact'[k].version = artifact[k].version + 1
            /\ <<artifact[k].status, artifact'[k].status>> \in
                 {<<"AVAILABLE", "FAILED">>, <<"AVAILABLE", "DELETING">>,
                  <<"QUARANTINED", "DELETING">>, <<"FAILED", "DELETING">>,
                  <<"DELETING", "DELETING">>, <<"DELETING", "DELETED">>}]_vars

(* What a client deletes is the version it has seen: a reconciliation that *)
(* fails the artifact in between fails the deletion, at the If-Match or at *)
(* the version check of the UPDATE.                                        *)
DeletionHonoursIfMatch ==
    [][\A k \in Keys :
         Status(k) # "DELETING" /\ Status(k)' = "DELETING" =>
           \E r \in Requests :
             seen[r] = [key |-> k, version |-> artifact[k].version]]_vars

(* The outbox tells what happened to an artifact, and at the version at    *)
(* which it did.                                                           *)
Told(k) ==
    /\ Status(k) \in {"DELETING", "DELETED"} <=>
         \E e \in outbox : e.type = "Requested" /\ e.key = k
    /\ \A e \in outbox : e.type = "Deleted" /\ e.key = k =>
         Status(k) = "DELETED" /\ e.version = artifact[k].version
    /\ Status(k) = "DELETED" => \E e \in outbox : e.type = "Deleted" /\ e.key = k
    /\ Status(k) = "FAILED" =>
         \E e \in outbox : /\ e.type = "Missing" /\ e.key = k
                           /\ e.version = artifact[k].version

(* Each artifact has its events: one deletion, announced after a request   *)
(* and not before the object is gone, whoever else wrote the row.  How     *)
(* often a request was announced is not told: a second DELETE with the     *)
(* ETag of the DELETING row records the same event again.                  *)
EventsAgree == \A k \in Keys : Told(k)

(* An artifact comes from its session, once, and what is about to be       *)
(* published is in the store.                                              *)
PublishedOnce ==
    \A k \in Keys :
        /\ session[k] = "published" <=> artifact[k] # None
        /\ k \in completing => session[k] \in {"open", "expired"} /\ k \in objects

(* What a deletion that is still to come removes may still be removed. *)
LateIsJustified ==
    \A k \in late : Status(k) \in {"DELETING", "DELETED"} \/ session[k] = "none"

(* Clients hold versions of artifacts, and a row that was read is the row  *)
(* if it has its version.                                                  *)
ClientsInPlace ==
    \A r \in Requests :
        /\ seen[r] # None => artifact[seen[r].key] # None
        /\ reading[r] # None =>
             LET k == reading[r].key IN
             /\ seen[r] = [key |-> k, version |-> reading[r].version]
             /\ artifact[k] # None
             /\ reading[r].version <= artifact[k].version
             /\ reading[r].version = artifact[k].version => reading[r].status = Status(k)
             /\ reading[r].status = "DELETING" => Status(k) \in {"DELETING", "DELETED"}
             /\ reading[r].status # "DELETED"

(* What the worker handles is still what it was selected for. *)
PassInPlace ==
    /\ point \in {"delete", "delete_done", "delete_failed"} =>
          \A k \in work : Status(k) = "DELETING"
    /\ point \in {"reconcile", "missing", "missing_commit"} =>
          \A k \in work : artifact[k] # None
    /\ point \in {"delete_done", "delete_failed"} =>
          current \in Keys \ work /\ Status(current) = "DELETING"
    /\ point = "delete_done" => current \notin objects
    /\ point \in {"missing", "missing_commit"} =>
          current \in Keys \ objects /\ artifact[current] # None
    /\ point = "missing_commit" =>
          /\ copy # None /\ copy.version <= artifact[current].version
          /\ copy.version = artifact[current].version => Status(current) = "AVAILABLE"
    /\ point \in {"orphan_delete", "orphan_commit"} =>
          current \in Keys /\ session[current] = "none"

(* The inductive invariant. *)
IInv ==
    /\ TypeOK /\ PublishedOnce /\ LateIsJustified /\ ClientsInPlace /\ PassInPlace
    /\ GoneMeansGone /\ EventsAgree

----------------------------------------------------------------------------
(* What maintenance sees of an upload session is what UploadContract shows *)
(* of it.  The verdict is remembered as AVAILABLE: the status of an        *)
(* artifact goes on where the contract of its session ends.                *)
Upload(k) == INSTANCE UploadContract WITH
    ExpectedSize <- 1,
    outcome <- session[k],
    reserved <- IF session[k] = "open" THEN 1 ELSE 0,
    verdict <- IF artifact[k] = None THEN None ELSE "AVAILABLE"

(* The session of a key, if it has one, keeps the contract.                *)
SessionKeepsContract(k) == session[k] = "open" => Upload(k)!Spec

----------------------------------------------------------------------------
(* Liveness, under FairSpec.                                               *)

(* A deletion that was requested is carried out, however small the batch   *)
(* and whatever fails on the way.                                          *)
DeletionConverges ==
    \A k \in Keys : Status(k) = "DELETING" ~> Status(k) = "DELETED"

----------------------------------------------------------------------------
(* What the documents say and the code does not keep.                      *)

(* M2-07: an AVAILABLE artifact whose object is missing becomes FAILED.    *)
MissingObjectFound ==
    \A k \in Keys :
        Status(k) = "AVAILABLE" /\ k \notin objects ~> Status(k) # "AVAILABLE"

(* ADR-0006: reconciliation makes a completion that timed out converge: it *)
(* is published, or its object is removed.                                 *)
CompletionConverges ==
    \A k \in Keys : session[k] = "expired" /\ k \in objects
                      ~> session[k] = "published" \/ k \notin objects

============================================================================
