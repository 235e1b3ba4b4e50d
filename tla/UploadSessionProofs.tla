------------------------ MODULE UploadSessionProofs ------------------------
(***************************************************************************)
(* Theorems about UploadSession, for every set of requests, identifiers,   *)
(* parts and every number of faults.  The inductive invariant is IInv; its *)
(* proof has one lemma per action, and the actions that share a shape      *)
(* share the lemma of that shape.                                          *)
(***************************************************************************)
EXTENDS UploadSession, TLAPS

USE ProcessAssumption, NoneAssumption, SizeAssumption, FaultAssumption

----------------------------------------------------------------------------
(* The operators the actions are built from.                               *)

(* UPDATE: the new values, and the next version. *)
LEMMA UpdateRow ==
    ASSUME row \in Row, NEW new \in Row, Update(new)
    PROVE  /\ row' \in Row
           /\ row'.status = new.status
           /\ row'.storage_upload_id = new.storage_upload_id
           /\ row'.reserved_bytes = new.reserved_bytes
           /\ row'.version = row.version + 1
BY DEF Update, Row

(* Leaving the active statuses keeps the identifier, drops the bytes. *)
LEMMA ReleasedRow ==
    ASSUME NEW x \in Row, NEW s \in Active \cup Terminal
    PROVE  /\ Released(x, s) \in Row
           /\ Released(x, s).status = s
           /\ Released(x, s).storage_upload_id = x.storage_upload_id
           /\ Released(x, s).reserved_bytes = 0
BY DEF Released, Row

(* The copy of an idle process is a row.                                   *)
LEMMA NoCopyRow == NoCopy \in Row
BY DEF NoCopy, Row, Active

(* The end of a handler, with or without an answer, keeps the types. *)
LEMMA EndType ==
    ASSUME TypeOK, NEW p \in Processes, End(p)
    PROVE  /\ pc' \in [Processes -> {"idle"} \cup RequestPoints \cup MaintenancePoints]
           /\ mem' \in [Processes -> Row]
           /\ local' \in [Processes -> UploadIds \cup Contents \cup {None}]
           /\ lock' \in Requests \cup {None}
BY NoCopyRow DEF TypeOK, End

(* The same with its answer.                                               *)
LEMMA ReplyType ==
    ASSUME TypeOK, NEW p \in Processes, NEW op \in Operations, NEW code \in Codes,
           Reply(p, op, code)
    PROVE  /\ pc' \in [Processes -> {"idle"} \cup RequestPoints \cup MaintenancePoints]
           /\ mem' \in [Processes -> Row]
           /\ local' \in [Processes -> UploadIds \cup Contents \cup {None}]
           /\ lock' \in Requests \cup {None}
           /\ answer' \in [op: Operations, code: Codes] \cup {None}
BY EndType DEF Reply

(* The fault budget is never overdrawn.                                    *)
LEMMA FaultType ==
    ASSUME TypeOK, Fault
    PROVE  faults' \in 0 .. MaxFaults
BY DEF TypeOK, Fault

(* Copies stay versioned when the row stands still ... *)
LEMMA CopiesKept ==
    ASSUME TypeOK, CopiesAreVersioned, row' = row,
           \A q \in Processes : mem'[q] \in {mem[q], row, NoCopy}
    PROVE  CopiesAreVersioned'
BY DEF TypeOK, CopiesAreVersioned, NoCopy, Row

(* ... and when an UPDATE moves it on: every copy becomes stale. *)
LEMMA CopiesUpdated ==
    ASSUME TypeOK, CopiesAreVersioned, row' \in Row, row'.version = row.version + 1,
           row.status = "ABORTED" => row'.status = "ABORTED",
           \A q \in Processes : mem'[q] \in {mem[q], NoCopy}
    PROVE  CopiesAreVersioned'
<1>1. row.version \in Nat /\ \A q \in Processes : mem[q].version \in Nat
  BY DEF TypeOK, Row
<1>2. QED
  BY <1>1 DEF CopiesAreVersioned, NoCopy

(* A step that leaves the row, the artifact and the store alone, and adds  *)
(* no event but a registered part, keeps what IInv says of them.           *)
LEMMA QuietStep ==
    ASSUME IInv, row' = row, artifact' = artifact, UNCHANGED store,
           outbox' = outbox \/ outbox' = outbox \cup {"PartRegistered"},
           \A q \in Processes : mem'[q] \in {mem[q], row, NoCopy}
    PROVE  /\ ReservationMatchesStatus'
           /\ CopiesAreVersioned'
           /\ OneKnownUpload'
           /\ ArtifactMatchesObject'
           /\ AbortedLeavesNothingOpen'
           /\ OutboxAgrees'
<1> USE DEF IInv
<1>1. ReservationMatchesStatus' /\ ArtifactMatchesObject'
  BY DEF ReservationMatchesStatus, ArtifactMatchesObject, store
<1>2. CopiesAreVersioned'
  BY CopiesKept
<1>3. OneKnownUpload'
  <2>1. \A u \in UploadIds : Known(u)' => Known(u)
    BY DEF Known, NoCopy, store
  <2>2. QED
    BY <2>1 DEF OneKnownUpload, store
<1>4. AbortedLeavesNothingOpen'
  BY DEF AbortedLeavesNothingOpen, store
<1>5. OutboxAgrees'
  BY DEF OutboxAgrees
<1>6. QED
  BY <1>1, <1>2, <1>3, <1>4, <1>5

----------------------------------------------------------------------------
(* Steps that only read the row, or do not touch the session. *)

(* get reads; expiring is a step of its own.                               *)
LEMMA GetReadInv ==
    ASSUME IInv, NEW r \in Requests, GetRead(r)
    PROVE  IInv'
<1> USE DEF GetRead, database, store, clock, Load, Reply, expire_if_needed,
  End, Active
<1>0. TypeOK
  BY DEF IInv
<1>1. TypeOK'
  BY <1>0, NoCopyRow DEF TypeOK, Active, Terminal, Processes, RequestPoints,
    MaintenancePoints, Operations, Codes, Calls, Contents, Verdicts,
    EventTypes
<1> USE DEF IInv
<1>2. /\ ReservationMatchesStatus' /\ CopiesAreVersioned' /\ OneKnownUpload'
     /\ ArtifactMatchesObject' /\ AbortedLeavesNothingOpen' /\ OutboxAgrees'
  BY QuietStep DEF TypeOK
<1>3. LockHeld'
  BY <1>1 DEF LockHeld, NoCopy, LockedPoints, Progress, RequestPoints,
    MaintenancePoints, Processes, TypeOK
<1>4. \A q \in Processes : Progress(q)'
  BY <1>1 DEF TypeOK, Progress, LockHeld, LockedPoints, RequestPoints,
    MaintenancePoints, CopiesAreVersioned, OneKnownUpload, Known, Active,
    Terminal, Processes, Calls, NoCopy, Contents
<1>5. QED
  BY <1>1, <1>2, <1>3, <1>4 DEF Progress

(* register reads the status without a lock.                               *)
LEMMA RegisterReadInv ==
    ASSUME IInv, NEW r \in Requests, RegisterRead(r)
    PROVE  IInv'
<1> USE DEF RegisterRead, database, store, clock, Load, Reply,
  expire_if_needed, End, Active
<1>0. TypeOK
  BY DEF IInv
<1>1. TypeOK'
  BY <1>0, NoCopyRow DEF TypeOK, Active, Terminal, Processes, RequestPoints,
    MaintenancePoints, Operations, Codes, Calls, Contents, Verdicts,
    EventTypes
<1> USE DEF IInv
<1>2. /\ ReservationMatchesStatus' /\ CopiesAreVersioned' /\ OneKnownUpload'
     /\ ArtifactMatchesObject' /\ AbortedLeavesNothingOpen' /\ OutboxAgrees'
  BY QuietStep DEF TypeOK
<1>3. LockHeld'
  BY <1>1 DEF LockHeld, NoCopy, LockedPoints, Progress, RequestPoints,
    MaintenancePoints, Processes, TypeOK
<1>4. \A q \in Processes : Progress(q)'
  BY <1>1 DEF TypeOK, Progress, LockHeld, LockedPoints, RequestPoints,
    MaintenancePoints, CopiesAreVersioned, OneKnownUpload, Known, Active,
    Terminal, Processes, Calls, NoCopy, Contents
<1>5. QED
  BY <1>1, <1>2, <1>3, <1>4 DEF Progress

(* register inserts the part, or finds it there.                           *)
LEMMA RegisterInsertInv ==
    ASSUME IInv, NEW r \in Requests, RegisterInsert(r)
    PROVE  IInv'
<1> USE DEF RegisterInsert, store, clock, Reply, InsertPart, RowFree, End
<1>0. TypeOK
  BY DEF IInv
<1>1. outbox' \subseteq EventTypes
  BY <1>0 DEF TypeOK, EventTypes
<1>2. parts' \in [PartNumbers -> Etags \cup {None}]
  BY <1>0 DEF TypeOK
<1>3. TypeOK'
  BY <1>0, NoCopyRow, <1>1, <1>2 DEF TypeOK, Active, Terminal, Processes,
    RequestPoints, MaintenancePoints, Operations, Codes, Calls, Contents,
    Verdicts, EventTypes
<1> USE DEF IInv
<1>4. /\ ReservationMatchesStatus' /\ CopiesAreVersioned' /\ OneKnownUpload'
     /\ ArtifactMatchesObject' /\ AbortedLeavesNothingOpen' /\ OutboxAgrees'
  BY QuietStep DEF TypeOK
<1>5. LockHeld'
  BY <1>3 DEF LockHeld, NoCopy, LockedPoints, Progress, RequestPoints,
    MaintenancePoints, Processes, TypeOK
<1>6. \A q \in Processes : Progress(q)'
  BY <1>3 DEF TypeOK, Progress, LockHeld, LockedPoints, RequestPoints,
    MaintenancePoints, CopiesAreVersioned, OneKnownUpload, Known, Active,
    Terminal, Processes, Calls, NoCopy, Contents
<1>7. QED
  BY <1>1, <1>2, <1>3, <1>4, <1>5, <1>6 DEF Progress

(* complete locks the checkpointed row again; with no artifact it is not   *)
(* COMPLETED.                                                              *)
LEMMA CompleteRelockInv ==
    ASSUME IInv, NEW r \in Requests, CompleteRelock(r)
    PROVE  IInv'
<1> USE DEF CompleteRelock, database, store, clock, Load, Reply, RowFree,
  AlreadyPublished, End
<1>0. TypeOK
  BY DEF IInv
<1>1. TypeOK'
  BY <1>0, NoCopyRow DEF TypeOK, Active, Terminal, Processes, RequestPoints,
    MaintenancePoints, Operations, Codes, Calls, Contents, Verdicts,
    EventTypes
<1> USE DEF IInv
<1>2. /\ ReservationMatchesStatus' /\ CopiesAreVersioned' /\ OneKnownUpload'
     /\ ArtifactMatchesObject' /\ AbortedLeavesNothingOpen' /\ OutboxAgrees'
  BY QuietStep DEF TypeOK
<1>3. LockHeld'
  BY <1>1 DEF LockHeld, NoCopy, LockedPoints, Progress, RequestPoints,
    MaintenancePoints, Processes, TypeOK
<1>4. \A q \in Processes : Progress(q)'
  BY <1>1 DEF TypeOK, Progress, LockHeld, LockedPoints, RequestPoints,
    MaintenancePoints, CopiesAreVersioned, OneKnownUpload, Known, Active,
    Terminal, Processes, Calls, NoCopy, Contents, ArtifactMatchesObject
<1>5. QED
  BY <1>1, <1>2, <1>3, <1>4 DEF Progress

(* The object is read, not written.                                        *)
LEMMA CompleteVerifyInv ==
    ASSUME IInv, NEW r \in Requests, CompleteVerify(r)
    PROVE  IInv'
<1> USE DEF CompleteVerify, database, store, clock, Goto, Reply, Fault, End
<1>0. TypeOK
  BY DEF IInv
<1>1. TypeOK'
  BY <1>0, NoCopyRow DEF TypeOK, Active, Terminal, Processes, RequestPoints,
    MaintenancePoints, Operations, Codes, Calls, Contents, Verdicts,
    EventTypes
<1> USE DEF IInv
<1>2. /\ ReservationMatchesStatus' /\ CopiesAreVersioned' /\ OneKnownUpload'
     /\ ArtifactMatchesObject' /\ AbortedLeavesNothingOpen' /\ OutboxAgrees'
  BY QuietStep DEF TypeOK
<1>3. LockHeld'
  BY <1>1 DEF LockHeld, NoCopy, LockedPoints, Progress, RequestPoints,
    MaintenancePoints, Processes, TypeOK
<1>4. \A q \in Processes : Progress(q)'
  BY <1>1 DEF TypeOK, Progress, LockHeld, LockedPoints, RequestPoints,
    MaintenancePoints, CopiesAreVersioned, OneKnownUpload, Known, Active,
    Terminal, Processes, Calls, NoCopy, Contents
<1>5. QED
  BY <1>1, <1>2, <1>3, <1>4 DEF Progress

(* cancel reads without a lock.                                            *)
LEMMA CancelReadInv ==
    ASSUME IInv, NEW r \in Requests, CancelRead(r)
    PROVE  IInv'
<1> USE DEF CancelRead, database, store, clock, Load, Reply, expire_if_needed,
  require_upload_session_cancellable, End, Active
<1>0. TypeOK
  BY DEF IInv
<1>1. TypeOK'
  BY <1>0, NoCopyRow DEF TypeOK, Active, Terminal, Processes, RequestPoints,
    MaintenancePoints, Operations, Codes, Calls, Contents, Verdicts,
    EventTypes
<1> USE DEF IInv
<1>2. /\ ReservationMatchesStatus' /\ CopiesAreVersioned' /\ OneKnownUpload'
     /\ ArtifactMatchesObject' /\ AbortedLeavesNothingOpen' /\ OutboxAgrees'
  BY QuietStep DEF TypeOK
<1>3. LockHeld'
  BY <1>1 DEF LockHeld, NoCopy, LockedPoints, Progress, RequestPoints,
    MaintenancePoints, Processes, TypeOK
<1>4. \A q \in Processes : Progress(q)'
  BY <1>1 DEF TypeOK, Progress, LockHeld, LockedPoints, RequestPoints,
    MaintenancePoints, CopiesAreVersioned, OneKnownUpload, Known, Active,
    Terminal, Processes, Calls, NoCopy, Contents
<1>5. QED
  BY <1>1, <1>2, <1>3, <1>4 DEF Progress

(* A pass selects the row.                                                 *)
LEMMA MaintSelectInv ==
    ASSUME IInv, MaintSelect
    PROVE  IInv'
<1> USE DEF MaintSelect, database, store, clock, Load, Active, Selected
<1>0. TypeOK
  BY DEF IInv
<1>1. TypeOK'
  BY <1>0, NoCopyRow DEF TypeOK, Active, Terminal, Processes, RequestPoints,
    MaintenancePoints, Operations, Codes, Calls, Contents, Verdicts,
    EventTypes
<1> USE DEF IInv
<1>2. /\ ReservationMatchesStatus' /\ CopiesAreVersioned' /\ OneKnownUpload'
     /\ ArtifactMatchesObject' /\ AbortedLeavesNothingOpen' /\ OutboxAgrees'
  BY QuietStep DEF TypeOK
<1>3. LockHeld'
  BY <1>1 DEF LockHeld, NoCopy, LockedPoints, Progress, RequestPoints,
    MaintenancePoints, Processes, TypeOK
<1>4. \A q \in Processes : Progress(q)'
  BY <1>1 DEF TypeOK, Progress, LockHeld, LockedPoints, RequestPoints,
    MaintenancePoints, CopiesAreVersioned, OneKnownUpload, Known, Active,
    Terminal, Processes, Calls, NoCopy, Contents
<1>5. QED
  BY <1>1, <1>2, <1>3, <1>4 DEF Progress

(* The pass reads it again after the abort ...                             *)
LEMMA MaintRereadInv ==
    ASSUME IInv, MaintReread
    PROVE  IInv'
<1> USE DEF MaintReread, database, store, clock, Load, End
<1>0. TypeOK
  BY DEF IInv
<1>1. TypeOK'
  BY <1>0, NoCopyRow DEF TypeOK, Active, Terminal, Processes, RequestPoints,
    MaintenancePoints, Operations, Codes, Calls, Contents, Verdicts,
    EventTypes
<1> USE DEF IInv
<1>2. /\ ReservationMatchesStatus' /\ CopiesAreVersioned' /\ OneKnownUpload'
     /\ ArtifactMatchesObject' /\ AbortedLeavesNothingOpen' /\ OutboxAgrees'
  BY QuietStep DEF TypeOK
<1>3. LockHeld'
  BY <1>1 DEF LockHeld, NoCopy, LockedPoints, Progress, RequestPoints,
    MaintenancePoints, Processes, TypeOK
<1>4. \A q \in Processes : Progress(q)'
  BY <1>1 DEF TypeOK, Progress, LockHeld, LockedPoints, RequestPoints,
    MaintenancePoints, CopiesAreVersioned, OneKnownUpload, Known, Active,
    Terminal, Processes, Calls, NoCopy, Contents
<1>5. QED
  BY <1>1, <1>2, <1>3, <1>4 DEF Progress

(* ... or after the abort has failed.                                      *)
LEMMA MaintFailInv ==
    ASSUME IInv, MaintFail
    PROVE  IInv'
<1> USE DEF MaintFail, database, store, clock, Load
<1>0. TypeOK
  BY DEF IInv
<1>1. TypeOK'
  BY <1>0, NoCopyRow DEF TypeOK, Active, Terminal, Processes, RequestPoints,
    MaintenancePoints, Operations, Codes, Calls, Contents, Verdicts,
    EventTypes
<1> USE DEF IInv
<1>2. /\ ReservationMatchesStatus' /\ CopiesAreVersioned' /\ OneKnownUpload'
     /\ ArtifactMatchesObject' /\ AbortedLeavesNothingOpen' /\ OutboxAgrees'
  BY QuietStep DEF TypeOK
<1>3. LockHeld'
  BY <1>1 DEF LockHeld, NoCopy, LockedPoints, Progress, RequestPoints,
    MaintenancePoints, Processes, TypeOK
<1>4. \A q \in Processes : Progress(q)'
  BY <1>1 DEF TypeOK, Progress, LockHeld, LockedPoints, RequestPoints,
    MaintenancePoints, CopiesAreVersioned, OneKnownUpload, Known, Active,
    Terminal, Processes, Calls, NoCopy, Contents
<1>5. QED
  BY <1>1, <1>2, <1>3, <1>4 DEF Progress

(* A crash gives up the copy and the lock, and the rollback hides the rest. *)
LEMMA CrashInv ==
    ASSUME IInv, NEW p \in Processes, Crash(p)
    PROVE  IInv'
<1> USE DEF Crash, database, store, clock, End, Fault
<1>0. TypeOK
  BY DEF IInv
<1>1. TypeOK'
  BY <1>0, NoCopyRow DEF TypeOK, Active, Terminal, Processes, RequestPoints,
    MaintenancePoints, Operations, Codes, Calls, Contents, Verdicts,
    EventTypes
<1> USE DEF IInv
<1>2. /\ ReservationMatchesStatus' /\ CopiesAreVersioned' /\ OneKnownUpload'
     /\ ArtifactMatchesObject' /\ AbortedLeavesNothingOpen' /\ OutboxAgrees'
  BY QuietStep DEF TypeOK
<1>3. LockHeld'
  BY <1>1 DEF LockHeld, NoCopy, LockedPoints, Progress, RequestPoints,
    MaintenancePoints, Processes, TypeOK
<1>4. \A q \in Processes : Progress(q)'
  BY <1>1 DEF TypeOK, Progress, LockHeld, LockedPoints, RequestPoints,
    MaintenancePoints, CopiesAreVersioned, OneKnownUpload, Known, Active,
    Terminal, Processes, Calls, NoCopy, Contents
<1>5. QED
  BY <1>1, <1>2, <1>3, <1>4 DEF Progress

(* The session's time runs out.                                            *)
LEMMA TtlPassesInv ==
    ASSUME IInv, TtlPasses
    PROVE  IInv'
<1> USE DEF TtlPasses, database, store
<1>0. TypeOK
  BY DEF IInv
<1>1. TypeOK'
  BY <1>0, NoCopyRow DEF TypeOK, Active, Terminal, Processes, RequestPoints,
    MaintenancePoints, Operations, Codes, Calls, Contents, Verdicts,
    EventTypes
<1> USE DEF IInv
<1>2. /\ ReservationMatchesStatus' /\ CopiesAreVersioned' /\ OneKnownUpload'
     /\ ArtifactMatchesObject' /\ AbortedLeavesNothingOpen' /\ OutboxAgrees'
  BY QuietStep DEF TypeOK
<1>3. LockHeld'
  BY <1>1 DEF LockHeld, NoCopy, LockedPoints, Progress, RequestPoints,
    MaintenancePoints, Processes, TypeOK
<1>4. \A q \in Processes : Progress(q)'
  BY <1>1 DEF TypeOK, Progress, LockHeld, LockedPoints, RequestPoints,
    MaintenancePoints, CopiesAreVersioned, OneKnownUpload, Known, Active,
    Terminal, Processes, Calls, NoCopy, Contents
<1>5. QED
  BY <1>1, <1>2, <1>3, <1>4 DEF Progress

(* The time to retry a cleanup comes.                                      *)
LEMMA BackoffElapsesInv ==
    ASSUME IInv, BackoffElapses
    PROVE  IInv'
<1> USE DEF BackoffElapses, database, store
<1>0. TypeOK
  BY DEF IInv
<1>1. TypeOK'
  BY <1>0, NoCopyRow DEF TypeOK, Active, Terminal, Processes, RequestPoints,
    MaintenancePoints, Operations, Codes, Calls, Contents, Verdicts,
    EventTypes
<1> USE DEF IInv
<1>2. /\ ReservationMatchesStatus' /\ CopiesAreVersioned' /\ OneKnownUpload'
     /\ ArtifactMatchesObject' /\ AbortedLeavesNothingOpen' /\ OutboxAgrees'
  BY QuietStep DEF TypeOK
<1>3. LockHeld'
  BY <1>1 DEF LockHeld, NoCopy, LockedPoints, Progress, RequestPoints,
    MaintenancePoints, Processes, TypeOK
<1>4. \A q \in Processes : Progress(q)'
  BY <1>1 DEF TypeOK, Progress, LockHeld, LockedPoints, RequestPoints,
    MaintenancePoints, CopiesAreVersioned, OneKnownUpload, Known, Active,
    Terminal, Processes, Calls, NoCopy, Contents
<1>5. QED
  BY <1>1, <1>2, <1>3, <1>4 DEF Progress

----------------------------------------------------------------------------
(* Calls of the store, answered or not. *)

(* The store starts the upload that sign will write to the row.            *)
LEMMA SignStartInv ==
    ASSUME IInv, NEW r \in Requests, SignStart(r)
    PROVE  IInv'
<1> USE DEF SignStart, database, clock, Goto
<1>0. TypeOK
  BY DEF IInv
<1>1. TypeOK'
  BY <1>0, NoCopyRow DEF TypeOK, Active, Terminal, Processes, RequestPoints,
    MaintenancePoints, Operations, Codes, Calls, Contents, Verdicts,
    EventTypes
<1> USE DEF IInv
<1>2. ReservationMatchesStatus' /\ OutboxAgrees'
  BY DEF ReservationMatchesStatus, OutboxAgrees
<1>3. CopiesAreVersioned'
  BY CopiesKept DEF TypeOK
<1>4. OneKnownUpload'
  BY <1>1 DEF TypeOK, OneKnownUpload, NoCopy, Known, LockHeld, LockedPoints,
    CopiesAreVersioned, Progress, Processes, Calls, Active
<1>5. ArtifactMatchesObject'
  BY <1>1 DEF TypeOK, ArtifactMatchesObject, NoCopy, OneKnownUpload, Known,
    LockHeld, LockedPoints, Progress, CopiesAreVersioned, Active, Processes,
    Calls
<1>6. AbortedLeavesNothingOpen'
  BY <1>1 DEF TypeOK, AbortedLeavesNothingOpen, NoCopy, Progress,
    CopiesAreVersioned, OneKnownUpload, Known, Active, Processes
<1>7. LockHeld'
  BY <1>1 DEF LockHeld, NoCopy, LockedPoints, Progress, RequestPoints,
    MaintenancePoints, Processes, TypeOK
<1>8. \A q \in Processes : Progress(q)'
  BY <1>1 DEF TypeOK, Progress, LockHeld, LockedPoints, RequestPoints,
    MaintenancePoints, CopiesAreVersioned, OneKnownUpload, Known, Active,
    Terminal, Processes, Calls, NoCopy, Contents
<1>9. QED
  BY <1>1, <1>2, <1>3, <1>4, <1>5, <1>6, <1>7, <1>8 DEF Progress

(* An upload whose identifier nobody receives disturbs nobody.             *)
LEMMA SignStartFaultInv ==
    ASSUME IInv, NEW r \in Requests, SignStartFault(r)
    PROVE  IInv'
<1> USE DEF SignStartFault, database, clock, Goto, Reply, Fault, End
<1>0. TypeOK
  BY DEF IInv
<1>1. TypeOK'
  BY <1>0, NoCopyRow DEF TypeOK, Active, Terminal, Processes, RequestPoints,
    MaintenancePoints, Operations, Codes, Calls, Contents, Verdicts,
    EventTypes
<1> USE DEF IInv
<1>2. ReservationMatchesStatus' /\ OutboxAgrees'
  BY DEF ReservationMatchesStatus, OutboxAgrees
<1>3. CopiesAreVersioned'
  BY CopiesKept DEF TypeOK
<1>4. OneKnownUpload'
  BY <1>1 DEF TypeOK, OneKnownUpload, NoCopy, Known, LockHeld, LockedPoints,
    CopiesAreVersioned, Progress, Processes, Calls, Active
<1>5. ArtifactMatchesObject'
  BY <1>1 DEF TypeOK, ArtifactMatchesObject, NoCopy, OneKnownUpload, Known,
    LockHeld, LockedPoints, Progress, CopiesAreVersioned, Active, Processes,
    Calls
<1>6. AbortedLeavesNothingOpen'
  BY <1>1 DEF TypeOK, AbortedLeavesNothingOpen, NoCopy, Progress,
    CopiesAreVersioned, OneKnownUpload, Known, Active, Processes
<1>7. LockHeld'
  BY <1>1 DEF LockHeld, NoCopy, LockedPoints, Progress, RequestPoints,
    MaintenancePoints, Processes, TypeOK
<1>8. \A q \in Processes : Progress(q)'
  BY <1>1 DEF TypeOK, Progress, LockHeld, LockedPoints, RequestPoints,
    MaintenancePoints, CopiesAreVersioned, OneKnownUpload, Known, Active,
    Terminal, Processes, Calls, NoCopy, Contents
<1>9. QED
  BY <1>1, <1>2, <1>3, <1>4, <1>5, <1>6, <1>7, <1>8 DEF Progress

(* The known upload is completed, or it was and the object is there.       *)
LEMMA CompleteRemoteInv ==
    ASSUME IInv, NEW r \in Requests, CompleteRemote(r)
    PROVE  IInv'
<1> USE DEF CompleteRemote, database, clock, Goto, Reply, StoreComplete,
  NotFound, End, Contents
<1>0. TypeOK
  BY DEF IInv
<1>1. TypeOK'
  BY <1>0, NoCopyRow DEF TypeOK, Active, Terminal, Processes, RequestPoints,
    MaintenancePoints, Operations, Codes, Calls, Contents, Verdicts,
    EventTypes
<1> USE DEF IInv
<1>2. ReservationMatchesStatus' /\ OutboxAgrees'
  BY DEF ReservationMatchesStatus, OutboxAgrees
<1>3. CopiesAreVersioned'
  BY CopiesKept DEF TypeOK
<1>4. OneKnownUpload'
  BY <1>1 DEF TypeOK, OneKnownUpload, NoCopy, Known, LockHeld, LockedPoints,
    CopiesAreVersioned, Progress, Processes, Calls, Active
<1>5. ArtifactMatchesObject'
  BY <1>1 DEF TypeOK, ArtifactMatchesObject, NoCopy, OneKnownUpload, Known,
    LockHeld, LockedPoints, Progress, CopiesAreVersioned, Active, Processes,
    Calls
<1>6. AbortedLeavesNothingOpen'
  BY <1>1 DEF TypeOK, AbortedLeavesNothingOpen, NoCopy, Progress,
    CopiesAreVersioned, OneKnownUpload, Known, Active, Processes
<1>7. LockHeld'
  BY <1>1 DEF LockHeld, NoCopy, LockedPoints, Progress, RequestPoints,
    MaintenancePoints, Processes, TypeOK
<1>8. \A q \in Processes : Progress(q)'
  BY <1>1 DEF TypeOK, Progress, LockHeld, LockedPoints, RequestPoints,
    MaintenancePoints, CopiesAreVersioned, OneKnownUpload, Known, Active,
    Terminal, Processes, Calls, NoCopy, Contents
<1>9. QED
  BY <1>1, <1>2, <1>3, <1>4, <1>5, <1>6, <1>7, <1>8 DEF Progress

(* The same with the answer lost, or the call itself delayed.              *)
LEMMA CompleteRemoteFaultInv ==
    ASSUME IInv, NEW r \in Requests, CompleteRemoteFault(r)
    PROVE  IInv'
<1> USE DEF CompleteRemoteFault, database, store, clock, Reply, Fault,
  StoreComplete, NotFound, End, Contents
<1>0. TypeOK
  BY DEF IInv
<1>1. TypeOK'
  BY <1>0, NoCopyRow DEF TypeOK, Active, Terminal, Processes, RequestPoints,
    MaintenancePoints, Operations, Codes, Calls, Contents, Verdicts,
    EventTypes
<1> USE DEF IInv
<1>2. ReservationMatchesStatus' /\ OutboxAgrees'
  BY DEF ReservationMatchesStatus, OutboxAgrees
<1>3. CopiesAreVersioned'
  BY CopiesKept DEF TypeOK
<1>4. OneKnownUpload'
  BY <1>1 DEF TypeOK, OneKnownUpload, NoCopy, Known, LockHeld, LockedPoints,
    CopiesAreVersioned, Progress, Processes, Calls, Active
<1>5. ArtifactMatchesObject'
  BY <1>1 DEF TypeOK, ArtifactMatchesObject, NoCopy, OneKnownUpload, Known,
    LockHeld, LockedPoints, Progress, CopiesAreVersioned, Active, Processes,
    Calls
<1>6. AbortedLeavesNothingOpen'
  BY <1>1 DEF TypeOK, AbortedLeavesNothingOpen, NoCopy, Progress,
    CopiesAreVersioned, OneKnownUpload, Known, Active, Processes
<1>7. LockHeld'
  BY <1>1 DEF LockHeld, NoCopy, LockedPoints, Progress, RequestPoints,
    MaintenancePoints, Processes, TypeOK
<1>8. \A q \in Processes : Progress(q)'
  BY <1>1 DEF TypeOK, Progress, LockHeld, LockedPoints, RequestPoints,
    MaintenancePoints, CopiesAreVersioned, OneKnownUpload, Known, Active,
    Terminal, Processes, Calls, NoCopy, Contents
<1>9. QED
  BY <1>1, <1>2, <1>3, <1>4, <1>5, <1>6, <1>7, <1>8 DEF Progress

(* The known upload is aborted before the row says so.                     *)
LEMMA CancelAbortInv ==
    ASSUME IInv, NEW r \in Requests, CancelAbort(r)
    PROVE  IInv'
<1> USE DEF CancelAbort, database, clock, Goto, Reply, StoreAbort, NotFound,
  End
<1>0. TypeOK
  BY DEF IInv
<1>1. TypeOK'
  BY <1>0, NoCopyRow DEF TypeOK, Active, Terminal, Processes, RequestPoints,
    MaintenancePoints, Operations, Codes, Calls, Contents, Verdicts,
    EventTypes
<1> USE DEF IInv
<1>2. ReservationMatchesStatus' /\ OutboxAgrees'
  BY DEF ReservationMatchesStatus, OutboxAgrees
<1>3. CopiesAreVersioned'
  BY CopiesKept DEF TypeOK
<1>4. OneKnownUpload'
  BY <1>1 DEF TypeOK, OneKnownUpload, NoCopy, Known, LockHeld, LockedPoints,
    CopiesAreVersioned, Progress, Processes, Calls, Active
<1>5. ArtifactMatchesObject'
  BY <1>1 DEF TypeOK, ArtifactMatchesObject, NoCopy, OneKnownUpload, Known,
    LockHeld, LockedPoints, Progress, CopiesAreVersioned, Active, Processes,
    Calls
<1>6. AbortedLeavesNothingOpen'
  BY <1>1 DEF TypeOK, AbortedLeavesNothingOpen, NoCopy, Progress,
    CopiesAreVersioned, OneKnownUpload, Known, Active, Processes
<1>7. LockHeld'
  BY <1>1 DEF LockHeld, NoCopy, LockedPoints, Progress, RequestPoints,
    MaintenancePoints, Processes, TypeOK
<1>8. \A q \in Processes : Progress(q)'
  BY <1>1 DEF TypeOK, Progress, LockHeld, LockedPoints, RequestPoints,
    MaintenancePoints, CopiesAreVersioned, OneKnownUpload, Known, Active,
    Terminal, Processes, Calls, NoCopy, Contents
<1>9. QED
  BY <1>1, <1>2, <1>3, <1>4, <1>5, <1>6, <1>7, <1>8 DEF Progress

(* The abort fails, is lost, or comes late.                                *)
LEMMA CancelAbortFaultInv ==
    ASSUME IInv, NEW r \in Requests, CancelAbortFault(r)
    PROVE  IInv'
<1> USE DEF CancelAbortFault, database, clock, Reply, AbortFault, End, Fault,
  StoreAbort
<1>0. TypeOK
  BY DEF IInv
<1>1. mem[r].storage_upload_id \in UploadIds
  BY <1>0 DEF IInv, Progress, TypeOK, Row, Processes
<1>2. TypeOK'
  BY <1>0, NoCopyRow, <1>1 DEF TypeOK, Active, Terminal, Processes,
    RequestPoints, MaintenancePoints, Operations, Codes, Calls, Contents,
    Verdicts, EventTypes
<1> USE DEF IInv
<1>3. ReservationMatchesStatus' /\ OutboxAgrees'
  BY DEF ReservationMatchesStatus, OutboxAgrees
<1>4. CopiesAreVersioned'
  BY CopiesKept DEF TypeOK
<1>5. OneKnownUpload'
  BY <1>2 DEF TypeOK, OneKnownUpload, NoCopy, Known, LockHeld, LockedPoints,
    CopiesAreVersioned, Progress, Processes, Calls, Active
<1>6. ArtifactMatchesObject'
  BY <1>2 DEF TypeOK, ArtifactMatchesObject, NoCopy, OneKnownUpload, Known,
    LockHeld, LockedPoints, Progress, CopiesAreVersioned, Active, Processes,
    Calls
<1>7. AbortedLeavesNothingOpen'
  BY <1>2 DEF TypeOK, AbortedLeavesNothingOpen, NoCopy, Progress,
    CopiesAreVersioned, OneKnownUpload, Known, Active, Processes
<1>8. LockHeld'
  BY <1>2 DEF LockHeld, NoCopy, LockedPoints, Progress, RequestPoints,
    MaintenancePoints, Processes, TypeOK
<1>9. \A q \in Processes : Progress(q)'
  BY <1>2 DEF TypeOK, Progress, LockHeld, LockedPoints, RequestPoints,
    MaintenancePoints, CopiesAreVersioned, OneKnownUpload, Known, Active,
    Terminal, Processes, Calls, NoCopy, Contents
<1>10. QED
  BY <1>1, <1>2, <1>3, <1>4, <1>5, <1>6, <1>7, <1>8, <1>9 DEF Progress

(* Maintenance aborts it too.                                              *)
LEMMA MaintAbortInv ==
    ASSUME IInv, MaintAbort
    PROVE  IInv'
<1> USE DEF MaintAbort, database, clock, Goto, StoreAbort, NotFound
<1>0. TypeOK
  BY DEF IInv
<1>1. TypeOK'
  BY <1>0, NoCopyRow DEF TypeOK, Active, Terminal, Processes, RequestPoints,
    MaintenancePoints, Operations, Codes, Calls, Contents, Verdicts,
    EventTypes
<1> USE DEF IInv
<1>2. ReservationMatchesStatus' /\ OutboxAgrees'
  BY DEF ReservationMatchesStatus, OutboxAgrees
<1>3. CopiesAreVersioned'
  BY CopiesKept DEF TypeOK
<1>4. OneKnownUpload'
  BY <1>1 DEF TypeOK, OneKnownUpload, NoCopy, Known, LockHeld, LockedPoints,
    CopiesAreVersioned, Progress, Processes, Calls, Active
<1>5. ArtifactMatchesObject'
  BY <1>1 DEF TypeOK, ArtifactMatchesObject, NoCopy, OneKnownUpload, Known,
    LockHeld, LockedPoints, Progress, CopiesAreVersioned, Active, Processes,
    Calls
<1>6. AbortedLeavesNothingOpen'
  BY <1>1 DEF TypeOK, AbortedLeavesNothingOpen, NoCopy, Progress,
    CopiesAreVersioned, OneKnownUpload, Known, Active, Processes
<1>7. LockHeld'
  BY <1>1 DEF LockHeld, NoCopy, LockedPoints, Progress, RequestPoints,
    MaintenancePoints, Processes, TypeOK
<1>8. \A q \in Processes : Progress(q)'
  BY <1>1 DEF TypeOK, Progress, LockHeld, LockedPoints, RequestPoints,
    MaintenancePoints, CopiesAreVersioned, OneKnownUpload, Known, Active,
    Terminal, Processes, Calls, NoCopy, Contents
<1>9. QED
  BY <1>1, <1>2, <1>3, <1>4, <1>5, <1>6, <1>7, <1>8 DEF Progress

(* And may fail in the same ways.                                          *)
LEMMA MaintAbortFaultInv ==
    ASSUME IInv, MaintAbortFault
    PROVE  IInv'
<1> USE DEF MaintAbortFault, database, clock, Goto, AbortFault, Fault,
  StoreAbort
<1>0. TypeOK
  BY DEF IInv
<1>1. mem[Maintenance].storage_upload_id \in UploadIds
  BY <1>0 DEF IInv, Progress, TypeOK, Row, Processes
<1>2. TypeOK'
  BY <1>0, NoCopyRow, <1>1 DEF TypeOK, Active, Terminal, Processes,
    RequestPoints, MaintenancePoints, Operations, Codes, Calls, Contents,
    Verdicts, EventTypes
<1> USE DEF IInv
<1>3. ReservationMatchesStatus' /\ OutboxAgrees'
  BY DEF ReservationMatchesStatus, OutboxAgrees
<1>4. CopiesAreVersioned'
  BY CopiesKept DEF TypeOK
<1>5. OneKnownUpload'
  BY <1>2 DEF TypeOK, OneKnownUpload, NoCopy, Known, LockHeld, LockedPoints,
    CopiesAreVersioned, Progress, Processes, Calls, Active
<1>6. ArtifactMatchesObject'
  BY <1>2 DEF TypeOK, ArtifactMatchesObject, NoCopy, OneKnownUpload, Known,
    LockHeld, LockedPoints, Progress, CopiesAreVersioned, Active, Processes,
    Calls
<1>7. AbortedLeavesNothingOpen'
  BY <1>2 DEF TypeOK, AbortedLeavesNothingOpen, NoCopy, Progress,
    CopiesAreVersioned, OneKnownUpload, Known, Active, Processes
<1>8. LockHeld'
  BY <1>2 DEF LockHeld, NoCopy, LockedPoints, Progress, RequestPoints,
    MaintenancePoints, Processes, TypeOK
<1>9. \A q \in Processes : Progress(q)'
  BY <1>2 DEF TypeOK, Progress, LockHeld, LockedPoints, RequestPoints,
    MaintenancePoints, CopiesAreVersioned, OneKnownUpload, Known, Active,
    Terminal, Processes, Calls, NoCopy, Contents
<1>10. QED
  BY <1>1, <1>2, <1>3, <1>4, <1>5, <1>6, <1>7, <1>8, <1>9 DEF Progress

(* A late call can only complete or abort the one known upload, which is   *)
(* closed once the object exists.                                          *)
LEMMA LateCallInv ==
    ASSUME IInv, LateCall
    PROVE  IInv'
<1> USE DEF LateCall, database, clock, StoreComplete, StoreAbort, Contents
<1>0. TypeOK
  BY DEF IInv
<1>1. TypeOK'
  BY <1>0, NoCopyRow DEF TypeOK, Active, Terminal, Processes, RequestPoints,
    MaintenancePoints, Operations, Codes, Calls, Contents, Verdicts,
    EventTypes
<1> USE DEF IInv
<1>2. ReservationMatchesStatus' /\ OutboxAgrees'
  BY DEF ReservationMatchesStatus, OutboxAgrees
<1>3. CopiesAreVersioned'
  BY CopiesKept DEF TypeOK
<1>4. OneKnownUpload'
  BY <1>1 DEF TypeOK, OneKnownUpload, NoCopy, Known, LockHeld, LockedPoints,
    CopiesAreVersioned, Progress, Processes, Calls, Active
<1>5. ArtifactMatchesObject'
  BY <1>1 DEF TypeOK, ArtifactMatchesObject, NoCopy, OneKnownUpload, Known,
    LockHeld, LockedPoints, Progress, CopiesAreVersioned, Active, Processes,
    Calls
<1>6. AbortedLeavesNothingOpen'
  BY <1>1 DEF TypeOK, AbortedLeavesNothingOpen, NoCopy, Progress,
    CopiesAreVersioned, OneKnownUpload, Known, Active, Processes
<1>7. LockHeld'
  BY <1>1 DEF LockHeld, NoCopy, LockedPoints, Progress, RequestPoints,
    MaintenancePoints, Processes, TypeOK
<1>8. \A q \in Processes : Progress(q)'
  BY <1>1 DEF TypeOK, Progress, LockHeld, LockedPoints, RequestPoints,
    MaintenancePoints, CopiesAreVersioned, OneKnownUpload, Known, Active,
    Terminal, Processes, Calls, NoCopy, Contents
<1>9. QED
  BY <1>1, <1>2, <1>3, <1>4, <1>5, <1>6, <1>7, <1>8 DEF Progress


----------------------------------------------------------------------------
(* Steps that change the row. *)

(* What an expiry does to the session, whoever commits it. *)
LEMMA ExpiredStep ==
    ASSUME IInv, row.status \in Active, Update(Released(row, "EXPIRED")),
           artifact' = artifact, UNCHANGED store,
           outbox' = outbox \/ outbox' = outbox \cup {"Expired"},
           \A q \in Processes : mem'[q] \in {mem[q], NoCopy}
    PROVE  /\ row' \in Row
           /\ row'.status = "EXPIRED"
           /\ ReservationMatchesStatus'
           /\ CopiesAreVersioned'
           /\ OneKnownUpload'
           /\ ArtifactMatchesObject'
           /\ AbortedLeavesNothingOpen'
           /\ OutboxAgrees'
<1> USE DEF IInv
<1>1. /\ row' \in Row
      /\ row'.status = "EXPIRED"
      /\ row'.storage_upload_id = row.storage_upload_id
      /\ row'.reserved_bytes = 0
      /\ row'.version = row.version + 1
  BY UpdateRow, ReleasedRow DEF TypeOK, Terminal
<1>2. ReservationMatchesStatus'
  BY <1>1 DEF ReservationMatchesStatus, Active
<1>3. CopiesAreVersioned'
  BY <1>1, CopiesUpdated DEF Active
<1>4. OneKnownUpload'
  <2>1. \A u \in UploadIds : Known(u)' => Known(u)
    BY <1>1 DEF Known, NoCopy, store
  <2>2. QED
    BY <1>1, <2>1 DEF OneKnownUpload, store
<1>5. ArtifactMatchesObject' /\ AbortedLeavesNothingOpen' /\ OutboxAgrees'
  BY <1>1 DEF ArtifactMatchesObject, AbortedLeavesNothingOpen, OutboxAgrees,
    Active, store
<1>6. QED
  BY <1>1, <1>2, <1>3, <1>4, <1>5

(* An expiry of the row this handler has locked.                           *)
LEMMA ExpireLockedInv ==
    ASSUME IInv, NEW r \in Requests, NEW op \in Operations,
           pc[r] = "idle", RowFree, ExpireLocked(r, op)
    PROVE  IInv'
<1> USE DEF ExpireLocked, Reply, End, expire_if_needed, RowFree, store, clock
<1>0. TypeOK
  BY DEF IInv
<1>1. /\ row' \in Row /\ row'.status = "EXPIRED"
      /\ ReservationMatchesStatus' /\ CopiesAreVersioned' /\ OneKnownUpload'
      /\ ArtifactMatchesObject' /\ AbortedLeavesNothingOpen' /\ OutboxAgrees'
  BY <1>0, ExpiredStep DEF TypeOK, Processes
<1>2. TypeOK'
  BY <1>0, <1>1, NoCopyRow DEF TypeOK, Processes, Codes, Operations
<1> USE DEF IInv
<1>3. LockHeld'
  BY <1>2 DEF LockHeld, LockedPoints, TypeOK, Processes
<1>4. \A q \in Processes : Progress(q)'
  BY <1>1, <1>2 DEF Progress, LockHeld, LockedPoints, TypeOK, Processes,
    RequestPoints, MaintenancePoints, NoCopy, Active
<1>5. QED
  BY <1>1, <1>2, <1>3, <1>4 DEF Progress

(* An expiry from an unlocked copy: fresh, it is the expiry above; stale, the *)
(* handler fails and changes nothing.                                      *)
LEMMA ExpireLoadedInv ==
    ASSUME IInv, NEW r \in Requests, NEW op \in Operations, NEW code \in Codes,
           NEW events \in SUBSET {"Expired"},
           pc[r] \in {"get_expire", "register_expire", "cancel_expire"},
           ExpireLoaded(r, op, code, events)
    PROVE  IInv'
<1> USE DEF ExpireLoaded, Reply, End, RowFree, store, clock
<1>0. TypeOK
  BY DEF IInv
<1>1. /\ row' \in Row
      /\ row' # row => row'.status = "EXPIRED" /\ row.status \in Active
      /\ ReservationMatchesStatus' /\ CopiesAreVersioned' /\ OneKnownUpload'
      /\ ArtifactMatchesObject' /\ AbortedLeavesNothingOpen' /\ OutboxAgrees'
  <2>1. CASE Fresh(r)
    <3>1. mem[r] = row /\ row.status \in Active
      BY <2>1 DEF IInv, Fresh, CopiesAreVersioned, Progress, Processes
    <3>2. events = {} \/ events = {"Expired"}
      OBVIOUS
    <3>3. /\ Update(Released(row, "EXPIRED"))
          /\ outbox' = outbox \/ outbox' = outbox \cup {"Expired"}
          /\ \A q \in Processes : mem'[q] \in {mem[q], NoCopy}
          /\ artifact' = artifact /\ UNCHANGED store
      BY <1>0, <2>1, <3>1, <3>2 DEF TypeOK, Fresh, Processes
    <3>4. QED
      BY <3>1, <3>3, ExpiredStep
  <2>2. CASE ~Fresh(r)
    BY <1>0, <2>2, QuietStep DEF TypeOK, Processes
  <2>3. QED
    BY <2>1, <2>2
<1>2. TypeOK'
  <2>1. outbox' \subseteq EventTypes
    BY <1>0 DEF TypeOK, EventTypes
  <2>2. QED
    BY <1>0, <1>1, <2>1, NoCopyRow DEF TypeOK, Processes, Codes, Operations
<1> USE DEF IInv
<1>3. LockHeld'
  BY <1>2 DEF LockHeld, LockedPoints, TypeOK, Processes
<1>4. \A q \in Processes : Progress(q)'
  BY <1>1, <1>2 DEF Progress, LockHeld, LockedPoints, TypeOK, Processes,
    RequestPoints, MaintenancePoints, NoCopy, Active
<1>5. QED
  BY <1>1, <1>2, <1>3, <1>4 DEF Progress

(* get expires without a lock ...                                          *)
LEMMA GetExpireInv == ASSUME IInv, NEW r \in Requests, GetExpire(r) PROVE IInv'
BY ExpireLoadedInv DEF GetExpire, Operations, Codes

(* ... so does register ...                                                *)
LEMMA RegisterExpireInv ==
    ASSUME IInv, NEW r \in Requests, RegisterExpire(r) PROVE IInv'
BY ExpireLoadedInv DEF RegisterExpire, Operations, Codes

(* ... and so does cancel.                                                 *)
LEMMA CancelExpireInv ==
    ASSUME IInv, NEW r \in Requests, CancelExpire(r) PROVE IInv'
BY ExpireLoadedInv DEF CancelExpire, Operations, Codes

(* sign's first step expires the row, locks it, or answers.                *)
LEMMA SignLockInv == ASSUME IInv, NEW r \in Requests, SignLock(r) PROVE IInv'
<1>0. TypeOK
  BY DEF IInv
<1>1. CASE ExpireLocked(r, "sign")
  BY <1>1, ExpireLockedInv DEF SignLock, Operations
<1>2. CASE ~ExpireLocked(r, "sign")
  <2> USE DEF SignLock, Load, Reply, End, RowFree, database, store, clock
  <2>1. TypeOK'
    BY <1>0, <1>2, NoCopyRow DEF TypeOK, Processes, RequestPoints, Codes,
      Operations
  <2>2. /\ ReservationMatchesStatus' /\ CopiesAreVersioned' /\ OneKnownUpload'
        /\ ArtifactMatchesObject' /\ AbortedLeavesNothingOpen' /\ OutboxAgrees'
    BY <1>0, <1>2, QuietStep DEF TypeOK, Processes
  <2> USE DEF IInv
  <2>3. LockHeld'
    BY <1>2, <2>1 DEF LockHeld, LockedPoints, TypeOK, Processes
  <2>4. \A q \in Processes : Progress(q)'
    BY <1>2, <2>1 DEF Progress, TypeOK, Processes, RequestPoints,
      MaintenancePoints, NoCopy
  <2>5. QED
    BY <2>1, <2>2, <2>3, <2>4 DEF Progress
<1>3. QED
  BY <1>1, <1>2

(* sign's COMMIT: its copy is the row, so the identifier it writes is the  *)
(* only one any process knows.                                             *)
LEMMA SignCommitInv == ASSUME IInv, NEW r \in Requests, SignCommit(r) PROVE IInv'
<1> USE DEF SignCommit, Reply, End, store, clock
<1>0. TypeOK /\ r \in Processes
  BY DEF IInv, Processes
<1>1. /\ row = mem[r] /\ row.status = "PENDING_UPLOAD" /\ lock = r
      /\ local[r] \in UploadIds /\ remote[local[r]] = "open"
  BY <1>0 DEF IInv, LockHeld, LockedPoints, Progress
<1>2. /\ row' \in Row
      /\ row'.status = "UPLOADING"
      /\ row'.storage_upload_id = local[r]
      /\ row'.reserved_bytes = row.reserved_bytes
      /\ row'.version = row.version + 1
  <2> DEFINE new == [row EXCEPT !.status = "UPLOADING",
                                !.storage_upload_id = local[r]]
  <2>1. /\ new \in Row /\ new.status = "UPLOADING"
        /\ new.storage_upload_id = local[r]
        /\ new.reserved_bytes = row.reserved_bytes
    BY <1>0, <1>1 DEF TypeOK, Row, Active
  <2>2. Update(new)
    BY <1>1
  <2> HIDE DEF new
  <2>3. QED
    BY <1>0, <2>1, <2>2, UpdateRow DEF TypeOK
<1>3. TypeOK'
  <2>1. outbox' \subseteq EventTypes
    BY <1>0 DEF TypeOK, EventTypes
  <2>2. QED
    BY <1>0, <1>2, <2>1, NoCopyRow DEF TypeOK, Codes, Operations
<1> USE DEF IInv
<1>4. ReservationMatchesStatus'
  BY <1>1, <1>2 DEF ReservationMatchesStatus, Active
<1>5. CopiesAreVersioned'
  BY <1>0, <1>1, <1>2, CopiesUpdated DEF TypeOK
<1>6. OneKnownUpload'
  <2>1. object = None /\ \A u \in UploadIds : Known(u)' => u = local[r]
    BY <1>0, <1>1, <1>2 DEF OneKnownUpload, Known, NoCopy, TypeOK
  <2>2. QED
    BY <1>0, <1>1, <1>2, <2>1 DEF OneKnownUpload
<1>7. ArtifactMatchesObject' /\ AbortedLeavesNothingOpen' /\ OutboxAgrees'
  BY <1>1, <1>2 DEF ArtifactMatchesObject, AbortedLeavesNothingOpen,
    OutboxAgrees
<1>8. LockHeld'
  BY <1>0, <1>1, <1>3 DEF LockHeld, LockedPoints, TypeOK, Processes
<1>9. \A q \in Processes : Progress(q)'
  BY <1>0, <1>1, <1>2 DEF Progress, LockHeld, LockedPoints, TypeOK, Processes,
    RequestPoints, MaintenancePoints, NoCopy
<1>10. QED
  BY <1>3, <1>4, <1>5, <1>6, <1>7, <1>8, <1>9 DEF Progress

(* The checkpoint, which leaves the row unlocked. *)
LEMMA CheckpointInv ==
    ASSUME IInv, NEW r \in Requests, pc[r] = "idle", RowFree,
           row.status = "UPLOADING", Update([row EXCEPT !.status = "COMPLETING"]),
           Goto(r, "complete_relock"),
           UNCHANGED <<local, lock, parts, artifact, outbox, store, clock, faults>>
    PROVE  IInv'
<1> USE DEF Goto, RowFree, store, clock
<1>0. TypeOK /\ r \in Processes
  BY DEF IInv, Processes
<1>1. /\ row' \in Row
      /\ row'.status = "COMPLETING"
      /\ row'.storage_upload_id = row.storage_upload_id
      /\ row'.reserved_bytes = row.reserved_bytes
      /\ row'.version = row.version + 1
  <2> DEFINE new == [row EXCEPT !.status = "COMPLETING"]
  <2>1. /\ new \in Row /\ new.status = "COMPLETING"
        /\ new.storage_upload_id = row.storage_upload_id
        /\ new.reserved_bytes = row.reserved_bytes
    BY <1>0 DEF TypeOK, Row, Active
  <2>2. Update(new)
    OBVIOUS
  <2> HIDE DEF new
  <2>3. QED
    BY <1>0, <2>1, <2>2, UpdateRow DEF TypeOK
<1>2. TypeOK'
  BY <1>0, <1>1 DEF TypeOK, RequestPoints
<1> USE DEF IInv
<1>3. ReservationMatchesStatus'
  BY <1>1 DEF ReservationMatchesStatus, Active
<1>4. CopiesAreVersioned'
  BY <1>1, CopiesUpdated
<1>5. OneKnownUpload'
  <2>1. \A u \in UploadIds : Known(u)' => Known(u)
    BY <1>1 DEF Known
  <2>2. QED
    BY <1>1, <2>1 DEF OneKnownUpload
<1>6. ArtifactMatchesObject' /\ AbortedLeavesNothingOpen' /\ OutboxAgrees'
  BY <1>1 DEF ArtifactMatchesObject, AbortedLeavesNothingOpen, OutboxAgrees
<1>7. LockHeld'
  BY <1>0 DEF LockHeld, LockedPoints, TypeOK, Processes
<1>8. \A q \in Processes : Progress(q)'
  BY <1>0, <1>1 DEF Progress, LockHeld, LockedPoints, TypeOK, Processes,
    RequestPoints, MaintenancePoints
<1>9. QED
  BY <1>2, <1>3, <1>4, <1>5, <1>6, <1>7, <1>8 DEF Progress

(* complete's first transaction expires, checkpoints, locks or answers.    *)
LEMMA CompleteLockInv ==
    ASSUME IInv, NEW r \in Requests, CompleteLock(r) PROVE IInv'
<1>0. TypeOK
  BY DEF IInv
<1>1. CASE ExpireLocked(r, "complete")
  BY <1>1, ExpireLockedInv DEF CompleteLock, Operations
<1>2. CASE ~ExpireLocked(r, "complete") /\ row' # row
  BY <1>2, CheckpointInv DEF CompleteLock, database
<1>3. CASE ~ExpireLocked(r, "complete") /\ row' = row
  <2> USE DEF CompleteLock, Load, Goto, Reply, End, RowFree, database, store, clock
  <2>1. ~Update([row EXCEPT !.status = "COMPLETING"])
    <3>1. [row EXCEPT !.status = "COMPLETING"] \in Row /\ row.version \in Nat
      BY <1>0 DEF TypeOK, Row, Active
    <3>2. QED
      BY <1>0, <1>3, <3>1, UpdateRow DEF TypeOK
  <2>2. /\ \/ Load(r, "complete_remote") /\ lock' = r /\ row.status = "COMPLETING"
           \/ \E code \in Codes : Reply(r, "complete", code)
        /\ UNCHANGED <<database, store, clock, faults>>
    BY <1>3, <2>1 DEF Codes
  <2> HIDE DEF CompleteLock
  <2>3. TypeOK'
    BY <1>0, <2>2, NoCopyRow DEF TypeOK, Processes, RequestPoints, Operations
  <2>4. /\ ReservationMatchesStatus' /\ CopiesAreVersioned' /\ OneKnownUpload'
        /\ ArtifactMatchesObject' /\ AbortedLeavesNothingOpen' /\ OutboxAgrees'
    BY <1>0, <2>2, QuietStep DEF TypeOK, Processes
  <2>5. pc[r] = "idle" /\ lock = None
    BY DEF CompleteLock
  <2> USE DEF IInv
  <2>6. LockHeld'
    BY <2>2, <2>3, <2>5 DEF LockHeld, LockedPoints, TypeOK, Processes
  <2>7. \A q \in Processes : Progress(q)'
    BY <2>2, <2>3, <2>5 DEF Progress, TypeOK, Processes, RequestPoints,
      MaintenancePoints, NoCopy
  <2>8. QED
    BY <2>3, <2>4, <2>6, <2>7 DEF Progress
<1>4. QED
  BY <1>1, <1>2, <1>3

(* complete's COMMIT: the store's object is closed and was verified under  *)
(* the lock.                                                               *)
LEMMA CompleteCommitInv ==
    ASSUME IInv, NEW r \in Requests, CompleteCommit(r) PROVE IInv'
<1> USE DEF CompleteCommit, Reply, End, Verdict, store, clock
<1>0. TypeOK /\ r \in Processes
  BY DEF IInv, Processes
<1>1. /\ row = mem[r] /\ row.status \in {"COMPLETING", "EXPIRED"} /\ lock = r
      /\ object # None /\ local[r] = object
  BY <1>0 DEF IInv, LockHeld, LockedPoints, Progress
<1>2. /\ row' \in Row
      /\ row'.status = "COMPLETED"
      /\ row'.storage_upload_id = row.storage_upload_id
      /\ row'.reserved_bytes = 0
      /\ row'.version = row.version + 1
  BY <1>0, <1>1, UpdateRow, ReleasedRow DEF TypeOK, Terminal
<1>3. TypeOK'
  <2>1. outbox' \subseteq EventTypes
    BY <1>0 DEF TypeOK, EventTypes
  <2>2. artifact' \in Verdicts \cup {None}
    BY DEF Verdicts
  <2>3. QED
    BY <1>0, <1>2, <2>1, <2>2, NoCopyRow DEF TypeOK, Codes, Operations
<1> USE DEF IInv
<1>4. ReservationMatchesStatus'
  BY <1>2 DEF ReservationMatchesStatus, Active
<1>5. CopiesAreVersioned'
  BY <1>0, <1>1, <1>2, CopiesUpdated DEF TypeOK
<1>6. OneKnownUpload'
  <2>1. \A u \in UploadIds : Known(u)' => Known(u)
    BY <1>0, <1>2 DEF Known, NoCopy, TypeOK
  <2>2. QED
    BY <1>2, <2>1 DEF OneKnownUpload
<1>7. ArtifactMatchesObject'
  <2>1. object \in Contents
    BY <1>0, <1>1 DEF TypeOK
  <2>2. QED
    BY <1>0, <1>1, <1>2, <2>1 DEF ArtifactMatchesObject, Contents, Verdicts
<1>8. AbortedLeavesNothingOpen' /\ OutboxAgrees'
  BY <1>0, <1>1, <1>2 DEF ArtifactMatchesObject, AbortedLeavesNothingOpen,
    OutboxAgrees, Verdicts
<1>9. LockHeld'
  BY <1>0, <1>1, <1>3 DEF LockHeld, LockedPoints, TypeOK, Processes
<1>10. \A q \in Processes : Progress(q)'
  BY <1>0, <1>1, <1>2 DEF Progress, LockHeld, LockedPoints, TypeOK, Processes,
    RequestPoints, MaintenancePoints, NoCopy
<1>11. QED
  BY <1>3, <1>4, <1>5, <1>6, <1>7, <1>8, <1>9, <1>10 DEF Progress

(* cancel's COMMIT: a fresh copy is the row whose upload it has aborted.   *)
LEMMA CancelCommitInv ==
    ASSUME IInv, NEW r \in Requests, CancelCommit(r) PROVE IInv'
<1> USE DEF CancelCommit, Reply, End, RowFree, store, clock
<1>0. TypeOK /\ r \in Processes
  BY DEF IInv, Processes
<1>1. /\ row' \in Row
      /\ row'.storage_upload_id = row.storage_upload_id
      /\ \/ row' = row /\ outbox' = outbox
         \/ /\ row' = row /\ row.status = "ABORTED"
            /\ outbox' = outbox \cup {"Cancelled"}
         \/ /\ mem[r] = row /\ row.status \in {"PENDING_UPLOAD", "UPLOADING"}
            /\ lock = None
            /\ row'.status = "ABORTED" /\ row'.reserved_bytes = 0
            /\ row'.version = row.version + 1
            /\ outbox' = outbox \cup {"Cancelled"}
  <2>1. CASE mem[r].status = "ABORTED"
    BY <1>0, <2>1 DEF IInv, CopiesAreVersioned, TypeOK
  <2>2. CASE mem[r].status # "ABORTED" /\ Fresh(r)
    <3>1. mem[r] = row /\ row.status \in {"PENDING_UPLOAD", "UPLOADING"}
      BY <1>0, <2>2 DEF IInv, CopiesAreVersioned, Fresh, Progress
    <3>2. Update(Released(row, "ABORTED")) /\ lock = None
          /\ outbox' = outbox \cup {"Cancelled"}
      BY <2>2, <3>1
    <3>3. QED
      BY <1>0, <3>1, <3>2, UpdateRow, ReleasedRow DEF TypeOK, Terminal
  <2>3. CASE mem[r].status # "ABORTED" /\ ~Fresh(r)
    BY <1>0, <2>3 DEF TypeOK
  <2>4. QED
    BY <2>1, <2>2, <2>3
<1>2. TypeOK'
  <2>1. outbox' \subseteq EventTypes
    BY <1>0, <1>1 DEF TypeOK, EventTypes
  <2>2. QED
    BY <1>0, <1>1, <2>1, NoCopyRow DEF TypeOK, Codes, Operations
<1>3. /\ pc[r] = "cancel_commit" /\ End(r)
      /\ \A q \in Processes : mem'[q] \in {mem[q], NoCopy}
      /\ UNCHANGED <<artifact, store>>
  BY <1>0 DEF TypeOK
<1> HIDE DEF CancelCommit, Reply, RowFree
<1> USE DEF IInv
<1>4. ReservationMatchesStatus'
  BY <1>1 DEF ReservationMatchesStatus, Active
<1>5. CopiesAreVersioned'
  BY <1>1, <1>3, CopiesKept, CopiesUpdated
<1>6. OneKnownUpload'
  <2>1. \A u \in UploadIds : Known(u)' => Known(u)
    BY <1>1, <1>3 DEF Known, NoCopy
  <2>2. QED
    BY <1>1, <1>3, <2>1 DEF OneKnownUpload
<1>7. AbortedLeavesNothingOpen'
  <2>1. \A u \in UploadIds : mem[r].storage_upload_id = u => remote[u] # "open"
    BY <1>0, <1>3 DEF Progress
  <2>2. QED
    BY <1>1, <1>3, <2>1 DEF AbortedLeavesNothingOpen, store
<1>8. ArtifactMatchesObject' /\ OutboxAgrees'
  BY <1>1, <1>3 DEF ArtifactMatchesObject, OutboxAgrees
<1>9. LockHeld'
  BY <1>0, <1>1, <1>2, <1>3 DEF LockHeld, LockedPoints, TypeOK, Processes
<1>10. \A q \in Processes : Progress(q)'
  BY <1>0, <1>1, <1>3 DEF Progress, LockHeld, LockedPoints, TypeOK, Processes,
    RequestPoints, MaintenancePoints, NoCopy
<1>11. QED
  BY <1>2, <1>4, <1>5, <1>6, <1>7, <1>8, <1>9, <1>10 DEF Progress

(* The expiry of a maintenance pass.                                       *)
LEMMA MaintExpireInv == ASSUME IInv, MaintExpire PROVE IInv'
<1> USE DEF MaintExpire, Goto, End, RowFree, store, clock
<1>0. TypeOK /\ Maintenance \in Processes
  BY DEF IInv, Processes
<1>1. /\ row' \in Row
      /\ row' # row => row'.status = "EXPIRED" /\ row.status \in Active
      /\ ReservationMatchesStatus' /\ CopiesAreVersioned' /\ OneKnownUpload'
      /\ ArtifactMatchesObject' /\ AbortedLeavesNothingOpen' /\ OutboxAgrees'
  <2>1. CASE Fresh(Maintenance)
    <3>1. mem[Maintenance] = row /\ row.status \in Active
      BY <1>0, <2>1 DEF IInv, Fresh, CopiesAreVersioned, Progress
    <3>2. QED
      BY <1>0, <2>1, <3>1, ExpiredStep DEF TypeOK, Fresh
  <2>2. CASE ~Fresh(Maintenance)
    BY <1>0, <2>2, QuietStep DEF TypeOK
  <2>3. QED
    BY <2>1, <2>2
<1>2. TypeOK'
  <2>1. outbox' \subseteq EventTypes
    BY <1>0 DEF TypeOK, EventTypes
  <2>2. QED
    BY <1>0, <1>1, <2>1, NoCopyRow DEF TypeOK, MaintenancePoints
<1> USE DEF IInv
<1>3. LockHeld'
  BY <1>0, <1>2 DEF LockHeld, LockedPoints, TypeOK, Processes
<1>4. \A q \in Processes : Progress(q)'
  BY <1>0, <1>1, <1>2 DEF Progress, LockHeld, LockedPoints, TypeOK, Processes,
    RequestPoints, MaintenancePoints, NoCopy, Active
<1>5. QED
  BY <1>1, <1>2, <1>3, <1>4 DEF Progress

(* Clearing the identifier and recording a failure change no status.       *)
LEMMA SameStatusStep ==
    ASSUME IInv, pc[Maintenance] \in {"maint_clear", "maint_record"}, RowFree,
           \/ row' = row
           \/ /\ row' \in Row /\ row'.version = row.version + 1
              /\ row'.status = row.status
              /\ row'.reserved_bytes = row.reserved_bytes
              /\ row'.storage_upload_id \in {row.storage_upload_id, None},
           End(Maintenance), backoff' \in BOOLEAN, answer' = None,
           UNCHANGED <<parts, artifact, outbox, store, ttlPassed, faults>>
    PROVE  IInv'
<1> USE DEF End, RowFree, store
<1>0. TypeOK /\ Maintenance \in Processes
  BY DEF IInv, Processes
<1>1. TypeOK'
  BY <1>0, NoCopyRow DEF TypeOK
<1>2. row'.status = row.status /\ row'.reserved_bytes = row.reserved_bytes
      /\ row'.storage_upload_id \in {row.storage_upload_id, None}
  OBVIOUS
<1> USE DEF IInv
<1>3. ReservationMatchesStatus' /\ ArtifactMatchesObject' /\ OutboxAgrees'
      /\ AbortedLeavesNothingOpen'
  BY <1>2 DEF ReservationMatchesStatus, ArtifactMatchesObject, OutboxAgrees,
    AbortedLeavesNothingOpen
<1>4. CopiesAreVersioned'
  BY <1>0, CopiesKept, CopiesUpdated DEF TypeOK
<1>5. OneKnownUpload'
  <2>1. \A u \in UploadIds : Known(u)' => Known(u)
    BY <1>0, <1>2 DEF Known, NoCopy, TypeOK
  <2>2. QED
    BY <1>2, <2>1 DEF OneKnownUpload
<1>6. LockHeld'
  BY <1>0, <1>1 DEF LockHeld, LockedPoints, TypeOK, Processes
<1>7. \A q \in Processes : Progress(q)'
  BY <1>0, <1>1, <1>2 DEF Progress, TypeOK, Processes, RequestPoints,
    MaintenancePoints, NoCopy
<1>8. QED
  BY <1>1, <1>3, <1>4, <1>5, <1>6, <1>7 DEF Progress

(* Forgetting the identifier, unless the row has moved on.                 *)
LEMMA MaintClearInv == ASSUME IInv, MaintClear PROVE IInv'
<1>0. TypeOK
  BY DEF IInv
<1>1. \/ row' = row
      \/ /\ row' \in Row /\ row'.version = row.version + 1
         /\ row'.status = row.status
         /\ row'.reserved_bytes = row.reserved_bytes
         /\ row'.storage_upload_id \in {row.storage_upload_id, None}
  <2> DEFINE new == [row EXCEPT !.storage_upload_id = None]
  <2>1. /\ new \in Row /\ new.status = row.status
        /\ new.reserved_bytes = row.reserved_bytes /\ new.storage_upload_id = None
    BY <1>0 DEF TypeOK, Row
  <2>2. Update(new) \/ row' = row
    BY DEF MaintClear
  <2> HIDE DEF new
  <2>3. QED
    BY <1>0, <2>1, <2>2, UpdateRow DEF TypeOK
<1>2. backoff' \in BOOLEAN
  BY <1>0 DEF MaintClear, TypeOK
<1>3. QED
  BY <1>1, <1>2, SameStatusStep DEF MaintClear

(* Recording a failed abort.                                               *)
LEMMA MaintRecordInv == ASSUME IInv, MaintRecord PROVE IInv'
<1>0. TypeOK
  BY DEF IInv
<1>1. \/ row' = row
      \/ /\ row' \in Row /\ row'.version = row.version + 1
         /\ row'.status = row.status
         /\ row'.reserved_bytes = row.reserved_bytes
         /\ row'.storage_upload_id \in {row.storage_upload_id, None}
  BY <1>0, UpdateRow DEF MaintRecord, TypeOK
<1>2. backoff' \in BOOLEAN
  BY <1>0 DEF MaintRecord, TypeOK
<1>3. QED
  BY <1>1, <1>2, SameStatusStep DEF MaintRecord

----------------------------------------------------------------------------
(* The invariant. *)

(* The row create_upload_session commits satisfies the invariant.          *)
LEMMA InitInv == Init => IInv
<1> SUFFICES ASSUME Init PROVE IInv
  OBVIOUS
<1> USE DEF Init
<1>1. TypeOK
  <2>1. row \in Row
    BY DEF Row, Active
  <2>2. mem \in [Processes -> Row]
    BY NoCopyRow
  <2>3. faults \in 0 .. MaxFaults
    OBVIOUS
  <2>4. remote \in [UploadIds -> {"unused", "open", "completed", "aborted"}]
    OBVIOUS
  <2>5. QED
    BY <2>1, <2>2, <2>3, <2>4 DEF TypeOK
<1>2. ReservationMatchesStatus
  BY DEF ReservationMatchesStatus, Active
<1>3. CopiesAreVersioned
  BY DEF CopiesAreVersioned, NoCopy
<1>4. LockHeld
  BY DEF LockHeld, LockedPoints, Processes
<1>5. \A p \in Processes : Progress(p)
  BY DEF Progress, RequestPoints, MaintenancePoints
<1>6. OneKnownUpload
  BY DEF OneKnownUpload, Known, NoCopy
<1>7. ArtifactMatchesObject /\ AbortedLeavesNothingOpen /\ OutboxAgrees
  BY DEF ArtifactMatchesObject, AbortedLeavesNothingOpen, OutboxAgrees, Active,
    Verdicts
<1>8. QED
  BY <1>1, <1>2, <1>3, <1>4, <1>5, <1>6, <1>7 DEF IInv

(* A stuttering step keeps it.                                             *)
LEMMA StutterInv == ASSUME IInv, UNCHANGED vars PROVE IInv'
BY DEF IInv, vars, TypeOK, ReservationMatchesStatus, CopiesAreVersioned, LockHeld,
  Progress, OneKnownUpload, Known, ArtifactMatchesObject,
  AbortedLeavesNothingOpen, OutboxAgrees

(* Every step keeps it: one lemma per action.                              *)
LEMMA NextInv == ASSUME IInv, Next PROVE IInv'
<1>1. ASSUME NEW r \in Requests, Begin(r) \/ Continue(r) PROVE IInv'
  BY <1>1, GetReadInv, GetExpireInv, SignLockInv, SignStartInv,
    SignStartFaultInv, SignCommitInv, RegisterReadInv, RegisterExpireInv,
    RegisterInsertInv, CompleteLockInv, CompleteRelockInv, CompleteRemoteInv,
    CompleteRemoteFaultInv, CompleteVerifyInv, CompleteCommitInv,
    CancelReadInv, CancelExpireInv, CancelAbortInv, CancelAbortFaultInv,
    CancelCommitInv DEF Begin, Continue
<1>2. ASSUME Maintain PROVE IInv'
  BY <1>2, MaintSelectInv, MaintExpireInv, MaintAbortInv, MaintAbortFaultInv,
    MaintRereadInv, MaintClearInv, MaintFailInv, MaintRecordInv DEF Maintain
<1>3. ASSUME NEW p \in Processes, Crash(p) PROVE IInv'
  BY <1>3, CrashInv
<1>4. ASSUME LateCall \/ TtlPasses \/ BackoffElapses PROVE IInv'
  BY <1>4, LateCallInv, TtlPassesInv, BackoffElapsesInv
<1>5. QED
  BY <1>1, <1>2, <1>3, <1>4 DEF Next

(* The inductive invariant: in every reachable state, whatever the number  *)
(* of concurrent requests, faults and identifiers.                         *)
THEOREM Invariant == Spec => []IInv
<1>1. Init => IInv
  BY InitInv
<1>2. IInv /\ [Next]_vars => IInv'
  BY NextInv, StutterInv
<1>3. QED
  BY <1>1, <1>2, PTL DEF Spec

(* Every variable keeps its type; the copies the handlers write back are   *)
(* rows, also when an identifier comes from the store.                     *)
THEOREM TypeCorrectness == Spec => []TypeOK
<1>1. IInv => TypeOK
  BY DEF IInv
<1>2. QED
  BY <1>1, Invariant, PTL

(* No interleaving of handlers, maintenance, faults and crashes leaves a   *)
(* finished session holding quota or an active one holding none.           *)
THEOREM ReservationSafety == Spec => []ReservationMatchesStatus
<1>1. IInv => ReservationMatchesStatus
  BY DEF IInv
<1>2. QED
  BY <1>1, Invariant, PTL

(* A published artifact carries the verdict of the bytes in the store, for *)
(* any number of retried, lost or late completions.                        *)
THEOREM ArtifactSafety == Spec => []ArtifactMatchesObject
<1>1. IInv => ArtifactMatchesObject
  BY DEF IInv
<1>2. QED
  BY <1>1, Invariant, PTL

(* A cancelled session never leaves its known multipart upload open.       *)
THEOREM AbortSafety == Spec => []AbortedLeavesNothingOpen
<1>1. IInv => AbortedLeavesNothingOpen
  BY DEF IInv
<1>2. QED
  BY <1>1, Invariant, PTL

(* The committed events agree with the session at every moment.            *)
THEOREM OutboxSafety == Spec => []OutboxAgrees
<1>1. IInv => OutboxAgrees
  BY DEF IInv
<1>2. QED
  BY <1>1, Invariant, PTL

----------------------------------------------------------------------------
(* What a step does to the session, as the rest of the platform sees it.   *)

Keeps ==
    /\ row'.status = row.status \/ {row.status, row'.status} \subseteq Active
    /\ row'.reserved_bytes = row.reserved_bytes
    /\ artifact' = artifact

Ends(status) ==
    /\ row.status \in Active
    /\ row'.status = status
    /\ row'.reserved_bytes = 0
    /\ artifact' = artifact

Publishes ==
    /\ row.status \in {"COMPLETING", "EXPIRED"}
    /\ row'.status = "COMPLETED"
    /\ row'.reserved_bytes = 0
    /\ artifact = None
    /\ artifact' \in Verdicts

Moves == Keeps \/ Ends("EXPIRED") \/ Ends("ABORTED") \/ Publishes

(* An UPDATE that releases an active row is an expiry or a cancellation.   *)
LEMMA ReleasedMoves ==
    ASSUME IInv, NEW s \in {"EXPIRED", "ABORTED"}, row.status \in Active,
           Update(Released(row, s)), artifact' = artifact
    PROVE  Moves
BY UpdateRow, ReleasedRow DEF IInv, TypeOK, Terminal, Moves, Ends

(* Unlocked expiry: the version check turns a stale one into no change.    *)
LEMMA ExpireLoadedMoves ==
    ASSUME IInv, NEW p \in Processes, NEW op, NEW code, NEW events,
           pc[p] \in {"get_expire", "register_expire", "cancel_expire"},
           ExpireLoaded(p, op, code, events)
    PROVE  Moves
<1>1. CASE Fresh(p)
  <2>1. mem[p] = row /\ row.status \in Active
    BY <1>1 DEF IInv, Fresh, CopiesAreVersioned, Progress
  <2>2. QED
    BY <1>1, <2>1, ReleasedMoves DEF ExpireLoaded
<1>2. CASE ~Fresh(p)
  BY <1>2 DEF ExpireLoaded, Moves, Keeps
<1>3. QED
  BY <1>1, <1>2

(* Locked expiry.                                                          *)
LEMMA ExpireLockedMoves ==
    ASSUME IInv, NEW p \in Processes, NEW op, ExpireLocked(p, op)
    PROVE  Moves
BY ReleasedMoves DEF ExpireLocked, expire_if_needed

(* PENDING_UPLOAD becomes UPLOADING, which is no change to the outside.    *)
LEMMA SignCommitMoves == ASSUME IInv, NEW r \in Requests, SignCommit(r) PROVE Moves
<1>1. /\ row = mem[r] /\ row.status = "PENDING_UPLOAD"
      /\ row \in Row /\ local[r] \in UploadIds
  BY DEF IInv, LockHeld, LockedPoints, Progress, TypeOK, Processes, SignCommit
<1>2. [row EXCEPT !.status = "UPLOADING", !.storage_upload_id = local[r]] \in Row
  BY <1>1 DEF Row, Active
<1>3. QED
  BY <1>1, <1>2, UpdateRow DEF SignCommit, Moves, Keeps, Active, Row

(* The first transaction of complete expires the row or checkpoints it.    *)
LEMMA CompleteLockMoves ==
    ASSUME IInv, NEW r \in Requests, CompleteLock(r) PROVE Moves
<1>1. CASE ExpireLocked(r, "complete")
  BY <1>1, ExpireLockedMoves DEF Processes
<1>2. CASE row' = row /\ ~ExpireLocked(r, "complete")
  BY <1>2 DEF CompleteLock, Moves, Keeps, database
<1>3. CASE row' # row /\ ~ExpireLocked(r, "complete")
  <2>1. /\ row.status = "UPLOADING" /\ artifact' = artifact
        /\ Update([row EXCEPT !.status = "COMPLETING"])
    BY <1>3 DEF CompleteLock, database
  <2>2. row \in Row /\ [row EXCEPT !.status = "COMPLETING"] \in Row
    BY DEF IInv, TypeOK, Row, Active
  <2>3. QED
    BY <2>1, <2>2, UpdateRow DEF Moves, Keeps, Active, Row
<1>4. QED
  BY <1>1, <1>2, <1>3

(* The second one publishes, over an expiry too.                           *)
LEMMA CompleteCommitMoves ==
    ASSUME IInv, NEW r \in Requests, CompleteCommit(r) PROVE Moves
<1>1. mem[r] = row /\ row.status \in {"COMPLETING", "EXPIRED"} /\ row \in Row
  BY DEF IInv, LockHeld, LockedPoints, Progress, TypeOK, Processes, CompleteCommit
<1>2. artifact = None /\ artifact' \in Verdicts
  BY DEF CompleteCommit, Verdict, Verdicts
<1>3. QED
  BY <1>1, <1>2, UpdateRow, ReleasedRow
    DEF CompleteCommit, Moves, Publishes, Terminal

(* A cancellation of a fresh copy aborts; another changes nothing.         *)
LEMMA CancelCommitMoves ==
    ASSUME IInv, NEW r \in Requests, CancelCommit(r) PROVE Moves
<1>1. CASE mem[r].status # "ABORTED" /\ Fresh(r)
  <2>1. mem[r] = row /\ row.status \in Active
    BY <1>1 DEF IInv, Fresh, CopiesAreVersioned, Progress, Processes, CancelCommit,
      Active
  <2>2. QED
    BY <1>1, <2>1, ReleasedMoves DEF CancelCommit
<1>2. CASE mem[r].status = "ABORTED" \/ ~Fresh(r)
  BY <1>2 DEF CancelCommit, Moves, Keeps
<1>3. QED
  BY <1>1, <1>2

(* Of the maintenance steps only the expiry can be seen.                   *)
LEMMA MaintainMoves == ASSUME IInv, Maintain PROVE Moves
<1>1. ASSUME MaintExpire PROVE Moves
  <2>1. CASE Fresh(Maintenance)
    <3>1. mem[Maintenance] = row /\ row.status \in Active
      BY <1>1, <2>1 DEF IInv, Fresh, CopiesAreVersioned, Progress, Processes,
        MaintExpire
    <3>2. QED
      BY <1>1, <2>1, <3>1, ReleasedMoves DEF MaintExpire
  <2>2. CASE ~Fresh(Maintenance)
    BY <1>1, <2>2 DEF MaintExpire, Moves, Keeps
  <2>3. QED
    BY <2>1, <2>2
<1>2. row \in Row
  BY DEF IInv, TypeOK
<1>3. ASSUME MaintClear PROVE Moves
  <2>1. /\ [row EXCEPT !.storage_upload_id = None] \in Row
        /\ [row EXCEPT !.storage_upload_id = None].status = row.status
        /\ [row EXCEPT !.storage_upload_id = None].reserved_bytes
             = row.reserved_bytes
    BY <1>2 DEF Row
  <2>2. QED
    BY <1>2, <1>3, <2>1, UpdateRow DEF MaintClear, Moves, Keeps
<1>4. ASSUME MaintRecord PROVE Moves
  BY <1>2, <1>4, UpdateRow DEF MaintRecord, Moves, Keeps
<1>5. ASSUME MaintSelect \/ MaintAbort \/ MaintAbortFault \/ MaintReread \/ MaintFail
      PROVE  Moves
  BY <1>5 DEF MaintSelect, MaintAbort, MaintAbortFault, MaintReread, MaintFail,
    database, Moves, Keeps
<1>6. QED
  BY <1>1, <1>3, <1>4, <1>5 DEF Maintain

(* Every step of the system is one of these four.                          *)
LEMMA StepMoves == ASSUME IInv, [Next]_vars PROVE Moves
<1>1. ASSUME NEW r \in Requests, Begin(r) PROVE Moves
  <2>1. ASSUME SignLock(r) PROVE Moves
    BY <2>1, ExpireLockedMoves DEF SignLock, Moves, Keeps, database, Processes
  <2>2. ASSUME GetRead(r) \/ RegisterRead(r) \/ CancelRead(r) PROVE Moves
    BY <2>2 DEF GetRead, RegisterRead, CancelRead, database, Moves, Keeps
  <2>3. QED
    BY <1>1, <2>1, <2>2, CompleteLockMoves DEF Begin
<1>2. ASSUME NEW r \in Requests, Continue(r) PROVE Moves
  <2>1. ASSUME GetExpire(r) \/ RegisterExpire(r) \/ CancelExpire(r) PROVE Moves
    BY <2>1, ExpireLoadedMoves DEF GetExpire, RegisterExpire, CancelExpire, Processes
  <2>2. ASSUME \/ SignStart(r) \/ SignStartFault(r) \/ RegisterInsert(r)
               \/ CompleteRelock(r) \/ CompleteRemote(r) \/ CompleteRemoteFault(r)
               \/ CompleteVerify(r) \/ CancelAbort(r) \/ CancelAbortFault(r)
        PROVE  row' = row /\ artifact' = artifact
    BY <2>2 DEF SignStart, SignStartFault, RegisterInsert, CompleteRelock,
      CompleteRemote, CompleteRemoteFault, CompleteVerify, CancelAbort,
      CancelAbortFault, database
  <2>3. QED
    BY <1>2, <2>1, <2>2, SignCommitMoves, CompleteCommitMoves, CancelCommitMoves
      DEF Continue, Moves, Keeps
<1>3. ASSUME \/ \E p \in Processes : Crash(p)
             \/ LateCall \/ TtlPasses \/ BackoffElapses \/ UNCHANGED vars
      PROVE  Moves
  BY <1>3 DEF Crash, LateCall, TtlPasses, BackoffElapses, vars, database, Moves,
    Keeps
<1>4. QED
  BY <1>1, <1>2, <1>3, MaintainMoves DEF Next

(* The statuses: no way back to an active status, and none at all out of   *)
(* COMPLETED and ABORTED.                                                  *)
THEOREM OutcomeFinality == Spec => OutcomeIsFinal
<1>1. ASSUME IInv, [Next]_vars
      PROVE  /\ row.status \in Terminal => row'.status \in Terminal
             /\ row.status \in {"COMPLETED", "ABORTED"} => row'.status = row.status
  BY <1>1, StepMoves DEF Moves, Keeps, Ends, Publishes, Active, Terminal
<1>2. QED
  BY <1>1, Invariant, PTL DEF Spec, OutcomeIsFinal

(* The handlers implement the contract: every step is a cancellation, an   *)
(* expiry or a publication of UploadContract, or changes nothing it shows. *)
THEOREM Implementation == Spec => ContractHolds
<1>1. Init => Contract!Init
  BY DEF Init, Contract!Init, Outcome, Active
<1>2. ASSUME IInv, [Next]_vars PROVE [Contract!Next]_(Contract!contractVars)
  <2> USE DEF Contract!contractVars, Outcome, Active
  <2>1. CASE Keeps
    BY <2>1 DEF Keeps
  <2>2. CASE Ends("EXPIRED")
    BY <2>2 DEF Ends, Contract!Next, Contract!Expire
  <2>3. CASE Ends("ABORTED")
    BY <2>3 DEF Ends, Contract!Next, Contract!Cancel
  <2>4. CASE Publishes
    BY <2>4 DEF Publishes, Contract!Next, Contract!Publish, Verdicts
  <2>5. QED
    BY <1>2, <2>1, <2>2, <2>3, <2>4, StepMoves DEF Moves
<1>3. QED
  BY <1>1, <1>2, Invariant, PTL DEF Spec, ContractHolds, Contract!Spec

(* Two registrations of one part: the first stands.                        *)
THEOREM FirstRegistrationStands == Spec => PartNeverRewritten
<1>1. ASSUME IInv, Next
      PROVE  \/ parts' = parts
             \/ \E p \in PartNumbers, e \in Etags : InsertPart(p, e)
  BY <1>1 DEF Next, Begin, Continue, Maintain, GetRead, GetExpire, SignLock,
    SignStart, SignStartFault, SignCommit, RegisterRead, RegisterExpire,
    RegisterInsert, CompleteLock, CompleteRelock, CompleteRemote,
    CompleteRemoteFault, CompleteVerify, CompleteCommit, CancelRead, CancelExpire,
    CancelAbort, CancelAbortFault, CancelCommit, MaintSelect, MaintExpire,
    MaintAbort, MaintAbortFault, MaintReread, MaintClear, MaintFail, MaintRecord,
    Crash, LateCall, TtlPasses, BackoffElapses, ExpireLoaded, ExpireLocked, database
<1>2. ASSUME IInv, [Next]_vars
      PROVE  \A p \in PartNumbers : parts[p] # None => parts'[p] = parts[p]
  <2>1. parts \in [PartNumbers -> Etags \cup {None}]
    BY <1>2 DEF IInv, TypeOK
  <2>2. QED
    BY <1>1, <1>2, <2>1 DEF InsertPart, vars
<1>3. QED
  BY <1>2, Invariant, PTL DEF Spec, PartNeverRewritten
============================================================================
