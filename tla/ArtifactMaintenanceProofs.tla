--------------------- MODULE ArtifactMaintenanceProofs ---------------------
(***************************************************************************)
(* Theorems about ArtifactMaintenance: the invariant that ties artifacts,  *)
(* objects, events, clients and the maintenance pass together, and what    *)
(* follows from it, for any keys, clients, batches and faults.             *)
(***************************************************************************)
EXTENDS ArtifactMaintenance, TLAPS

LEMMA Values ==
    /\ None \notin Artifact /\ None \notin Tag /\ None \notin Reading
    /\ Keys \subseteq Nat
BY NoneAssumption, KeysAssumption

----------------------------------------------------------------------------
(* What a step that leaves some variables alone keeps of the invariant.    *)

LEMMA RowsKept ==
    ASSUME IInv, UNCHANGED <<artifact, older, outbox>>
    PROVE  /\ artifact' \in [Keys -> Artifact \cup {None}]
           /\ older' \subseteq Keys \X Keys /\ Ordered'
           /\ outbox' \subseteq Event
           /\ EventsAgree'
BY DEF IInv, TypeOK, Ordered, EventsAgree, Told, Status

LEMMA ClientsKept ==
    ASSUME IInv, UNCHANGED <<artifact, seen, reading>>
    PROVE  ClientsInPlace'
BY DEF IInv, ClientsInPlace, Status

LEMMA GoneKept ==
    ASSUME IInv, UNCHANGED artifact, objects' \subseteq objects
    PROVE  GoneMeansGone'
BY DEF IInv, GoneMeansGone, Status

LEMMA LateKept ==
    ASSUME IInv, UNCHANGED <<session, artifact>>, late' \subseteq late
    PROVE  LateIsJustified'
BY DEF IInv, LateIsJustified, Status

LEMMA PublishedKept ==
    ASSUME IInv, UNCHANGED <<session, artifact, completing>>,
           \A k \in completing : k \in objects'
    PROVE  PublishedOnce'
BY DEF IInv, PublishedOnce

LEMMA PassKept ==
    ASSUME IInv, UNCHANGED <<session, artifact, point, work, current, copy>>,
           objects' \subseteq objects
    PROVE  PassInPlace'
BY DEF IInv, PassInPlace, Status

(* A phase that takes nothing up. *)
LEMMA PassIdle ==
    ASSUME point' \in {"idle", "orphans"}
    PROVE  PassInPlace'
BY DEF PassInPlace

----------------------------------------------------------------------------
(* A write of the row of k.                                                *)

LEMMA TouchedOrders ==
    ASSUME TypeOK, NEW k \in Keys, NEW a \in Artifact,
           artifact' = [artifact EXCEPT ![k] = a], older' = Touched(k)
    PROVE  /\ artifact' \in [Keys -> Artifact \cup {None}]
           /\ older' \subseteq Keys \X Keys
           /\ Ordered'
<1>1. artifact' \in [Keys -> Artifact \cup {None}]
  BY DEF TypeOK
<1>2. older' \subseteq Keys \X Keys
  BY DEF TypeOK, Touched
<1>3. \A i, j \in Keys :
        <<i, j>> \in older' <=>
          IF j = k THEN i # k /\ artifact[i] # None
          ELSE i # k /\ <<i, j>> \in older
  BY DEF TypeOK, Touched
<1>4. \A j \in Keys : artifact'[j] # None <=> j = k \/ artifact[j] # None
  BY Values DEF TypeOK
<1> QED
  BY <1>1, <1>2, <1>3, <1>4 DEF TypeOK, Ordered

(* What a versioned UPDATE does to the row, and to nothing else. *)
LEMMA Written ==
    ASSUME TypeOK, NEW k \in Keys, NEW s \in Statuses, artifact[k] # None, Write(k, s)
    PROVE  /\ artifact' \in [Keys -> Artifact \cup {None}]
           /\ older' \subseteq Keys \X Keys /\ Ordered'
           /\ artifact[k].version \in Nat
           /\ artifact'[k].status = s /\ artifact'[k].version = artifact[k].version + 1
           /\ artifact'[k] # None
           /\ \A j \in Keys \ {k} : artifact'[j] = artifact[j]
<1> DEFINE a == [status |-> s, version |-> artifact[k].version + 1]
<1>1. artifact[k] \in Artifact
  BY DEF TypeOK
<1>2. a \in Artifact
  BY <1>1 DEF Artifact
<1>3. artifact' = [artifact EXCEPT ![k] = a] /\ older' = Touched(k)
  BY DEF Write
<1>4. a # None
  BY <1>2, Values
<1> HIDE DEF a
<1>5. /\ artifact' \in [Keys -> Artifact \cup {None}]
      /\ older' \subseteq Keys \X Keys /\ Ordered'
  BY <1>2, <1>3, TouchedOrders
<1>6. artifact'[k] = a /\ \A j \in Keys \ {k} : artifact'[j] = artifact[j]
  BY <1>3 DEF TypeOK
<1> QED
  BY <1>1, <1>4, <1>5, <1>6 DEF a, Artifact

(* Which versioned UPDATEs keep what is said of sessions, clients and the  *)
(* store.                                                                  *)
LEMMA WriteKeeps ==
    ASSUME IInv, NEW k \in Keys, NEW s \in Statuses, artifact[k] # None, Write(k, s),
           UNCHANGED <<session, completing, objects, late>>,
           Status(k) \in {"DELETING", "DELETED"} => s \in {"DELETING", "DELETED"},
           s \in {"FAILED", "DELETED"} => k \notin objects
    PROVE  PublishedOnce' /\ LateIsJustified' /\ GoneMeansGone'
<1>1. /\ artifact'[k].status = s /\ artifact'[k] # None
      /\ \A j \in Keys \ {k} : artifact'[j] = artifact[j]
  BY Written DEF IInv
<1>2. PublishedOnce'
  BY <1>1 DEF IInv, PublishedOnce
<1>3. LateIsJustified'
  BY <1>1 DEF IInv, TypeOK, LateIsJustified, Status
<1>4. GoneMeansGone'
  BY <1>1 DEF IInv, GoneMeansGone, Status
<1> QED
  BY <1>2, <1>3, <1>4

LEMMA WriteKeepsClients ==
    ASSUME IInv, NEW k \in Keys, NEW s \in Statuses, artifact[k] # None, Write(k, s),
           UNCHANGED clients,
           Status(k) \in {"DELETING", "DELETED"} => s \in {"DELETING", "DELETED"}
    PROVE  ClientsInPlace'
<1>1. /\ artifact'[k].status = s /\ artifact'[k] # None
      /\ artifact[k].version \in Nat /\ artifact'[k].version = artifact[k].version + 1
      /\ \A j \in Keys \ {k} : artifact'[j] = artifact[j]
  BY Written DEF IInv
<1> SUFFICES ASSUME NEW r \in Requests
             PROVE  /\ seen[r] # None => artifact'[seen[r].key] # None
                    /\ reading[r] # None =>
                         LET j == reading[r].key IN
                         /\ seen[r] = [key |-> j, version |-> reading[r].version]
                         /\ artifact'[j] # None
                         /\ reading[r].version <= artifact'[j].version
                         /\ reading[r].version = artifact'[j].version
                              => reading[r].status = Status(j)'
                         /\ reading[r].status = "DELETING"
                              => Status(j)' \in {"DELETING", "DELETED"}
                         /\ reading[r].status # "DELETED"
  BY DEF ClientsInPlace, clients
<1>2. seen[r] # None => seen[r] \in Tag
  BY DEF IInv, TypeOK
<1>3. reading[r] # None => reading[r] \in Reading
  BY DEF IInv, TypeOK
<1>4. seen[r] # None => artifact'[seen[r].key] # None
  BY <1>1, <1>2 DEF IInv, ClientsInPlace, Tag
<1>5. ASSUME reading[r] # None, reading[r].key # k
      PROVE  artifact'[reading[r].key] = artifact[reading[r].key]
  BY <1>1, <1>3, <1>5 DEF Reading
<1>6. ASSUME reading[r] # None, reading[r].key = k
      PROVE  /\ reading[r].version \in Nat /\ reading[r].version <= artifact[k].version
             /\ reading[r].status = "DELETING" => s \in {"DELETING", "DELETED"}
             /\ seen[r] = [key |-> k, version |-> reading[r].version]
             /\ reading[r].status # "DELETED"
  BY <1>3, <1>6 DEF IInv, ClientsInPlace, Reading
<1>7. CASE reading[r] # None /\ reading[r].key = k
  BY <1>1, <1>4, <1>6, <1>7 DEF Status, clients
<1>8. CASE reading[r] # None /\ reading[r].key # k
  BY <1>4, <1>5, <1>8 DEF IInv, ClientsInPlace, Status, clients
<1> QED
  BY <1>4, <1>7, <1>8

(* What is announced of one artifact says nothing of the others. *)
LEMMA OthersTold ==
    ASSUME IInv, NEW k \in Keys, NEW e0, e0.key = k, outbox' = outbox \cup {e0},
           \A j \in Keys \ {k} : artifact'[j] = artifact[j]
    PROVE  \A j \in Keys \ {k} : Told(j)'
BY DEF IInv, EventsAgree, Told, Status

----------------------------------------------------------------------------
LEMMA Initially == Init => IInv
<1> SUFFICES ASSUME Init PROVE IInv
  OBVIOUS
<1>1. TypeOK /\ EventsAgree
  BY FaultAssumption DEF Init, TypeOK, Ordered, EventsAgree, Told, Outcomes, Points, Event, Status
<1>2. PublishedOnce
  BY DEF Init, PublishedOnce
<1> QED
  BY <1>1, <1>2 DEF Init, IInv, LateIsJustified, ClientsInPlace, PassInPlace,
                     GoneMeansGone, Status

----------------------------------------------------------------------------
(* The sessions.                                                           *)

LEMMA AssembleKeeps ==
    ASSUME IInv, NEW k \in Keys, Assemble(k)
    PROVE  IInv'
<1> USE DEF Assemble, rows, pass, clients
<1>1. TypeOK'
  <2>1. /\ faults' \in 0 .. MaxFaults /\ completing' \subseteq Keys
        /\ objects' \subseteq Keys /\ recent' \subseteq objects'
    BY FaultAssumption DEF IInv, TypeOK, Fault
  <2> QED
    BY <2>1, RowsKept DEF IInv, TypeOK
<1>2. artifact[k] = None
  BY DEF IInv, PublishedOnce
<1>3. PublishedOnce'
  BY DEF IInv, PublishedOnce
<1>4. PassInPlace' /\ GoneMeansGone'
  BY <1>2, Values DEF IInv, PassInPlace, GoneMeansGone, Status
<1> QED
  BY <1>1, <1>3, <1>4, RowsKept, ClientsKept, LateKept DEF IInv

LEMMA RetryCompleteKeeps ==
    ASSUME IInv, NEW k \in Keys, RetryComplete(k)
    PROVE  IInv'
<1> USE DEF RetryComplete, rows, store, pass, clients
<1>1. TypeOK'
  BY RowsKept DEF IInv, TypeOK
<1>2. PublishedOnce'
  BY DEF IInv, PublishedOnce
<1> QED
  BY <1>1, <1>2, RowsKept, ClientsKept, GoneKept, LateKept, PassKept DEF IInv

LEMMA PublishKeeps ==
    ASSUME IInv, NEW k \in Keys, Publish(k)
    PROVE  IInv'
<1> USE DEF store, pass, clients
<1>1. PICK v \in Verdicts : artifact' = [artifact EXCEPT ![k] = [status |-> v, version |-> 1]]
  BY DEF Publish
<1> DEFINE a == [status |-> v, version |-> 1]
<1>2. a \in Artifact /\ a.status \in Verdicts
  BY DEF Artifact, Statuses
<1>3. artifact' = [artifact EXCEPT ![k] = a]
  BY <1>1
<1> HIDE DEF a
<1>4. /\ artifact' \in [Keys -> Artifact \cup {None}]
      /\ older' \subseteq Keys \X Keys /\ Ordered'
  BY <1>2, <1>3, TouchedOrders DEF IInv, Publish
<1>5. a # None /\ artifact'[k] = a /\ \A j \in Keys \ {k} : artifact'[j] = artifact[j]
  BY <1>2, <1>3, Values DEF IInv, TypeOK
<1>6. artifact[k] = None /\ session[k] \in {"open", "expired"}
  BY DEF IInv, PublishedOnce, Publish
<1>7. TypeOK'
  BY <1>4 DEF IInv, TypeOK, Publish, Outcomes
<1>8. PublishedOnce'
  BY <1>5 DEF IInv, TypeOK, PublishedOnce, Publish
<1>9. LateIsJustified' /\ GoneMeansGone'
  BY <1>2, <1>5, <1>6 DEF IInv, TypeOK, LateIsJustified, GoneMeansGone, Status, Publish, Verdicts
<1>10. ClientsInPlace'
  <2>1. \A r \in Requests : /\ seen[r] # None => seen[r].key # k /\ seen[r].key \in Keys
                            /\ reading[r] # None => reading[r].key # k /\ reading[r].key \in Keys
    BY <1>6 DEF IInv, TypeOK, ClientsInPlace, Tag, Reading
  <2> QED
    BY <1>5, <2>1 DEF IInv, ClientsInPlace, Publish, Status
<1>11. PassInPlace'
  BY <1>5, <1>6 DEF IInv, TypeOK, PassInPlace, Publish, Status
<1>12. EventsAgree'
  <2>1. \A j \in Keys : j # k => (Status(j))' = Status(j)
    BY <1>5 DEF Status
  <2>2. (Status(k))' \in Verdicts /\ Status(k) = "none"
    BY <1>2, <1>5, <1>6 DEF Status
  <2> QED
    BY <1>5, <2>1, <2>2 DEF IInv, EventsAgree, Told, Publish, Verdicts
<1> QED
  BY <1>7, <1>8, <1>9, <1>10, <1>11, <1>12 DEF IInv

LEMMA CloseKeeps ==
    ASSUME IInv, NEW k \in Keys, Close(k)
    PROVE  IInv'
<1> USE DEF rows, store, pass, clients
<1>1. PICK o \in {"cancelled", "expired"} :
          session' = [session EXCEPT ![k] = o] /\ (k \in objects => o = "expired")
  BY DEF Close
<1>2. TypeOK'
  BY <1>1, RowsKept DEF IInv, TypeOK, Close, Outcomes
<1>3. PublishedOnce' /\ LateIsJustified' /\ PassInPlace'
  BY <1>1 DEF IInv, TypeOK, PublishedOnce, LateIsJustified, PassInPlace, Close, Status
<1> QED
  BY <1>2, <1>3, RowsKept, ClientsKept, GoneKept DEF IInv, Close

----------------------------------------------------------------------------
(* The clients.                                                            *)

LEMMA GetArtifactKeeps ==
    ASSUME IInv, NEW r \in Requests, GetArtifact(r)
    PROVE  IInv'
<1> USE DEF GetArtifact, uploads, rows, store, pass
<1>1. PICK k \in Keys :
          /\ artifact[k] # None
          /\ seen' = [seen EXCEPT ![r] = [key |-> k, version |-> artifact[k].version]]
  BY DEF Status, Verdicts
<1>2. artifact[k] \in Artifact
  BY <1>1 DEF IInv, TypeOK
<1>3. TypeOK'
  BY <1>1, <1>2, RowsKept DEF IInv, TypeOK, Tag, Artifact
<1>4. ClientsInPlace'
  BY <1>1 DEF IInv, TypeOK, ClientsInPlace, Status
<1> QED
  BY <1>3, <1>4, RowsKept, GoneKept, LateKept, PublishedKept, PassKept
     DEF IInv, PublishedOnce

LEMMA DeleteReadKeeps ==
    ASSUME IInv, NEW r \in Requests, DeleteRead(r)
    PROVE  IInv'
<1> USE DEF uploads, rows, store, pass
<1> DEFINE k == seen[r].key
<1>1. /\ k \in Keys /\ artifact[k] # None /\ artifact[k] \in Artifact
      /\ seen[r] = [key |-> k, version |-> seen[r].version]
  BY DEF IInv, TypeOK, ClientsInPlace, DeleteRead, Tag
<1>2. Status(k) \in Statuses
  BY <1>1 DEF Status, Artifact
<1>3. TypeOK'
  BY <1>1, <1>2, RowsKept DEF IInv, TypeOK, DeleteRead, Reading, Artifact
<1>4. ClientsInPlace'
  <2>1. CASE artifact[k].version = seen[r].version /\ Status(k) # "DELETED"
    <3>1. /\ reading'[r] = [key |-> k, status |-> Status(k), version |-> artifact[k].version]
          /\ seen' = seen /\ artifact' = artifact
          /\ \A q \in Requests \ {r} : reading'[q] = reading[q]
      BY <2>1 DEF IInv, TypeOK, DeleteRead
    <3> QED
      BY <1>1, <1>2, <2>1, <3>1 DEF IInv, ClientsInPlace, Status, Artifact
  <2>2. CASE ~(artifact[k].version = seen[r].version /\ Status(k) # "DELETED")
    BY <2>2 DEF IInv, TypeOK, ClientsInPlace, DeleteRead, Status
  <2> QED
    BY <2>1, <2>2
<1> QED
  BY <1>3, <1>4, RowsKept, GoneKept, LateKept, PublishedKept, PassKept
     DEF IInv, PublishedOnce, DeleteRead

LEMMA DeleteCommitKeeps ==
    ASSUME IInv, NEW r \in Requests, DeleteCommit(r)
    PROVE  IInv'
<1> USE DEF uploads, store, pass
<1>1. PICK k \in Keys :
          /\ k = reading[r].key /\ artifact[k] # None /\ artifact[k] \in Artifact
          /\ reading[r] \in Reading /\ seen[r] \in Tag /\ seen[r].key \in Keys
          /\ reading[r].version <= artifact[k].version
          /\ reading[r].version = artifact[k].version => reading[r].status = Status(k)
          /\ reading[r].status = "DELETING" => Status(k) \in {"DELETING", "DELETED"}
          /\ reading[r].status # "DELETED"
  BY DEF IInv, TypeOK, ClientsInPlace, DeleteCommit, Reading, Tag
<1>2. /\ UNCHANGED <<session, completing, backoff, objects, recent, late,
                     point, work, current, copy, faults>>
      /\ reading' = [reading EXCEPT ![r] = None]
  BY DEF DeleteCommit
<1>3. /\ Status(k) = artifact[k].status /\ Status(k) \in Statuses
      /\ artifact[k].version \in Nat
  BY <1>1 DEF Status, Artifact
<1>4. CASE /\ reading[r].status # "DELETING" /\ Fresh(k, reading[r].version)
           /\ Write(k, "DELETING")
           /\ Announce("Requested", k, artifact[k].version + 1, "DELETING")
           /\ seen' = [seen EXCEPT ![r].version = artifact[k].version + 1]
  <2>1. Status(k) \notin {"DELETING", "DELETED"}
    BY <1>1, <1>4 DEF Fresh
  <2>2. /\ artifact' \in [Keys -> Artifact \cup {None}]
        /\ older' \subseteq Keys \X Keys /\ Ordered'
        /\ artifact'[k].status = "DELETING"
        /\ artifact'[k].version = artifact[k].version + 1 /\ artifact'[k] # None
        /\ \A j \in Keys \ {k} : artifact'[j] = artifact[j]
    BY <1>1, <1>4, Written DEF IInv, Statuses
  <2> DEFINE e0 == [type |-> "Requested", key |-> k,
                    version |-> artifact[k].version + 1, status |-> "DELETING"]
  <2>3. outbox' = outbox \cup {e0} /\ e0 \in Event /\ e0.key = k /\ e0.type = "Requested"
    BY <1>3, <1>4 DEF Announce, Event, Statuses
  <2> HIDE DEF e0
  <2>4. /\ seen' \in [Requests -> Tag \cup {None}]
        /\ seen'[r] # None /\ seen'[r].key = seen[r].key
        /\ \A q \in Requests \ {r} : seen'[q] = seen[q]
    <3>1. [seen[r] EXCEPT !.version = artifact[k].version + 1] \in Tag
      BY <1>1, <1>3 DEF Tag
    <3>2. seen' = [seen EXCEPT ![r] = [seen[r] EXCEPT !.version = artifact[k].version + 1]]
      BY <1>4
    <3> QED
      BY <1>1, <3>1, <3>2, Values DEF IInv, TypeOK, Tag
  <2>5. TypeOK'
    BY <1>2, <2>2, <2>3, <2>4 DEF IInv, TypeOK
  <2>6. PublishedOnce' /\ LateIsJustified' /\ GoneMeansGone'
    BY <1>1, <1>2, <1>4, <2>1, WriteKeeps DEF Statuses
  <2>7. ClientsInPlace'
    <3> DEFINE Clean(q) ==
          /\ seen[q] # None => artifact'[seen[q].key] # None
          /\ reading[q] # None =>
               LET j == reading[q].key IN
               /\ seen[q] = [key |-> j, version |-> reading[q].version]
               /\ artifact'[j] # None
               /\ reading[q].version <= artifact'[j].version
               /\ reading[q].version = artifact'[j].version
                    => artifact'[j].status = reading[q].status
               /\ reading[q].status = "DELETING"
                    => artifact'[j].status \in {"DELETING", "DELETED"}
               /\ reading[q].status # "DELETED"
    <3>1. ASSUME NEW q \in Requests PROVE Clean(q)
      <4>1. /\ seen[q] # None => seen[q].key \in Keys
            /\ reading[q] # None => reading[q].key \in Keys /\ reading[q].version \in Nat
        BY DEF IInv, TypeOK, Tag, Reading
      <4>2. CASE reading[q] # None /\ reading[q].key = k
        BY <1>3, <2>1, <2>2, <4>1, <4>2 DEF IInv, ClientsInPlace
      <4>3. CASE reading[q] = None \/ reading[q].key # k
        BY <2>2, <4>1, <4>3 DEF IInv, ClientsInPlace, Status
      <4> QED
        BY <4>2, <4>3
    <3>2. \A q \in Requests : /\ reading'[q] = IF q = r THEN None ELSE reading[q]
                              /\ seen'[q] # None => seen[q] # None /\ seen'[q].key = seen[q].key
                              /\ q # r => seen'[q] = seen[q]
      BY <1>1, <1>2, <2>4, Values DEF IInv, TypeOK
    <3>3. \A q \in Requests : reading'[q] # None => reading[q] # None /\ seen'[q] = seen[q]
      BY <3>2
    <3> HIDE DEF Clean
    <3>4. ASSUME NEW q \in Requests
          PROVE  /\ seen'[q] # None => artifact'[seen'[q].key] # None
                 /\ reading'[q] # None => /\ reading'[q] = reading[q] /\ seen'[q] = seen[q]
                                          /\ Clean(q) /\ reading[q] # None
      BY <3>1, <3>2, <3>3 DEF Clean
    <3> QED
      BY <3>4 DEF ClientsInPlace, Status, Clean
  <2>8. PassInPlace'
    BY <1>1, <1>2, <1>3, <2>1, <2>2 DEF IInv, TypeOK, PassInPlace, Status, Artifact
  <2>9. EventsAgree'
    <3>1. Told(k)'
      BY <2>1, <2>2, <2>3 DEF IInv, EventsAgree, Told, Status
    <3> QED
      BY <2>2, <2>3, <3>1, OthersTold DEF EventsAgree
  <2> QED
    BY <2>5, <2>6, <2>7, <2>8, <2>9 DEF IInv
<1>5. CASE /\ seen' = [seen EXCEPT ![r] = None] /\ UNCHANGED <<artifact, older, outbox>>
  <2>1. TypeOK' /\ ClientsInPlace'
    BY <1>2, <1>5, RowsKept DEF IInv, TypeOK, ClientsInPlace, Status
  <2> QED
    BY <1>2, <1>5, <2>1, RowsKept, GoneKept, LateKept, PublishedKept, PassKept
       DEF IInv, PublishedOnce
<1>6. CASE /\ reading[r].status = "DELETING"
           /\ Announce("Requested", k, artifact[k].version, Status(k))
           /\ seen' = [seen EXCEPT ![r].version = artifact[k].version]
           /\ UNCHANGED <<artifact, older>>
  <2> DEFINE e0 == [type |-> "Requested", key |-> k,
                    version |-> artifact[k].version, status |-> Status(k)]
  <2>1. outbox' = outbox \cup {e0} /\ e0 \in Event /\ e0.key = k /\ e0.type = "Requested"
    BY <1>3, <1>6 DEF Announce, Event
  <2> HIDE DEF e0
  <2>2. /\ seen' \in [Requests -> Tag \cup {None}]
        /\ seen'[r] # None /\ seen'[r].key = seen[r].key
        /\ \A q \in Requests \ {r} : seen'[q] = seen[q]
    <3>1. [seen[r] EXCEPT !.version = artifact[k].version] \in Tag
      BY <1>1, <1>3 DEF Tag
    <3>2. seen' = [seen EXCEPT ![r] = [seen[r] EXCEPT !.version = artifact[k].version]]
      BY <1>6
    <3> QED
      BY <1>1, <3>1, <3>2, Values DEF IInv, TypeOK, Tag
  <2>3. TypeOK'
    BY <1>2, <1>6, <2>1, <2>2 DEF IInv, TypeOK, Ordered
  <2>4. ClientsInPlace'
    BY <1>1, <1>2, <1>6, <2>2, Values DEF IInv, TypeOK, ClientsInPlace, Status
  <2>5. EventsAgree'
    <3>1. Told(k)'
      BY <1>1, <1>6, <2>1 DEF IInv, EventsAgree, Told, Status
    <3> QED
      BY <1>6, <2>1, <3>1, OthersTold DEF EventsAgree
  <2> QED
    BY <1>2, <1>6, <2>3, <2>4, <2>5, GoneKept, LateKept, PublishedKept, PassKept
       DEF IInv, PublishedOnce
<1> QED
  BY <1>1, <1>4, <1>5, <1>6 DEF DeleteCommit

----------------------------------------------------------------------------
(* The pass: what is selected, taken up or skipped.                        *)

(* A step of the pass that changes nothing but the pass.                   *)
LEMMA OnlyThePass ==
    ASSUME IInv, UNCHANGED <<uploads, rows, store, clients, faults>>, PassInPlace',
           point' \in Points, work' \subseteq Keys, current' \in Keys \cup {None},
           copy' \in Artifact \cup {None}
    PROVE  IInv'
<1> USE DEF uploads, rows, store, clients
<1>1. TypeOK'
  BY RowsKept DEF IInv, TypeOK
<1> QED
  BY <1>1, RowsKept, ClientsKept, GoneKept, LateKept, PublishedKept DEF IInv, PublishedOnce

LEMMA SelectionsKeep ==
    ASSUME IInv, SelectDeleting \/ SelectAvailable \/ ListObjects \/ PassEnds
    PROVE  IInv'
<1>1. /\ UNCHANGED <<uploads, rows, store, clients, faults>>
      /\ point' \in Points /\ work' \subseteq Keys /\ current' = None /\ copy' = None
  BY DEF IInv, TypeOK, SelectDeleting, SelectAvailable, ListObjects, PassEnds, Enter,
         Batch, Points
<1>2. PassInPlace'
  <2>1. CASE SelectDeleting
    BY <2>1 DEF SelectDeleting, Enter, Batch, PassInPlace, Status, rows
  <2>2. CASE SelectAvailable
    BY <2>2 DEF SelectAvailable, Enter, Batch, PassInPlace, Status, rows
  <2>3. CASE ListObjects \/ PassEnds
    BY <2>3, PassIdle DEF ListObjects, PassEnds, Enter
  <2> QED
    BY <2>1, <2>2, <2>3
<1> QED
  BY <1>1, <1>2, OnlyThePass

LEMMA DeleteObjectKeeps ==
    ASSUME IInv, DeleteObject
    PROVE  IInv'
<1> USE DEF DeleteObject, uploads, rows, clients
<1>1. PICK k \in work : Remove(k) /\ Take(k, "delete_done")
  OBVIOUS
<1>2. k \in Keys /\ Status(k) = "DELETING" /\ session[k] = "published"
  BY DEF IInv, TypeOK, PassInPlace, PublishedOnce, Status
<1>3. TypeOK'
  BY <1>1, <1>2, RowsKept DEF IInv, TypeOK, Remove, Take, Points
<1>4. PublishedOnce'
  BY <1>1, <1>2, PublishedKept DEF IInv, PublishedOnce, Remove
<1>5. PassInPlace'
  BY <1>1, <1>2 DEF IInv, PassInPlace, Remove, Take, Status
<1> QED
  BY <1>1, <1>3, <1>4, <1>5, RowsKept, ClientsKept, GoneKept, LateKept DEF IInv, Remove

LEMMA DeleteObjectFaultKeeps ==
    ASSUME IInv, DeleteObjectFault
    PROVE  IInv'
<1> USE DEF DeleteObjectFault, uploads, rows, clients
<1>1. PICK k \in work : RemoveFault(k) /\ Take(k, "delete_failed")
  OBVIOUS
<1>2. k \in Keys /\ Status(k) = "DELETING" /\ session[k] = "published"
  BY DEF IInv, TypeOK, PassInPlace, PublishedOnce, Status
<1>3. /\ objects' \in {objects, objects \ {k}} /\ recent' \subseteq objects'
      /\ late \subseteq late' /\ late' \subseteq late \cup {k}
      /\ faults' \in 0 .. MaxFaults
  BY <1>1, FaultAssumption DEF IInv, TypeOK, RemoveFault, Remove, Fault
<1>4. TypeOK'
  BY <1>1, <1>2, <1>3, RowsKept DEF IInv, TypeOK, Take, Points
<1>5. PublishedOnce'
  BY <1>2, <1>3, PublishedKept DEF IInv, PublishedOnce
<1>6. LateIsJustified'
  BY <1>2, <1>3 DEF IInv, LateIsJustified, Status
<1>7. PassInPlace'
  BY <1>1, <1>2 DEF IInv, PassInPlace, Take, Status
<1> QED
  BY <1>3, <1>4, <1>5, <1>6, <1>7, RowsKept, ClientsKept, GoneKept DEF IInv

(* The outcome of a deletion is written. *)
LEMMA DeleteDoneKeeps ==
    ASSUME IInv, DeleteDone
    PROVE  IInv'
<1> USE DEF uploads, store, clients
<1>1. PICK k \in Keys \ work :
          /\ k = current /\ k \notin objects /\ Status(k) = "DELETING"
          /\ artifact[k] # None /\ artifact[k].version \in Nat
  BY DEF IInv, TypeOK, PassInPlace, DeleteDone, Status, Artifact
<1> DEFINE e0 == [type |-> "Deleted", key |-> k, version |-> artifact[k].version + 1,
                  status |-> "DELETED"]
<1>2. Write(k, "DELETED")
  BY <1>1 DEF DeleteDone
<1>3. /\ artifact' \in [Keys -> Artifact \cup {None}]
      /\ older' \subseteq Keys \X Keys /\ Ordered'
      /\ artifact'[k].status = "DELETED"
      /\ artifact'[k].version = artifact[k].version + 1 /\ artifact'[k] # None
      /\ \A j \in Keys \ {k} : artifact'[j] = artifact[j]
  BY <1>1, <1>2, Written DEF IInv, Statuses
<1>4. /\ outbox' = outbox \cup {e0} /\ e0 \in Event
      /\ e0.key = k /\ e0.type = "Deleted" /\ e0.version = artifact[k].version + 1
  BY <1>1 DEF DeleteDone, Announce, Event, Statuses
<1>5. /\ point' = "delete" /\ work' = work /\ current' = None /\ copy' = None
      /\ UNCHANGED <<session, completing, objects, recent, late, seen, reading, faults>>
      /\ backoff' = backoff \ {k}
  BY <1>1 DEF DeleteDone, Done, Enter
<1> HIDE DEF e0
<1>6. TypeOK'
  BY <1>3, <1>4, <1>5 DEF IInv, TypeOK, Points
<1>7. PublishedOnce' /\ LateIsJustified' /\ GoneMeansGone'
  BY <1>1, <1>2, <1>5, WriteKeeps DEF Statuses
<1>8. ClientsInPlace'
  BY <1>1, <1>2, <1>5, WriteKeepsClients DEF Statuses
<1>9. PassInPlace'
  BY <1>1, <1>3, <1>5 DEF IInv, TypeOK, PassInPlace, DeleteDone, Status
<1>10. EventsAgree'
  <2>1. Told(k)'
    <3>1. \A e \in outbox : ~(e.type = "Deleted" /\ e.key = k)
      BY <1>1 DEF IInv, EventsAgree, Told
    <3>2. \E e \in outbox : e.type = "Requested" /\ e.key = k
      BY <1>1 DEF IInv, EventsAgree, Told
    <3>3. Status(k)' = "DELETED"
      BY <1>1, <1>3, <1>5 DEF Status
    <3> QED
      BY <1>3, <1>4, <3>1, <3>2, <3>3 DEF Told
  <2> QED
    BY <1>1, <1>3, <1>4, <2>1, OthersTold DEF EventsAgree
<1> QED
  BY <1>6, <1>7, <1>8, <1>9, <1>10 DEF IInv

LEMMA DeleteFailedKeeps ==
    ASSUME IInv, DeleteFailed
    PROVE  IInv'
<1> USE DEF uploads, store, clients
<1>1. PICK k \in Keys \ work :
          /\ k = current /\ Status(k) = "DELETING"
          /\ artifact[k] # None /\ Write(k, "DELETING")
  BY DEF IInv, TypeOK, PassInPlace, DeleteFailed, Status
<1>2. /\ artifact' \in [Keys -> Artifact \cup {None}]
      /\ older' \subseteq Keys \X Keys /\ Ordered'
      /\ artifact'[k].status = "DELETING" /\ artifact'[k] # None
      /\ \A j \in Keys \ {k} : artifact'[j] = artifact[j]
  BY <1>1, Written DEF IInv, Statuses
<1>3. /\ point' = "delete" /\ work' = work /\ current' = None /\ copy' = None
      /\ UNCHANGED <<session, completing, outbox, objects, recent, late, seen,
                     reading, faults>>
      /\ backoff' = backoff \cup {k}
  BY <1>1 DEF DeleteFailed, Done, Enter
<1>4. TypeOK'
  BY <1>2, <1>3 DEF IInv, TypeOK, Points
<1>5. PublishedOnce' /\ LateIsJustified' /\ GoneMeansGone'
  BY <1>1, <1>3, WriteKeeps DEF Statuses
<1>6. ClientsInPlace'
  BY <1>1, <1>3, WriteKeepsClients DEF Statuses
<1>7. PassInPlace'
  BY <1>1, <1>2, <1>3 DEF IInv, TypeOK, PassInPlace, DeleteFailed, Status
<1>8. EventsAgree'
  BY <1>1, <1>2, <1>3 DEF IInv, EventsAgree, Told, Status
<1> QED
  BY <1>4, <1>5, <1>6, <1>7, <1>8 DEF IInv

LEMMA HeadObjectKeeps ==
    ASSUME IInv, HeadObject
    PROVE  IInv'
<1> USE DEF uploads, rows, store, clients
<1>1. PICK k \in work : \/ Skip(k)
                        \/ k \notin objects /\ Take(k, "missing")
  BY DEF HeadObject
<1>2. k \in Keys /\ artifact[k] # None /\ faults' \in 0 .. MaxFaults
  BY FaultAssumption DEF IInv, TypeOK, PassInPlace, HeadObject, Fault
<1>3. TypeOK'
  BY <1>1, <1>2, RowsKept DEF IInv, TypeOK, HeadObject, Skip, Take, Points
<1>4. PassInPlace'
  BY <1>1, <1>2 DEF IInv, PassInPlace, HeadObject, Skip, Take
<1> QED
  BY <1>3, <1>4, RowsKept, ClientsKept, GoneKept, LateKept, PublishedKept
     DEF IInv, PublishedOnce, HeadObject

LEMMA MissingRereadKeeps ==
    ASSUME IInv, MissingReread
    PROVE  IInv'
<1>1. /\ current \in Keys \ objects /\ artifact[current] \in Artifact
      /\ artifact[current] # None /\ Status(current) = artifact[current].status
      /\ \A k \in work : artifact[k] # None
  BY DEF IInv, TypeOK, PassInPlace, MissingReread, Status
<1>2. PassInPlace'
  <2>1. CASE GoOn("missing_commit") /\ copy' = artifact[current] /\ Status(current) = "AVAILABLE"
    BY <1>1, <2>1 DEF PassInPlace, GoOn, MissingReread, rows, store, Status, Artifact
  <2>2. CASE Done("reconcile")
    BY <1>1, <2>2 DEF PassInPlace, Done, Enter, MissingReread, rows
  <2> QED
    BY <2>1, <2>2 DEF MissingReread
<1> QED
  BY <1>1, <1>2, OnlyThePass DEF IInv, TypeOK, MissingReread, GoOn, Done, Enter, Points

LEMMA MissingCommitKeeps ==
    ASSUME IInv, MissingCommit
    PROVE  IInv'
<1> USE DEF uploads, store, clients
<1>1. PICK k \in Keys :
          /\ k = current /\ k \notin objects /\ artifact[k] # None
          /\ copy.version = artifact[k].version => Status(k) = "AVAILABLE"
          /\ artifact[k].version \in Nat
  BY DEF IInv, TypeOK, PassInPlace, MissingCommit, Artifact
<1>2. CASE Enter("idle", {}) /\ UNCHANGED <<artifact, older, outbox>>
  BY <1>2, PassIdle, OnlyThePass DEF IInv, TypeOK, MissingCommit, Enter, Points, rows
<1>3. CASE /\ Fresh(k, copy.version) /\ Write(k, "FAILED")
           /\ Announce("Missing", k, artifact[k].version + 1, "FAILED")
           /\ Done("reconcile")
  <2> DEFINE e0 == [type |-> "Missing", key |-> k, version |-> artifact[k].version + 1,
                    status |-> "FAILED"]
  <2>1. Status(k) = "AVAILABLE"
    BY <1>1, <1>3 DEF Fresh
  <2>2. /\ artifact' \in [Keys -> Artifact \cup {None}]
        /\ older' \subseteq Keys \X Keys /\ Ordered'
        /\ artifact'[k].status = "FAILED"
        /\ artifact'[k].version = artifact[k].version + 1 /\ artifact'[k] # None
        /\ \A j \in Keys \ {k} : artifact'[j] = artifact[j]
    BY <1>1, <1>3, Written DEF IInv, Statuses
  <2>3. /\ outbox' = outbox \cup {e0} /\ e0 \in Event
        /\ e0.key = k /\ e0.type = "Missing" /\ e0.version = artifact[k].version + 1
    BY <1>1, <1>3 DEF Announce, Event, Statuses
  <2>4. /\ point' = "reconcile" /\ work' = work /\ current' = None /\ copy' = None
        /\ UNCHANGED <<session, completing, backoff, objects, recent, late, seen,
                       reading, faults>>
    BY <1>3 DEF MissingCommit, Done, Enter
  <2> HIDE DEF e0
  <2>5. TypeOK'
    BY <2>2, <2>3, <2>4 DEF IInv, TypeOK, Points
  <2>6. PublishedOnce' /\ LateIsJustified' /\ GoneMeansGone'
    BY <1>1, <1>3, <2>1, <2>4, WriteKeeps DEF Statuses
  <2>7. ClientsInPlace'
    BY <1>1, <1>3, <2>1, <2>4, WriteKeepsClients DEF Statuses
  <2>8. PassInPlace'
    BY <2>2, <2>4 DEF IInv, TypeOK, PassInPlace, MissingCommit
  <2>9. EventsAgree'
    <3>1. Told(k)'
      BY <2>1, <2>2, <2>3 DEF IInv, EventsAgree, Told, Status
    <3> QED
      BY <2>2, <2>3, <3>1, OthersTold DEF EventsAgree
  <2> QED
    BY <2>5, <2>6, <2>7, <2>8, <2>9 DEF IInv
<1> QED
  BY <1>1, <1>2, <1>3 DEF MissingCommit

LEMMA CheckOrphanKeeps ==
    ASSUME IInv, CheckOrphan
    PROVE  IInv'
<1>1. PICK k \in work : \/ Skip(k)
                        \/ session[k] = "none" /\ Take(k, "orphan_delete")
  BY DEF CheckOrphan, Referenced
<1>2. k \in Keys
  BY DEF IInv, TypeOK
<1>3. PassInPlace'
  BY <1>1, <1>2 DEF PassInPlace, CheckOrphan, Skip, Take, uploads
<1> QED
  BY <1>1, <1>2, <1>3, OnlyThePass DEF IInv, TypeOK, CheckOrphan, Skip, Take, Points

LEMMA DeleteOrphanKeeps ==
    ASSUME IInv, DeleteOrphan
    PROVE  IInv'
<1> USE DEF uploads, rows, clients
<1>1. PICK k \in Keys : k = current /\ session[k] = "none"
  BY DEF IInv, PassInPlace, DeleteOrphan
<1>2. /\ objects' \in {objects, objects \ {k}} /\ recent' \subseteq objects'
      /\ late \subseteq late' /\ late' \subseteq late \cup {k}
      /\ faults' \in 0 .. MaxFaults
  BY <1>1, FaultAssumption DEF IInv, TypeOK, DeleteOrphan, RemoveFault, Remove, Fault
<1>3. TypeOK'
  BY <1>2, RowsKept DEF IInv, TypeOK, DeleteOrphan, GoOn, Done, Enter, Points
<1>4. PublishedOnce'
  BY <1>1, <1>2, PublishedKept DEF IInv, PublishedOnce, DeleteOrphan
<1>5. LateIsJustified'
  BY <1>1, <1>2 DEF IInv, LateIsJustified, Status, DeleteOrphan
<1>6. PassInPlace'
  BY <1>1 DEF PassInPlace, DeleteOrphan, GoOn, Done, Enter
<1> QED
  BY <1>2, <1>3, <1>4, <1>5, <1>6, RowsKept, ClientsKept, GoneKept DEF IInv, DeleteOrphan

LEMMA AnnounceOrphanKeeps ==
    ASSUME IInv, AnnounceOrphan
    PROVE  IInv'
<1> USE DEF uploads, store, clients
<1> DEFINE e0 == [type |-> "Orphan", key |-> current, version |-> 1, status |-> "none"]
<1>1. /\ outbox' = outbox \cup {e0} /\ e0 \in Event /\ e0.type = "Orphan"
  BY DEF IInv, PassInPlace, AnnounceOrphan, Announce, Event
<1> HIDE DEF e0
<1>2. TypeOK'
  BY <1>1 DEF IInv, TypeOK, Ordered, AnnounceOrphan, Done, Enter, Points
<1>3. EventsAgree'
  BY <1>1 DEF IInv, EventsAgree, Told, Status, AnnounceOrphan
<1> QED
  BY <1>2, <1>3, PassIdle, ClientsKept, GoneKept, LateKept, PublishedKept
     DEF IInv, PublishedOnce, AnnounceOrphan, Done, Enter

LEMMA PassFailsKeeps ==
    ASSUME IInv, PassFails
    PROVE  IInv'
<1> USE DEF uploads, rows, clients
<1>1. \A k \in late' \ late : /\ k \in Keys
                              /\ Status(k) = "DELETING" \/ session[k] = "none"
  BY DEF IInv, TypeOK, PassInPlace, PassFails
<1>2. TypeOK'
  BY <1>1, FaultAssumption, RowsKept DEF IInv, TypeOK, PassFails, Enter, Fault, Points
<1>3. LateIsJustified'
  BY <1>1 DEF IInv, LateIsJustified, Status, PassFails
<1> QED
  BY <1>2, <1>3, PassIdle, RowsKept, ClientsKept, GoneKept, PublishedKept
     DEF IInv, PublishedOnce, PassFails, Enter

----------------------------------------------------------------------------
(* The environment.                                                        *)

LEMMA LateDeleteKeeps ==
    ASSUME IInv, LateDelete
    PROVE  IInv'
<1> USE DEF LateDelete, uploads, rows, pass, clients
<1>1. PICK k \in late : Remove(k) /\ late' = late \ {k}
  OBVIOUS
<1>2. k \notin completing
  BY DEF IInv, TypeOK, LateIsJustified, PublishedOnce, Status
<1>3. TypeOK'
  BY <1>1, RowsKept DEF IInv, TypeOK, Remove
<1> QED
  BY <1>1, <1>2, <1>3, RowsKept, ClientsKept, GoneKept, LateKept, PublishedKept, PassKept
     DEF IInv, PublishedOnce, Remove

LEMMA LoseObjectKeeps ==
    ASSUME IInv, NEW k \in Keys, LoseObject(k)
    PROVE  IInv'
<1> USE DEF LoseObject, uploads, rows, pass, clients
<1>1. k \notin completing
  BY DEF IInv, PublishedOnce, Status, Verdicts
<1>2. TypeOK'
  BY FaultAssumption, RowsKept DEF IInv, TypeOK, Remove, Fault
<1> QED
  BY <1>1, <1>2, RowsKept, ClientsKept, GoneKept, LateKept, PublishedKept, PassKept
     DEF IInv, PublishedOnce, Remove

LEMMA TimePasses ==
    ASSUME IInv, WindowPasses \/ BackoffElapses
    PROVE  IInv'
<1> USE DEF WindowPasses, BackoffElapses, uploads, rows, store, pass, clients
<1>1. TypeOK'
  BY RowsKept DEF IInv, TypeOK
<1> QED
  BY <1>1, RowsKept, ClientsKept, GoneKept, LateKept, PublishedKept, PassKept
     DEF IInv, PublishedOnce

----------------------------------------------------------------------------
LEMMA MaintainKeeps ==
    ASSUME IInv, Maintain
    PROVE  IInv'
BY SelectionsKeep, DeleteObjectKeeps, DeleteObjectFaultKeeps, DeleteDoneKeeps,
   DeleteFailedKeeps, HeadObjectKeeps, MissingRereadKeeps, MissingCommitKeeps,
   CheckOrphanKeeps, DeleteOrphanKeeps, AnnounceOrphanKeeps DEF Maintain

LEMMA Unchanged ==
    ASSUME IInv, UNCHANGED vars
    PROVE  IInv'
<1> USE DEF vars
<1>1. TypeOK'
  BY RowsKept DEF IInv, TypeOK
<1> QED
  BY <1>1, RowsKept, ClientsKept, GoneKept, LateKept, PublishedKept, PassKept
     DEF IInv, PublishedOnce

LEMMA Inductive == IInv /\ [Next]_vars => IInv'
BY AssembleKeeps, RetryCompleteKeeps, PublishKeeps, CloseKeeps, LoseObjectKeeps,
   GetArtifactKeeps, DeleteReadKeeps, DeleteCommitKeeps, MaintainKeeps, PassFailsKeeps,
   LateDeleteKeeps, TimePasses, Unchanged DEF Next

(* Artifacts, objects, events, the ETags of clients and the items of a     *)
(* pass stay consistent (maintenance.py, run_once; artifacts.py), for any  *)
(* keys, clients, size of the batches and number of faults.                *)
THEOREM Invariant == Spec => []IInv
BY Initially, Inductive, PTL DEF Spec

(* FAILED and DELETED are never written while there is an object, whatever *)
(* fails, times out or arrives late (maintenance.py, _delete_artifacts and *)
(* _reconcile_missing).                                                    *)
THEOREM GoneSafety == Spec => []GoneMeansGone
<1>1. IInv => GoneMeansGone
  BY DEF IInv
<1> QED
  BY <1>1, Invariant, PTL

(* The outbox has the deletion of a deleted artifact and of no other, its  *)
(* request, however often recorded, and the loss of a failed one           *)
(* (artifacts.py, maintenance.py).                                         *)
THEOREM EventsTell == Spec => []EventsAgree
<1>1. IInv => EventsAgree
  BY DEF IInv
<1> QED
  BY <1>1, Invariant, PTL

----------------------------------------------------------------------------
(* What a step may do.                                                     *)

Forward(k) ==
    \/ artifact'[k] = artifact[k]
    \/ /\ artifact'[k].version = artifact[k].version + 1
       /\ <<artifact[k].status, artifact'[k].status>> \in
            {<<"AVAILABLE", "FAILED">>, <<"AVAILABLE", "DELETING">>,
             <<"QUARANTINED", "DELETING">>, <<"FAILED", "DELETING">>,
             <<"DELETING", "DELETING">>, <<"DELETING", "DELETED">>}

LEMMA WriteMovesForward ==
    ASSUME IInv, NEW k \in Keys, NEW s \in Statuses, artifact[k] # None, Write(k, s),
           \/ s = "DELETING" /\ artifact[k].status # "DELETED"
           \/ s = "DELETED" /\ artifact[k].status = "DELETING"
           \/ s = "FAILED" /\ artifact[k].status = "AVAILABLE"
    PROVE  \A j \in Keys : artifact[j] # None => Forward(j)
<1>1. /\ artifact'[k].status = s /\ artifact'[k].version = artifact[k].version + 1
      /\ \A j \in Keys \ {k} : artifact'[j] = artifact[j]
  BY Written DEF IInv
<1>2. artifact[k].status \in Statuses
  BY DEF IInv, TypeOK, Artifact
<1> QED
  BY <1>1, <1>2 DEF Forward, Statuses, Verdicts

LEMMA MovesForward ==
    ASSUME IInv, Next
    PROVE  \A j \in Keys : artifact[j] # None => Forward(j)
<1>1. ASSUME NEW k \in Keys, Publish(k)
      PROVE  \A j \in Keys : artifact[j] # None => Forward(j)
  <2>1. artifact[k] = None
    BY <1>1 DEF IInv, PublishedOnce, Publish
  <2> QED
    BY <1>1, <2>1 DEF IInv, TypeOK, Publish, Forward
<1>2. ASSUME NEW r \in Requests, DeleteCommit(r)
      PROVE  \A j \in Keys : artifact[j] # None => Forward(j)
  <2>1. PICK k \in Keys :
            /\ k = reading[r].key /\ artifact[k] # None
            /\ reading[r].version = artifact[k].version => reading[r].status = Status(k)
            /\ reading[r].status # "DELETED"
    BY <1>2 DEF IInv, TypeOK, ClientsInPlace, DeleteCommit, Reading
  <2>2. CASE Fresh(k, reading[r].version) /\ Write(k, "DELETING")
    BY <2>1, <2>2, WriteMovesForward DEF Fresh, Status, Statuses
  <2>3. CASE UNCHANGED artifact
    BY <2>3 DEF Forward
  <2> QED
    BY <1>2, <2>1, <2>2, <2>3 DEF DeleteCommit
<1>3. CASE DeleteDone \/ DeleteFailed
  <2>1. PICK k \in Keys :
            /\ k = current /\ artifact[k] # None /\ artifact[k].status = "DELETING"
    BY <1>3 DEF IInv, PassInPlace, DeleteDone, DeleteFailed, Status
  <2> QED
    BY <1>3, <2>1, WriteMovesForward DEF DeleteDone, DeleteFailed, Statuses
<1>4. CASE MissingCommit
  <2>1. PICK k \in Keys :
            /\ k = current /\ artifact[k] # None
            /\ copy.version = artifact[k].version => artifact[k].status = "AVAILABLE"
    BY <1>4 DEF IInv, PassInPlace, MissingCommit, Status
  <2>2. CASE Fresh(k, copy.version) /\ Write(k, "FAILED")
    BY <2>1, <2>2, WriteMovesForward DEF Fresh, Statuses
  <2>3. CASE UNCHANGED artifact
    BY <2>3 DEF Forward
  <2> QED
    BY <1>4, <2>1, <2>2, <2>3 DEF MissingCommit
<1>5. CASE UNCHANGED artifact
  BY <1>5 DEF Forward
<1>6. ASSUME NEW k \in Keys,
             Assemble(k) \/ RetryComplete(k) \/ Close(k) \/ LoseObject(k)
      PROVE  UNCHANGED artifact
  BY <1>6 DEF Assemble, RetryComplete, Close, LoseObject, rows
<1>7. ASSUME NEW r \in Requests, GetArtifact(r) \/ DeleteRead(r)
      PROVE  UNCHANGED artifact
  BY <1>7 DEF GetArtifact, DeleteRead, rows
<1>8. ASSUME \/ SelectDeleting \/ DeleteObject \/ DeleteObjectFault \/ SelectAvailable
             \/ HeadObject \/ MissingReread \/ ListObjects \/ CheckOrphan \/ DeleteOrphan
             \/ AnnounceOrphan \/ PassEnds
      PROVE  UNCHANGED artifact
  BY <1>8 DEF SelectDeleting, DeleteObject, DeleteObjectFault, SelectAvailable, HeadObject,
              MissingReread, ListObjects, CheckOrphan, DeleteOrphan, AnnounceOrphan,
              PassEnds, rows
<1>9. ASSUME PassFails \/ LateDelete \/ WindowPasses \/ BackoffElapses
      PROVE  UNCHANGED artifact
  BY <1>9 DEF PassFails, LateDelete, WindowPasses, BackoffElapses, rows
<1> QED
  BY <1>1, <1>2, <1>3, <1>4, <1>5, <1>6, <1>7, <1>8, <1>9 DEF Next, Maintain

(* No interleaving of deletions and reconciliation, on copies however old, *)
(* takes an artifact back, skips a version or touches a deleted one        *)
(* (artifacts.py, delete_artifact; maintenance.py, _reconcile_missing).    *)
THEOREM NoWayBack == Spec => LifecycleMovesForward
<1>1. IInv /\ [Next]_vars =>
        [\A k \in Keys : artifact[k] # None => Forward(k)]_vars
  BY MovesForward
<1> QED
  BY <1>1, Invariant, PTL DEF Spec, LifecycleMovesForward, Forward

LEMMA DeletesWhatWasSeen ==
    ASSUME IInv, Next, NEW j \in Keys, Status(j) # "DELETING", Status(j)' = "DELETING"
    PROVE  \E r \in Requests : seen[r] = [key |-> j, version |-> artifact[j].version]
<1>1. artifact[j] # None => artifact[j].status # "DELETING"
  BY DEF Status
<1>2. artifact'[j] # None /\ artifact'[j].status = "DELETING"
  BY DEF Status
<1>3. artifact'[j] # artifact[j]
  BY <1>1, <1>2
<1>4. ASSUME NEW k \in Keys, Publish(k)
      PROVE  FALSE
  BY <1>2, <1>3, <1>4 DEF IInv, TypeOK, Publish, Verdicts
<1>5. ASSUME NEW r \in Requests, DeleteCommit(r)
      PROVE  seen[r] = [key |-> j, version |-> artifact[j].version]
  <2>1. /\ reading[r] # None /\ reading[r].key \in Keys /\ artifact[reading[r].key] # None
        /\ seen[r] = [key |-> reading[r].key, version |-> reading[r].version]
    BY <1>5 DEF IInv, TypeOK, ClientsInPlace, DeleteCommit, Reading
  <2>2. /\ Fresh(reading[r].key, reading[r].version)
        /\ Write(reading[r].key, "DELETING")
    BY <1>3, <1>5 DEF DeleteCommit
  <2>3. reading[r].key = j
    BY <1>3, <2>1, <2>2, Written DEF IInv, Statuses
  <2> QED
    BY <2>1, <2>2, <2>3 DEF Fresh
<1>6. CASE DeleteDone \/ DeleteFailed
  <2>1. PICK k \in Keys : k = current /\ artifact[k] # None /\ artifact[k].status = "DELETING"
    BY <1>6 DEF IInv, PassInPlace, DeleteDone, DeleteFailed, Status
  <2> QED
    BY <1>1, <1>3, <1>6, <2>1, Written DEF IInv, DeleteDone, DeleteFailed, Statuses
<1>7. CASE MissingCommit
  <2>1. PICK k \in Keys : k = current /\ artifact[k] # None
    BY <1>7 DEF IInv, PassInPlace, MissingCommit
  <2> QED
    BY <1>2, <1>3, <1>7, <2>1, Written DEF IInv, MissingCommit, Statuses
<1>8. UNCHANGED artifact => FALSE
  BY <1>3
<1>9. ASSUME NEW k \in Keys,
             Assemble(k) \/ RetryComplete(k) \/ Close(k) \/ LoseObject(k)
      PROVE  FALSE
  BY <1>8, <1>9 DEF Assemble, RetryComplete, Close, LoseObject, rows
<1>10. ASSUME NEW r \in Requests, GetArtifact(r) \/ DeleteRead(r)
       PROVE  FALSE
  BY <1>8, <1>10 DEF GetArtifact, DeleteRead, rows
<1>11. ASSUME \/ SelectDeleting \/ DeleteObject \/ DeleteObjectFault \/ SelectAvailable
              \/ HeadObject \/ MissingReread \/ ListObjects \/ CheckOrphan \/ DeleteOrphan
              \/ AnnounceOrphan \/ PassEnds
       PROVE  FALSE
  BY <1>8, <1>11 DEF SelectDeleting, DeleteObject, DeleteObjectFault, SelectAvailable,
                     HeadObject, MissingReread, ListObjects, CheckOrphan, DeleteOrphan,
                     AnnounceOrphan, PassEnds, rows
<1>12. ASSUME PassFails \/ LateDelete \/ WindowPasses \/ BackoffElapses
       PROVE  FALSE
  BY <1>8, <1>12 DEF PassFails, LateDelete, WindowPasses, BackoffElapses, rows
<1> QED
  BY <1>4, <1>5, <1>6, <1>7, <1>9, <1>10, <1>11, <1>12 DEF Next, Maintain

(* A deletion becomes of the version its client holds, whatever became of  *)
(* the row between the If-Match and the commit (artifacts.py,              *)
(* delete_artifact).                                                       *)
THEOREM DeletesOnlyTheSeen == Spec => DeletionHonoursIfMatch
<1>1. IInv /\ [Next]_vars =>
        [\A k \in Keys :
           Status(k) # "DELETING" /\ Status(k)' = "DELETING" =>
             \E r \in Requests :
               seen[r] = [key |-> k, version |-> artifact[k].version]]_vars
  BY DeletesWhatWasSeen
<1> QED
  BY <1>1, Invariant, PTL DEF Spec, DeletionHonoursIfMatch

LEMMA SessionMoves ==
    ASSUME IInv, [Next]_vars, NEW j \in Keys, session'[j] # session[j]
    PROVE  \/ /\ session[j] = "open"
              /\ session'[j] \in {"cancelled", "expired"}
           \/ /\ session[j] \in {"open", "expired"}
              /\ session'[j] = "published"
<1>1. ASSUME NEW k \in Keys, Publish(k)
      PROVE  session[j] \in {"open", "expired"} /\ session'[j] = "published"
  BY <1>1 DEF IInv, TypeOK, PublishedOnce, Publish
<1>2. ASSUME NEW k \in Keys, Close(k)
      PROVE  session[j] = "open" /\ session'[j] \in {"cancelled", "expired"}
  BY <1>2 DEF IInv, TypeOK, Close
<1>3. ASSUME NEW k \in Keys, Assemble(k) \/ RetryComplete(k) \/ LoseObject(k)
      PROVE  FALSE
  BY <1>3 DEF Assemble, RetryComplete, LoseObject, uploads
<1>4. ASSUME NEW r \in Requests, GetArtifact(r) \/ DeleteRead(r) \/ DeleteCommit(r)
      PROVE  FALSE
  BY <1>4 DEF GetArtifact, DeleteRead, DeleteCommit, uploads
<1>5. ~Maintain
  BY DEF Maintain, SelectDeleting, DeleteObject, DeleteObjectFault, DeleteDone, DeleteFailed,
         SelectAvailable, HeadObject, MissingReread, MissingCommit, ListObjects, CheckOrphan,
         DeleteOrphan, AnnounceOrphan, PassEnds, uploads
<1>6. ~(PassFails \/ LateDelete \/ WindowPasses \/ BackoffElapses \/ UNCHANGED vars)
  BY DEF PassFails, LateDelete, WindowPasses, BackoffElapses, uploads, vars
<1> QED
  BY <1>1, <1>2, <1>3, <1>4, <1>5, <1>6 DEF Next

(* The sessions that maintenance and deletions meet here do no more than   *)
(* UploadContract lets them do, and so do the handlers of upload_sessions  *)
(* by UploadSessionProofs: the two modules agree on what they share.       *)
THEOREM SessionsKeepContract ==
    ASSUME NEW k \in Keys
    PROVE  Spec => SessionKeepsContract(k)
<1>1. Init /\ session[k] = "open" => Upload(k)!Init
  BY DEF Init, Upload!Init
<1>2. ASSUME IInv, IInv', [Next]_vars
      PROVE  [Upload(k)!Next]_(Upload(k)!contractVars)
  <2>1. /\ artifact[k] # None <=> session[k] = "published"
        /\ artifact'[k] # None <=> session'[k] = "published"
    BY <1>2 DEF IInv, PublishedOnce
  <2>2. CASE session'[k] = session[k]
    BY <2>1, <2>2 DEF Upload!contractVars
  <2>3. CASE session[k] = "open" /\ session'[k] = "cancelled"
    BY <2>1, <2>3 DEF Upload!Next, Upload!Cancel
  <2>4. CASE session[k] = "open" /\ session'[k] = "expired"
    BY <2>1, <2>4 DEF Upload!Next, Upload!Expire
  <2>5. CASE session[k] \in {"open", "expired"} /\ session'[k] = "published"
    BY <2>1, <2>5 DEF Upload!Next, Upload!Publish
  <2> QED
    BY <1>2, <2>2, <2>3, <2>4, <2>5, SessionMoves
<1>3. IInv /\ IInv' /\ [Next]_vars => [Upload(k)!Next]_(Upload(k)!contractVars)
  BY <1>2
<1> QED
  BY <1>1, <1>3, Invariant, PTL DEF Spec, SessionKeepsContract, Upload!Spec

LEMMA RemovesNoMore ==
    ASSUME IInv, Next, NEW j \in objects \ objects'
    PROVE  Status(j) \in {"DELETING", "DELETED"} \/ session[j] = "none" \/ LoseObject(j)
<1>1. CASE DeleteObject \/ DeleteObjectFault
  BY <1>1 DEF IInv, PassInPlace, DeleteObject, DeleteObjectFault, RemoveFault, Remove
<1>2. CASE DeleteOrphan
  BY <1>2 DEF IInv, PassInPlace, DeleteOrphan, RemoveFault, Remove
<1>3. CASE LateDelete
  BY <1>3 DEF IInv, LateIsJustified, LateDelete, Remove
<1>4. ASSUME NEW k \in Keys, LoseObject(k)
      PROVE  j = k
  BY <1>4 DEF LoseObject, Remove
<1>5. ASSUME NEW k \in Keys, Assemble(k) \/ RetryComplete(k) \/ Publish(k) \/ Close(k)
      PROVE  FALSE
  BY <1>5 DEF Assemble, RetryComplete, Publish, Close, store
<1>6. ASSUME NEW r \in Requests, GetArtifact(r) \/ DeleteRead(r) \/ DeleteCommit(r)
      PROVE  FALSE
  BY <1>6 DEF GetArtifact, DeleteRead, DeleteCommit, store
<1>7. ASSUME \/ SelectDeleting \/ DeleteDone \/ DeleteFailed \/ SelectAvailable
             \/ HeadObject \/ MissingReread \/ MissingCommit \/ ListObjects \/ CheckOrphan
             \/ AnnounceOrphan \/ PassEnds
      PROVE  FALSE
  BY <1>7 DEF SelectDeleting, DeleteDone, DeleteFailed, SelectAvailable, HeadObject,
              MissingReread, MissingCommit, ListObjects, CheckOrphan, AnnounceOrphan,
              PassEnds, store
<1>8. ASSUME PassFails \/ WindowPasses \/ BackoffElapses
      PROVE  FALSE
  BY <1>8 DEF PassFails, WindowPasses, BackoffElapses, store
<1> QED
  BY <1>1, <1>2, <1>3, <1>4, <1>5, <1>6, <1>7, <1>8 DEF Next, Maintain

(* The worker never removes an object that something needs, with deletions *)
(* that arrive late and rows that were read before they changed            *)
(* (maintenance.py, _delete_artifacts and _delete_orphans).                *)
THEOREM NothingNeededIsRemoved == Spec => RemovalsAreJustified
<1>1. IInv /\ [Next]_vars =>
        [\A k \in objects \ objects' :
           \/ Status(k) \in {"DELETING", "DELETED"}
           \/ session[k] = "none"
           \/ LoseObject(k)]_vars
  BY RemovesNoMore
<1> QED
  BY <1>1, Invariant, PTL DEF Spec, RemovalsAreJustified
=============================================================================
