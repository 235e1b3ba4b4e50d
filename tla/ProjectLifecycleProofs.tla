----------------------- MODULE ProjectLifecycleProofs -----------------------
(***************************************************************************)
(* Theorems about ProjectLifecycle, for any users, codes, calls and number *)
(* of versions.                                                            *)
(***************************************************************************)
EXTENDS ProjectLifecycle, TLAPS

USE OrganizationRoleAssumption, TakenCodesAssumption, MaxVersionAssumption

(* Nothing that a row, a request or a client may be is None. *)
LEMMA NoneIsNothing ==
    /\ None \notin Project /\ None \notin Membership /\ None \notin ProjectRole
    /\ None \notin Seen /\ None \notin Call /\ None \notin Content
BY NoneAssumption

(* What is kept, without the requests. *)
Kept ==
    /\ project \in Project \cup {None}
    /\ history \in Seq(Content)
    /\ members \in [Users -> ProjectRole \cup {None}]
    /\ statusEvents \subseteq StatusEvent
    /\ memberEvent \in [Users -> {"added", "removed", None}]
    /\ record \in [Users -> Content \cup {None}]
    /\ seen \in [Users -> Seen \cup {None}]
    /\ VersionsAreHistory /\ EventsAgree

(* The requests, each against what is kept. *)
UnderWay ==
    /\ pc \in [Users -> {"idle", "asked", "decided", "committed"}]
    /\ call \in [Users -> Call \cup {None}]
    /\ copy \in [Users -> Project \cup Membership \cup {None}]
    /\ CopiesAreHistory

LEMMA Halves == Kept /\ UnderWay <=> IInv
BY DEF Kept, UnderWay, IInv, TypeOK

LEMMA HalvesNext == Kept' /\ UnderWay' => IInv'
BY DEF Kept, UnderWay, IInv, TypeOK

LEMMA KeptFrame ==
    ASSUME Kept, UNCHANGED <<store, seen>>
    PROVE  Kept'
BY DEF Kept, store, VersionsAreHistory, EventsAgree, StatusAnnounced, PresenceAnnounced

(* A version of the project that has just been read is the last one. *)
LEMMA RowIsLast ==
    ASSUME Kept, project # None
    PROVE  /\ project \in Project
           /\ project.version = Len(history)
           /\ project.version \in 1..MaxVersion /\ project.version \in 1..Len(history)
           /\ project.content = history[project.version] /\ project.content \in Content
<1>1. project \in Project
  BY DEF Kept
<1>2. project.version \in 1..MaxVersion /\ project.content \in Content
  BY <1>1 DEF Project
<1> QED
  BY <1>1, <1>2 DEF Kept, VersionsAreHistory

(* A request that ends leaves the others as they are. *)
LEMMA Ended ==
    ASSUME UnderWay, NEW u \in Users, End(u),
           UNCHANGED <<project, history, seen>>,
           \A w \in Users : record[w] # None => record'[w] # None
    PROVE  UnderWay'
BY DEF UnderWay, End, CopiesAreHistory, Kind

LEMMA Refused ==
    ASSUME IInv, NEW u \in Users, Refuse(u)
    PROVE  IInv'
<1>1. Kept /\ UnderWay
  BY Halves
<1>2. UnderWay'
  BY <1>1, Ended DEF Refuse, store
<1> QED
  BY <1>1, <1>2, KeptFrame, HalvesNext DEF Refuse

(* One that decides with a good copy joins them. *)
LEMMA Decided ==
    ASSUME IInv, NEW u \in Users, NEW loaded \in Project \cup Membership \cup {None},
           call[u] # None, Decide(u, loaded),
           Kind(u) \in Changes =>
              /\ loaded = project /\ project # None /\ ~project.deleted
              /\ seen[u] # None /\ project.version = seen[u].etag,
           Kind(u) = "role" => loaded \in Membership
    PROVE  IInv'
<1>1. Kept /\ UnderWay
  BY Halves
<1>2. UNCHANGED <<store, seen, call>> /\ pc' = [pc EXCEPT ![u] = "decided"]
      /\ copy' = [copy EXCEPT ![u] = loaded]
  BY DEF Decide
<1>3. Kind(u) \in Changes =>
        /\ loaded \in Project
        /\ loaded.version = seen[u].etag /\ loaded.version <= Len(history)
        /\ loaded.content = history[loaded.version]
        /\ ~loaded.deleted
  BY <1>1, RowIsLast
<1>4. UnderWay'
  BY <1>1, <1>2, <1>3 DEF UnderWay, CopiesAreHistory, Kind, store
<1> QED
  BY <1>1, <1>2, <1>4, KeptFrame, HalvesNext

(* A client is told an ETag of the history, and its body if it was read    *)
(* after the commit.                                                       *)
LEMMA Told ==
    ASSUME IInv, NEW u \in Users, NEW body \in Content, NEW created \in BOOLEAN,
           project # None, ~created => body = project.content,
           Tell(u, project.version, body, created), End(u), UNCHANGED store
    PROVE  IInv'
<1> DEFINE new == [etag |-> project.version, body |-> body, created |-> created]
<1>1. Kept /\ UnderWay
  BY Halves
<1>2. new \in Seen /\ new # None /\ new.etag \in 1..Len(history)
      /\ (~new.created => new.body = history[new.etag])
  BY <1>1, RowIsLast, NoneIsNothing DEF Seen
<1>3. seen' = [seen EXCEPT ![u] = new]
  BY DEF Tell
<1> HIDE DEF new
<1>4. Kept'
  BY <1>1, <1>2, <1>3 DEF Kept, store, VersionsAreHistory, EventsAgree, StatusAnnounced,
                          PresenceAnnounced
<1>5. UnderWay'
  BY <1>1, <1>2, <1>3 DEF UnderWay, End, CopiesAreHistory, Kind, store
<1> QED
  BY <1>4, <1>5, HalvesNext

LEMMA Asked ==
    ASSUME IInv, NEW u \in Users, Ask(u)
    PROVE  IInv'
<1>1. Kept /\ UnderWay
  BY Halves
<1>2. PICK c \in Call : /\ call' = [call EXCEPT ![u] = c]
                        /\ c.kind \in Changes => seen[u] # None
  BY CallsAssumption DEF Ask
<1>3. UnderWay'
  BY <1>1, <1>2, NoneIsNothing DEF Ask, UnderWay, CopiesAreHistory, Kind, store
<1> QED
  BY <1>1, <1>3, KeptFrame, HalvesNext DEF Ask

LEMMA GotOrAnswered ==
    ASSUME IInv, NEW u \in Users, Get(u) \/ Answer(u)
    PROVE  IInv'
<1>1. Kept /\ UnderWay
  BY Halves
<1>2. CASE Get(u)
  <2>1. CASE Refuse(u)
    BY <2>1, Refused
  <2>2. CASE Visible(u) /\ ~Refuse(u)
    BY <1>1, <1>2, <2>2, RowIsLast, Told DEF Get, Visible
  <2> QED
    BY <1>2, <2>1, <2>2 DEF Get
<1>3. CASE Answer(u)
  <2>1. project # None
    BY <1>1, <1>3 DEF Answer, UnderWay, CopiesAreHistory
  <2>2. CASE Kind(u) = "delete"
    BY <1>3, <2>2, Refused DEF Answer, Refuse
  <2>3. CASE Kind(u) = "create"
    <3>1. record[u] \in Content
      BY <1>1, <1>3, <2>3 DEF Answer, Kept, UnderWay, CopiesAreHistory
    <3> QED
      BY <1>3, <2>1, <2>3, <3>1, Told DEF Answer
  <2>4. CASE Kind(u) \notin {"create", "delete"}
    BY <1>1, <1>3, <2>1, <2>4, RowIsLast, Told DEF Answer, AnswerRefreshed
  <2> QED
    BY <2>2, <2>3, <2>4
<1> QED
  BY <1>2, <1>3

LEMMA Started ==
    ASSUME IInv, NEW u \in Users, CreateStart(u) \/ ChangeStart(u) \/ MemberStart(u)
    PROVE  IInv'
<1>1. Kept /\ UnderWay
  BY Halves
<1>2. call[u] # None
  BY <1>1 DEF UnderWay, CopiesAreHistory, CreateStart, ChangeStart, MemberStart
<1>3. CASE Refuse(u)
  BY <1>3, Refused
<1>4. CASE CreateStart(u) /\ ~Refuse(u)
  BY <1>2, <1>4, Decided DEF CreateStart, Changes
<1>5. CASE ChangeStart(u) /\ ~Refuse(u)
  <2>1. /\ Decide(u, project) /\ Kind(u) # "role"
        /\ project # None /\ ~project.deleted /\ project.version = seen[u].etag
    BY <1>5 DEF ChangeStart, ProjectAdmin, Visible, Changes
  <2>2. seen[u] # None
    BY <1>1, <1>5 DEF ChangeStart, UnderWay, CopiesAreHistory
  <2> QED
    BY <1>1, <1>2, <2>1, <2>2, RowIsLast, Decided
<1>6. CASE MemberStart(u) /\ ~Refuse(u)
  <2>1. Kind(u) \in {"add", "role", "remove"}
    BY <1>6 DEF MemberStart
  <2>2. call[u].member \in Users
    BY <1>1, <1>2, <2>1 DEF UnderWay, Kind, Call, CreateCall, StatusCall, MemberCall
  <2>3. [role |-> members[call[u].member]] \in Membership
    BY <1>1, <2>2 DEF Kept, Membership
  <2> QED
    BY <1>2, <1>6, <2>1, <2>3, Decided DEF MemberStart, Changes
<1> QED
  BY <1>3, <1>4, <1>5, <1>6

----------------------------------------------------------------------------
(* A membership that is committed together with its event *)
LEMMA MembersCommitted ==
    ASSUME IInv, NEW u \in Users, call[u].member \in Users,
           NEW role \in ProjectRole \cup {None}, NEW event \in {"added", "removed", None},
           role # None <=> event = "added",
           MemberCommitted(u, role, event)
    PROVE  IInv'
<1>1. Kept /\ UnderWay
  BY Halves
<1>2. UNCHANGED <<project, history, statusEvents, record, seen>> /\ End(u)
      /\ members' = [members EXCEPT ![call[u].member] = role]
      /\ memberEvent' = [memberEvent EXCEPT ![call[u].member] = event]
  BY DEF MemberCommitted
<1>3. UnderWay'
  BY <1>1, <1>2, Ended
<1>4. PresenceAnnounced'
  BY <1>1, <1>2 DEF Kept, EventsAgree, PresenceAnnounced
<1>5. StatusAnnounced' /\ VersionsAreHistory'
  BY <1>1, <1>2 DEF Kept, EventsAgree, StatusAnnounced, VersionsAreHistory
<1>6. Kept'
  BY <1>1, <1>2, <1>4, <1>5 DEF Kept, EventsAgree
<1> QED
  BY <1>3, <1>6, HalvesNext

LEMMA MemberKeeps ==
    ASSUME IInv, NEW u \in Users, AddCommit(u) \/ RoleCommit(u) \/ RemoveCommit(u)
    PROVE  IInv'
<1>1. Kept /\ UnderWay
  BY Halves
<1>2. Kind(u) \in {"add", "role", "remove"} /\ call[u] \in Call
  BY <1>1 DEF UnderWay, CopiesAreHistory, AddCommit, RoleCommit, RemoveCommit
<1>3. /\ call[u].member \in Users
      /\ Kind(u) # "remove" => call[u].role \in ProjectRole
  BY <1>2 DEF Kind, Call, CreateCall, StatusCall, MemberCall
<1>4. CASE Refuse(u)
  BY <1>4, Refused
<1>5. CASE AddCommit(u) /\ ~Refuse(u)
  BY <1>2, <1>3, <1>5, NoneIsNothing, MembersCommitted DEF AddCommit
<1>6. CASE RoleCommit(u) /\ ~Refuse(u)
  <2> DEFINE row == members[call[u].member]
             role == IF copy[u].role = call[u].role THEN row ELSE call[u].role
             event == memberEvent[call[u].member]
  <2>1. MemberCommitted(u, role, event) /\ ~RoleFails(u) /\ Kind(u) = "role"
    BY <1>6 DEF RoleCommit
  <2>2. row \in ProjectRole \cup {None} /\ event \in {"added", "removed", None}
        /\ (row # None <=> event = "added")
    BY <1>1, <1>3 DEF Kept, EventsAgree, PresenceAnnounced
  <2>3. role \in ProjectRole \cup {None} /\ (role # None <=> row # None)
    BY <1>3, <2>1, <2>2, NoneIsNothing DEF RoleFails
  <2> HIDE DEF row, role, event
  <2> QED
    BY <1>3, <2>1, <2>2, <2>3, MembersCommitted
<1>7. CASE RemoveCommit(u)
  BY <1>3, <1>7, MembersCommitted DEF RemoveCommit
<1> QED
  BY <1>4, <1>5, <1>6, <1>7

LEMMA CreateKeeps ==
    ASSUME IInv, NEW u \in Users, CreateCommit(u)
    PROVE  IInv'
<1> DEFINE new == [code |-> call[u].code, status |-> "ACTIVE"]
           row == [content |-> new, deleted |-> FALSE, version |-> 1]
<1>1. Kept /\ UnderWay
  BY Halves
<1>2. CASE Refuse(u)
  BY <1>2, Refused
<1>3. CASE ~Refuse(u)
  <2>1. /\ project = None /\ project' = row /\ history' = <<new>>
        /\ members' = [members EXCEPT ![u] = "ADMIN"]
        /\ memberEvent' = [memberEvent EXCEPT ![u] = "added"]
        /\ record' = [record EXCEPT ![u] = new]
        /\ pc' = [pc EXCEPT ![u] = "committed"]
        /\ UNCHANGED <<statusEvents, seen, call, copy>>
        /\ Kind(u) = "create" /\ pc[u] = "decided"
    BY <1>3 DEF CreateCommit
  <2>2. call[u] \in Call /\ call[u] # None
    BY <1>1, <2>1 DEF UnderWay, CopiesAreHistory
  <2>3. call[u].code \in Codes
    BY <2>1, <2>2 DEF Kind, Call, CreateCall, StatusCall, MemberCall
  <2>4. new \in Content /\ row \in Project
    BY <2>3 DEF Content, Project, ProjectStatus
  <2>5. row # None /\ new # None /\ row.version = 1 /\ row.content = new
    BY <2>4, NoneIsNothing
  <2>6. history = <<>> /\ Len(history) = 0 /\ Len(history') = 1 /\ history'[1] = new
        /\ history' \in Seq(Content)
    BY <1>1, <2>1, <2>4 DEF Kept, VersionsAreHistory
  <2> HIDE DEF new, row
  <2>7. \A w \in Users : seen[w] = None
    BY <1>1, <2>6 DEF Kept, VersionsAreHistory
  <2>8. VersionsAreHistory'
    BY <2>1, <2>5, <2>6, <2>7 DEF VersionsAreHistory
  <2>9. StatusAnnounced'
    BY <1>1, <2>1, <2>6 DEF Kept, EventsAgree, StatusAnnounced
  <2>10. PresenceAnnounced'
    BY <1>1, <2>1, NoneIsNothing DEF Kept, EventsAgree, PresenceAnnounced, ProjectRole
  <2>11. Kept'
    BY <1>1, <2>1, <2>4, <2>6, <2>8, <2>9, <2>10 DEF Kept, EventsAgree, ProjectRole
  <2>12. \A w \in Users : ~(pc[w] = "decided" /\ Kind(w) \in Changes)
    BY <1>1, <2>7 DEF UnderWay, CopiesAreHistory
  <2>13. \A w \in Users : pc[w] # "committed"
    BY <1>1, <2>1 DEF UnderWay, CopiesAreHistory
  <2>14. CopiesAreHistory'
    BY <1>1, <2>1, <2>2, <2>5, <2>12, <2>13 DEF Kept, UnderWay, CopiesAreHistory, Kind
  <2>15. UnderWay'
    BY <1>1, <2>1, <2>14 DEF UnderWay
  <2> QED
    BY <2>11, <2>15, HalvesNext
<1> QED
  BY <1>2, <1>3

LEMMA ChangeKeeps ==
    ASSUME IInv, NEW u \in Users, ChangeCommit(u)
    PROVE  IInv'
<1>1. Kept /\ UnderWay
  BY Halves
<1>2. CASE Refuse(u)
  BY <1>2, Refused
<1>3. /\ copy[u] \in Project /\ call[u] \in Call /\ call[u] # None
      /\ copy[u].version \in 1..Len(history)
      /\ copy[u].version = Len(history) => copy[u] = project
  BY <1>1 DEF ChangeCommit, UnderWay, CopiesAreHistory, Project, Kept
<1>4. project # None /\ Kind(u) \in Changes /\ pc[u] = "decided"
      /\ Len(history) \in Nat /\ project.version \in 1..MaxVersion
      /\ project.version = Len(history)
  BY <1>1, <1>3, RowIsLast DEF Kept, VersionsAreHistory, ChangeCommit
<1>5. Target(u) \in Content
  <2>1. copy[u].content \in Content
    BY <1>3 DEF Project
  <2>2. Kind(u) = "update" => call[u].code \in Codes
    BY <1>3 DEF Kind, Call, CreateCall, StatusCall, MemberCall
  <2> QED
    BY <2>1, <2>2 DEF Target, Content, ProjectStatus
<1>6. Target(u).status = IF Kind(u) = "archive" THEN "ARCHIVED"
                         ELSE IF Kind(u) = "restore" THEN "ACTIVE"
                         ELSE copy[u].content.status
  BY <1>3, <1>4 DEF Target, Project, Content, Changes
<1>7. NewStatusEvents(u) \subseteq StatusEvent
  BY <1>3, <1>5 DEF NewStatusEvents, StatusEvent, Project, Content
<1>8. ASSUME statusEvents' = statusEvents \cup NewStatusEvents(u),
             pc' = [pc EXCEPT ![u] = "committed"], ~Dirty(u),
             UNCHANGED <<project, history, members, memberEvent, record, seen, call, copy>>
      PROVE  IInv'
  <2>1. \A e \in NewStatusEvents(u) : e.status # "ARCHIVED"
    BY <1>4, <1>6, <1>8 DEF Dirty, NewStatusEvents
  <2>2. Kept'
    BY <1>1, <1>7, <1>8, <2>1 DEF Kept, VersionsAreHistory, EventsAgree, StatusAnnounced,
                                  PresenceAnnounced
  <2>3. UnderWay'
    BY <1>1, <1>4, <1>8 DEF UnderWay, CopiesAreHistory, Kind, Changes
  <2> QED
    BY <2>2, <2>3, HalvesNext
<1>9. ASSUME Dirty(u), VersionMatches(u), project.version < MaxVersion,
             project' = [content |-> Target(u),
                         deleted |-> project.deleted \/ Kind(u) = "delete",
                         version |-> project.version + 1],
             history' = Append(history, Target(u)),
             statusEvents' = statusEvents \cup NewStatusEvents(u),
             pc' = [pc EXCEPT ![u] = "committed"],
             UNCHANGED <<members, memberEvent, record, seen, call, copy>>
      PROVE  IInv'
  <2> DEFINE n == Len(history)
  <2>1. copy[u] = project /\ copy[u].version = n
    BY <1>3, <1>4, <1>9 DEF VersionMatches
  <2>2. /\ history' \in Seq(Content) /\ Len(history') = n + 1
        /\ history'[n + 1] = Target(u)
        /\ \A v \in 1..n : history'[v] = history[v]
    BY <1>1, <1>5, <1>9 DEF Kept
  <2>3. project' \in Project /\ project' # None
        /\ project'.version = n + 1 /\ project'.content = Target(u)
    <3>1. (project.deleted \/ Kind(u) = "delete") \in BOOLEAN
      OBVIOUS
    <3>2. project.version + 1 \in 1..MaxVersion
      BY <1>4, <1>9
    <3>3. project' \in Project
      BY <1>5, <1>9, <3>1, <3>2 DEF Project
    <3> QED
      BY <1>4, <1>9, <3>3, NoneIsNothing
  <2>4. VersionsAreHistory'
    BY <1>1, <1>4, <1>9, <2>2, <2>3 DEF Kept, VersionsAreHistory, Seen
  <2>5. copy[u].content.status = history[n].status
    BY <1>1, <1>4, <2>1, RowIsLast
  <2>6. /\ history'[n + 1].status # history[n].status =>
              [version |-> n + 1, status |-> history'[n + 1].status] \in NewStatusEvents(u)
        /\ \A e \in NewStatusEvents(u) :
              e.version = n + 1 /\ e.status = history'[n + 1].status
    BY <1>4, <1>6, <2>1, <2>2, <2>5 DEF NewStatusEvents
  <2>7. StatusAnnounced'
    <3>1. \A v \in 2..Len(history') :
            history'[v].status # history'[v - 1].status =>
                [version |-> v, status |-> history'[v].status] \in statusEvents'
      <4> SUFFICES ASSUME NEW v \in 2..(n + 1),
                          history'[v].status # history'[v - 1].status
                   PROVE  [version |-> v, status |-> history'[v].status] \in statusEvents'
        BY <2>2
      <4>1. CASE v \in 2..n
        <5>1. history'[v] = history[v] /\ history'[v - 1] = history[v - 1]
          BY <1>4, <4>1, <2>2
        <5> QED
          BY <1>1, <1>9, <4>1, <5>1 DEF Kept, EventsAgree, StatusAnnounced
      <4>2. CASE v = n + 1
        <5>1. v - 1 = n /\ n \in 1..n
          BY <1>4, <4>2
        <5> QED
          BY <1>9, <2>2, <2>6, <4>2, <5>1
      <4> QED
        BY <1>4, <4>1, <4>2
    <3>2. \A e \in statusEvents' : e.status = "ARCHIVED" =>
            e.version \in 2..Len(history') /\ history'[e.version].status = "ARCHIVED"
      BY <1>1, <1>4, <1>9, <2>2, <2>6 DEF Kept, EventsAgree, StatusAnnounced
    <3> QED
      BY <3>1, <3>2 DEF StatusAnnounced
  <2>8. Kept'
    <3>1. PresenceAnnounced'
      BY <1>1, <1>9 DEF Kept, EventsAgree, PresenceAnnounced
    <3> QED
      BY <1>1, <1>7, <1>9, <2>2, <2>3, <2>4, <2>7, <3>1 DEF Kept, EventsAgree
  <2>9. CopiesAreHistory'
    <3> SUFFICES ASSUME NEW w \in Users
                 PROVE  CopiesAreHistory!(w)'
      BY DEF CopiesAreHistory
    <3> QED
      BY <1>1, <1>4, <1>9, <2>2, <2>3 DEF Kept, UnderWay, CopiesAreHistory, Kind, Changes, Project
  <2>10. UnderWay'
    BY <1>1, <1>9, <2>9 DEF UnderWay
  <2> QED
    BY <2>8, <2>10, HalvesNext
<1> QED
  BY <1>2, <1>8, <1>9 DEF ChangeCommit

LEMMA Initially == Init => IInv
BY NoneAssumption DEF Init, IInv, TypeOK, VersionsAreHistory, CopiesAreHistory, EventsAgree, StatusAnnounced,
       PresenceAnnounced

LEMMA Inductive == IInv /\ [Next]_vars => IInv'
<1> SUFFICES ASSUME IInv, [Next]_vars PROVE IInv'
  OBVIOUS
<1>1. CASE UNCHANGED vars
  BY <1>1, Halves, KeptFrame, HalvesNext DEF vars, store, UnderWay, CopiesAreHistory, Kind
<1>2. ASSUME NEW u \in Users, Ask(u) \/ Step(u) \/ Abandon(u) PROVE IInv'
  BY <1>2, Asked, Refused, GotOrAnswered, Started, CreateKeeps, ChangeKeeps, MemberKeeps
     DEF Step, Abandon
<1> QED
  BY <1>1, <1>2 DEF Next

----------------------------------------------------------------------------
(* The row, its versions, the outbox, the members and what every request   *)
(* and client has read of them agree as the invariant says, however the    *)
(* transactions of projects.py interleave.                                 *)
THEOREM Invariant == Spec => []IInv
BY Initially, Inductive, PTL DEF Spec

(* Each change of status is announced with the version it made, and the    *)
(* events tell who is a member (projects.py, add_outbox).                  *)
THEOREM EventsTell == Spec => []EventsAgree
<1>1. IInv => EventsAgree
  BY DEF IInv
<1> QED
  BY <1>1, Invariant, PTL

(* A change that is carried out finds the row as it was loaded. *)
LEMMA ChangeOfLoaded ==
    ASSUME IInv, NEW u \in Users, ChangeCommit(u), project' # project
    PROVE  /\ Dirty(u) /\ VersionMatches(u)
           /\ project # None /\ copy[u] = project /\ project \in Project
           /\ seen[u] # None /\ seen[u].etag = project.version
           /\ project'.version = project.version + 1
           /\ project'.content = Target(u) /\ Target(u) \in Content
           /\ project'.deleted = (project.deleted \/ Kind(u) = "delete")
           /\ ~project.deleted
           /\ project' \in Project /\ project' # None
           /\ UNCHANGED seen
<1>1. Kept /\ UnderWay
  BY Halves
<1>2. /\ Dirty(u) /\ VersionMatches(u) /\ UNCHANGED seen
      /\ project' = [content |-> Target(u),
                     deleted |-> project.deleted \/ Kind(u) = "delete",
                     version |-> project.version + 1]
      /\ pc[u] = "decided" /\ Kind(u) \in Changes /\ project.version < MaxVersion
  BY DEF ChangeCommit, Refuse, store
<1>3. /\ copy[u] \in Project /\ call[u] \in Call
      /\ copy[u].version \in 1..Len(history) /\ copy[u].version = seen[u].etag
      /\ copy[u].version = Len(history) => copy[u] = project
      /\ ~copy[u].deleted /\ seen[u] # None
  BY <1>1, <1>2 DEF UnderWay, CopiesAreHistory, Project, Kept
<1>4. project # None /\ project.version = Len(history)
  BY <1>1, <1>3, RowIsLast DEF Kept, VersionsAreHistory
<1>5. copy[u] = project
  BY <1>2, <1>3, <1>4 DEF VersionMatches
<1>6. Target(u) \in Content
  <2>1. copy[u].content \in Content
    BY <1>3 DEF Project
  <2>2. Kind(u) = "update" => call[u].code \in Codes
    BY <1>3 DEF Kind, Call, CreateCall, StatusCall, MemberCall
  <2> QED
    BY <2>1, <2>2 DEF Target, Content, ProjectStatus
<1>7. project' \in Project /\ project' # None
  <2>1. project.version + 1 \in 1..MaxVersion
    BY <1>2, <1>3, <1>5 DEF Project
  <2>2. (project.deleted \/ Kind(u) = "delete") \in BOOLEAN
    OBVIOUS
  <2>3. project' \in Project
    BY <1>2, <1>6, <2>1, <2>2 DEF Project
  <2> QED
    BY <2>3, NoneIsNothing
<1> QED
  BY <1>2, <1>3, <1>4, <1>5, <1>6, <1>7

(* Whoever changes a project replaces the content that they were last      *)
(* told, with any number of clients (projects.py, _check_version and the   *)
(* version column of the mapper).                                          *)
THEOREM NoUpdateIsLost == Spec => NoLostUpdate
<1>1. ASSUME IInv, [Next]_vars, NEW u \in Users, ChangeCommit(u), project' # project
      PROVE  /\ project'.version = project.version + 1
             /\ seen[u].etag = project.version
             /\ ~seen[u].created => seen[u].body = project.content
  <2>1. Kept
    BY <1>1, Halves
  <2> QED
    BY <1>1, <2>1, ChangeOfLoaded, RowIsLast DEF Kept, VersionsAreHistory
<1>2. IInv /\ [Next]_vars =>
        [\A u \in Users : ChangeCommit(u) /\ project' # project =>
             /\ project'.version = project.version + 1
             /\ seen[u].etag = project.version
             /\ ~seen[u].created => seen[u].body = project.content]_vars
  BY <1>1
<1> QED
  BY <1>2, Invariant, PTL DEF Spec, NoLostUpdate

(* A creation makes the project. *)
LEMMA CreationOfNew ==
    ASSUME IInv, NEW u \in Users, CreateCommit(u), project' # project
    PROVE  /\ project = None /\ project' # None /\ UNCHANGED seen
           /\ project'.content \in Content /\ project'.version = 1 /\ project'.deleted = FALSE
<1>1. /\ project = None /\ UNCHANGED seen /\ Kind(u) = "create"
      /\ project' = [content |-> [code |-> call[u].code, status |-> "ACTIVE"],
                     deleted |-> FALSE, version |-> 1]
  BY DEF CreateCommit, Refuse, store
<1>2. call[u] \in Call
  BY DEF IInv, TypeOK, CopiesAreHistory, CreateCommit
<1>3. [code |-> call[u].code, status |-> "ACTIVE"] \in Content
  BY <1>1, <1>2 DEF Kind, Call, CreateCall, StatusCall, MemberCall, Content, ProjectStatus
<1> QED
  BY <1>1, <1>3

(* What else changes the project is its creation. *)
LEMMA OtherSteps ==
    ASSUME IInv, NEW u \in Users, Ask(u) \/ Step(u) \/ Abandon(u), ~ChangeCommit(u), ~CreateCommit(u)
    PROVE  /\ UNCHANGED project
           /\ \/ UNCHANGED seen
              \/ /\ project # None
                 /\ \E body \in Content, created \in BOOLEAN :
                       Tell(u, project.version, body, created)
<1>0. Kept /\ UnderWay
  BY Halves
<1>1. CASE Ask(u) \/ Abandon(u)
  BY <1>1 DEF Ask, Abandon, Refuse, store
<1>2. CASE Get(u)
  BY <1>0, <1>2, RowIsLast DEF Get, Refuse, store, Visible
<1>3. CASE CreateStart(u) \/ ChangeStart(u) \/ MemberStart(u)
  BY <1>3 DEF CreateStart, ChangeStart, MemberStart, Refuse, Decide, store
<1>4. CASE Answer(u)
  <2>1. UNCHANGED project
    BY <1>4 DEF Answer, store
  <2>2. \/ UNCHANGED seen
        \/ Kind(u) = "create" /\ Tell(u, project.version, record[u], TRUE)
        \/ Tell(u, project.version, project.content, FALSE)
    BY <1>4 DEF Answer, AnswerRefreshed
  <2>3. project # None /\ (Kind(u) = "create" => record[u] \in Content)
    BY <1>0, <1>4 DEF Answer, Kept, UnderWay, CopiesAreHistory
  <2> QED
    BY <1>0, <2>1, <2>2, <2>3, RowIsLast
<1>5. CASE AddCommit(u) \/ RoleCommit(u) \/ RemoveCommit(u)
  BY <1>5 DEF AddCommit, RoleCommit, RemoveCommit, MemberCommitted, Refuse, store
<1> QED
  BY <1>1, <1>2, <1>3, <1>4, <1>5 DEF Step

(* A deleted project never changes again, whatever was read before it was  *)
(* deleted (projects.py, delete_project).                                  *)
THEOREM DeletionIsFinal == Spec => DeletedIsFinal
<1>1. ASSUME IInv, [Next]_vars, project # None, project.deleted PROVE project' = project
  <2>1. CASE UNCHANGED vars
    BY <2>1 DEF vars
  <2>2. ASSUME NEW u \in Users, Ask(u) \/ Step(u) \/ Abandon(u) PROVE project' = project
    <3>1. CASE ChangeCommit(u)
      BY <1>1, <3>1, ChangeOfLoaded
    <3>2. CASE CreateCommit(u)
      BY <1>1, <3>2, CreationOfNew
    <3> QED
      BY <1>1, <2>2, <3>1, <3>2, OtherSteps
  <2> QED
    BY <1>1, <2>1, <2>2 DEF Next
<1> QED
  BY <1>1, Invariant, PTL DEF Spec, DeletedIsFinal

(* Every step of a client is one of the register that the API promises, or *)
(* none: a project is replaced by comparing versions, and retired for ever *)
(* (M1-07).                                                                *)
THEOREM Implementation == Spec => RegisterHolds
<1> USE DEF Known
<1>1. Init => Register!Init
  BY DEF Init, Register!Init
<1>2. ASSUME IInv, [Next]_vars PROVE [Register!Next]_(Register!vars)
  <2>1. Kept /\ UnderWay
    BY <1>2, Halves
  <2>2. CASE UNCHANGED vars
    BY <2>2 DEF vars, Register!vars
  <2>3. ASSUME NEW u \in Users, Ask(u) \/ Step(u) \/ Abandon(u)
        PROVE  [Register!Next]_(Register!vars)
    <3>1. CASE ChangeCommit(u) /\ project' # project
      <4>1. Register!Replace(u)
        <5>1. project.version > 0 /\ project'.deleted \in BOOLEAN
          BY <1>2, <3>1, ChangeOfLoaded DEF Project
        <5> QED
          BY <1>2, <3>1, <5>1, ChangeOfLoaded DEF Register!Replace
      <4> QED
        BY <4>1 DEF Register!Next
    <3>2. CASE ChangeCommit(u) /\ project' = project
      BY <3>2 DEF ChangeCommit, Refuse, Register!vars
    <3>3. CASE CreateCommit(u)
      <4>1. CASE project' = project
        BY <3>3, <4>1 DEF CreateCommit, Refuse, Register!vars
      <4>2. CASE project' # project
        <5>1. Register!Make
          BY <1>2, <3>3, <4>2, CreationOfNew DEF Register!Make
        <5> QED
          BY <5>1 DEF Register!Next
      <4> QED
        BY <4>1, <4>2
    <3>4. CASE ~ChangeCommit(u) /\ ~CreateCommit(u)
      <4>1. CASE UNCHANGED <<project, seen>>
        BY <4>1 DEF Register!vars
      <4>2. CASE ~UNCHANGED seen
        <5>1. PICK body \in Content, created \in BOOLEAN :
                Tell(u, project.version, body, created)
          BY <1>2, <2>3, <3>4, <4>2, OtherSteps
        <5>2. project # None /\ UNCHANGED project
          BY <1>2, <2>3, <3>4, <4>2, OtherSteps
        <5>3. project.version \in 1..MaxVersion
          BY <2>1, <5>2, RowIsLast
        <5> DEFINE new == [etag |-> project.version, body |-> body, created |-> created]
        <5>4. new # None /\ new.etag = project.version
          BY <5>3, NoneIsNothing DEF Seen
        <5>5. seen' = [seen EXCEPT ![u] = new]
          BY <5>1 DEF Tell
        <5> HIDE DEF new
        <5>6. \A w \in Users : Known(w)' = IF w = u THEN project.version ELSE Known(w)
          BY <2>1, <5>4, <5>5 DEF Kept
        <5>7. [w \in Users |-> Known(w)]'
                = [[w \in Users |-> Known(w)] EXCEPT ![u] = project.version]
          BY <5>6
        <5>8. Register!Learn(u)
          BY <5>2, <5>3, <5>7 DEF Register!Learn
        <5> QED
          BY <5>8 DEF Register!Next
      <4> QED
        BY <1>2, <2>3, <3>4, <4>1, <4>2, OtherSteps
    <3> QED
      BY <3>1, <3>2, <3>3, <3>4
  <2> QED
    BY <1>2, <2>2, <2>3 DEF Next
<1> QED
  BY <1>1, <1>2, Invariant, PTL DEF Spec, RegisterHolds, Register!Spec
=============================================================================
