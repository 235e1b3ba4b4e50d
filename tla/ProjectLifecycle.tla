-------------------------- MODULE ProjectLifecycle --------------------------
(***************************************************************************)
(* One project and its members.                                            *)
(*                                                                         *)
(* A request is one transaction without row locks: it reads the project,   *)
(* compares If-Match with what it has read, and commits an UPDATE for the  *)
(* version it has read, if a column has changed at all.  The answer is     *)
(* read again after the commit.  Rows of project_members have no version.  *)
(*                                                                         *)
(* `code' stands for all that an update may change; it is unique among the *)
(* projects of the organisation, and the codes of the others are given.    *)
(***************************************************************************)
EXTENDS Integers, Sequences

CONSTANTS
    Users,          \* each with one request at a time
    OrganizationRole,   \* the role of each in the organisation
    Codes,
    TakenCodes,     \* the codes of other projects, deleted ones included
    Calls,          \* what clients ask for
    MaxVersion,     \* bound on the changes of the project
    None            \* no project, no role, nothing asked or seen

ASSUME OrganizationRoleAssumption ==
    OrganizationRole \in [Users -> {"OWNER", "ADMIN", "MEMBER"}]
ASSUME TakenCodesAssumption == TakenCodes \subseteq Codes
ASSUME MaxVersionAssumption == MaxVersion \in Nat \ {0}

ProjectStatus == {"ACTIVE", "ARCHIVED"}
ProjectRole == {"ADMIN", "ENGINEER", "VIEWER"}

Membership == [role : ProjectRole \cup {None}]

Content == [code : Codes, status : ProjectStatus]
Project == [content : Content, deleted : BOOLEAN, version : 1..MaxVersion]

(* What a client has been told: the ETag, the body, and by which handler.  *)
Seen == [etag : 1..MaxVersion, body : Content, created : BOOLEAN]

CreateCall == [kind : {"create", "update"}, code : Codes]
StatusCall == [kind : {"get", "archive", "restore", "delete"}]
MemberCall == [kind : {"add", "role"}, member : Users, role : ProjectRole]
              \cup [kind : {"remove"}, member : Users]
Call == CreateCall \cup StatusCall \cup MemberCall

ASSUME CallsAssumption == Calls \subseteq Call
ASSUME NoneAssumption ==
    None \notin Project \cup Membership \cup ProjectRole \cup Seen \cup Call \cup Content
                \cup {"added", "removed"}

VARIABLES
    project,    \* the committed row, or None
    history,    \* the content of every version so far
    members,    \* the project role of each user, or None
    statusEvents,   \* ProjectArchived and ProjectRestored in the outbox
    memberEvent,    \* the last event that added or removed each user
    record,     \* what the idempotency record of each user answers, or None
    seen,       \* what each client has last been told of the project
    pc, call,   \* the request of each user
    copy        \* the row that it has loaded, of the project or of a member

vars == <<project, history, members, statusEvents, memberEvent, record, seen, pc, call, copy>>

StatusEvent == [version : Nat, status : ProjectStatus]

(* Every variable has its type. *)
TypeOK ==
    /\ project \in Project \cup {None}
    /\ history \in Seq(Content)
    /\ members \in [Users -> ProjectRole \cup {None}]
    /\ statusEvents \subseteq StatusEvent
    /\ memberEvent \in [Users -> {"added", "removed", None}]
    /\ record \in [Users -> Content \cup {None}]
    /\ seen \in [Users -> Seen \cup {None}]
    /\ pc \in [Users -> {"idle", "asked", "decided", "committed"}]
    /\ call \in [Users -> Call \cup {None}]
    /\ copy \in [Users -> Project \cup Membership \cup {None}]

Init ==
    /\ project = None
    /\ history = <<>>
    /\ members = [u \in Users |-> None]
    /\ statusEvents = {}
    /\ memberEvent = [u \in Users |-> None]
    /\ record = [u \in Users |-> None]
    /\ seen = [u \in Users |-> None]
    /\ pc = [u \in Users |-> "idle"]
    /\ call = [u \in Users |-> None]
    /\ copy = [u \in Users |-> None]

store == <<project, history, members, statusEvents, memberEvent, record>>

Kind(u) == call[u].kind
Changes == {"update", "archive", "restore", "delete"}

End(u) ==
    /\ pc' = [pc EXCEPT ![u] = "idle"]
    /\ call' = [call EXCEPT ![u] = None]
    /\ copy' = [copy EXCEPT ![u] = None]

Refuse(u) == End(u) /\ UNCHANGED <<store, seen>>

Decide(u, loaded) ==
    /\ pc' = [pc EXCEPT ![u] = "decided"]
    /\ copy' = [copy EXCEPT ![u] = loaded]
    /\ UNCHANGED <<store, seen, call>>

Tell(u, etag, body, created) ==
    seen' = [seen EXCEPT ![u] = [etag |-> etag, body |-> body, created |-> created]]

----------------------------------------------------------------------------
(* A client asks; If-Match is the ETag it was last told. *)
Ask(u) ==
    /\ pc[u] = "idle"
    /\ \E c \in Calls :
          /\ c.kind \in Changes => seen[u] # None
          /\ call' = [call EXCEPT ![u] = c]
    /\ pc' = [pc EXCEPT ![u] = "asked"]
    /\ UNCHANGED <<store, seen, copy>>

OrganizationAdmin(u) == OrganizationRole[u] \in {"OWNER", "ADMIN"}

(* Mutant: the query does not leave out deleted projects. *)
VisibleDeleted(u) == project # None /\ (OrganizationAdmin(u) \/ members[u] # None)

(* _visible_project *)
Visible(u) ==
    /\ project # None
    /\ ~project.deleted
    /\ OrganizationAdmin(u) \/ members[u] # None

(* _require_project_admin *)
ProjectAdmin(u) ==
    Visible(u) /\ (OrganizationAdmin(u) \/ members[u] = "ADMIN")

Get(u) ==
    /\ pc[u] = "asked" /\ Kind(u) = "get"
    /\ \/ ~Visible(u) /\ Refuse(u)
       \/ Visible(u) /\ Tell(u, project.version, project.content, FALSE) /\ End(u)
          /\ UNCHANGED store

(* create_project: a key that was answered is answered again, without an   *)
(* ETag; otherwise the row is inserted unless its code is in use.          *)
CreateStart(u) ==
    /\ pc[u] = "asked" /\ Kind(u) = "create"
    /\ LET replay == record[u] # None IN
         \/ (~OrganizationAdmin(u) \/ replay) /\ Refuse(u)
         \/ OrganizationAdmin(u) /\ ~replay /\ Decide(u, None)

CreateCommit(u) ==
    /\ pc[u] = "decided" /\ Kind(u) = "create"
    /\ LET new == [code |-> call[u].code, status |-> "ACTIVE"]
           conflict == project # None \/ new.code \in TakenCodes IN
         \/ conflict /\ Refuse(u)
         \/ /\ ~conflict
            /\ project' = [content |-> new, deleted |-> FALSE, version |-> 1]
            /\ history' = <<new>>
            /\ members' = [members EXCEPT ![u] = "ADMIN"]
            /\ memberEvent' = [memberEvent EXCEPT ![u] = "added"]
            /\ record' = [record EXCEPT ![u] = new]
            /\ pc' = [pc EXCEPT ![u] = "committed"]
            /\ UNCHANGED <<statusEvents, seen, call, copy>>

----------------------------------------------------------------------------
(* update, archive, restore, delete: _check_version, then _commit_project. *)
ChangeStart(u) ==
    /\ pc[u] = "asked" /\ Kind(u) \in Changes
    /\ LET granted == ProjectAdmin(u) /\ project.version = seen[u].etag IN
         \/ ~granted /\ Refuse(u)
         \/ granted /\ Decide(u, project)

Target(u) ==
    CASE Kind(u) = "update" -> [copy[u].content EXCEPT !.code = call[u].code]
      [] Kind(u) = "archive" -> [copy[u].content EXCEPT !.status = "ARCHIVED"]
      [] Kind(u) = "restore" -> [copy[u].content EXCEPT !.status = "ACTIVE"]
      [] OTHER -> copy[u].content

(* archived_at and deleted_at are stamped with the time of the request. *)
Dirty(u) == Kind(u) \in {"archive", "delete"} \/ Target(u) # copy[u].content

(* Mutant: the mapper has no version_id_col. *)
WhateverVersion(u) == TRUE

(* The UPDATE finds its row: the version is the one that was loaded. *)
VersionMatches(u) == project.version = copy[u].version

NewStatusEvents(u) ==
    IF Kind(u) \in {"archive", "restore"}
      THEN {[version |-> copy[u].version + 1, status |-> Target(u).status]} ELSE {}

ChangeCommit(u) ==
    /\ pc[u] = "decided" /\ Kind(u) \in Changes
    /\ project.version < MaxVersion
    /\ LET conflict == Target(u).code # project.content.code /\ Target(u).code \in TakenCodes IN
         \/ Dirty(u) /\ (~VersionMatches(u) \/ conflict) /\ Refuse(u)
         \/ /\ Dirty(u) /\ VersionMatches(u) /\ ~conflict
            /\ project' = [content |-> Target(u),
                           deleted |-> project.deleted \/ Kind(u) = "delete",
                           version |-> project.version + 1]
            /\ history' = Append(history, Target(u))
            /\ statusEvents' = statusEvents \cup NewStatusEvents(u)
            /\ pc' = [pc EXCEPT ![u] = "committed"]
            /\ UNCHANGED <<members, memberEvent, record, seen, call, copy>>
         \/ /\ ~Dirty(u)
            /\ statusEvents' = statusEvents \cup NewStatusEvents(u)
            /\ pc' = [pc EXCEPT ![u] = "committed"]
            /\ UNCHANGED <<project, history, members, memberEvent, record, seen, call, copy>>

(* Mutant: the answer has the version and the content of before the commit. *)
AnswerUnrefreshed(u) ==
    Tell(u, project.version, copy[u].content, FALSE)

(* session.refresh: the answer is the row as it is after the commit.       *)
AnswerRefreshed(u) == Tell(u, project.version, project.content, FALSE)

(* The body of a creation is made before the commit, its ETag after it.    *)
Answer(u) ==
    /\ pc[u] = "committed"
    /\ CASE Kind(u) = "delete" -> UNCHANGED seen
         [] Kind(u) = "create" -> Tell(u, project.version, record[u], TRUE)
         [] OTHER -> AnswerRefreshed(u)
    /\ End(u)
    /\ UNCHANGED store

----------------------------------------------------------------------------
(* add_project_member, update_project_member, remove_project_member.       *)
MemberStart(u) ==
    /\ pc[u] = "asked" /\ Kind(u) \in {"add", "role", "remove"}
    /\ LET granted == ProjectAdmin(u)
                      /\ (Kind(u) # "add" => members[call[u].member] # None) IN
         \/ ~granted /\ Refuse(u)
         \/ granted /\ Decide(u, [role |-> members[call[u].member]])

MemberCommitted(u, role, event) ==
    /\ members' = [members EXCEPT ![call[u].member] = role]
    /\ memberEvent' = [memberEvent EXCEPT ![call[u].member] = event]
    /\ End(u)
    /\ UNCHANGED <<project, history, statusEvents, record, seen>>

(* The INSERT fails if there is a row. *)
AddCommit(u) ==
    /\ pc[u] = "decided" /\ Kind(u) = "add"
    /\ \/ members[call[u].member] # None /\ Refuse(u)
       \/ members[call[u].member] = None /\ MemberCommitted(u, call[u].role, "added")

(* Mutant: a role is inserted if there is no row to update. *)
RoleUpserted(u) == FALSE

(* The UPDATE of a row that is gone fails; without a change there is none. *)
RoleFails(u) == copy[u].role # call[u].role /\ members[call[u].member] = None

RoleCommit(u) ==
    /\ pc[u] = "decided" /\ Kind(u) = "role"
    /\ LET row == members[call[u].member] IN
         \/ RoleFails(u) /\ Refuse(u)
         \/ /\ ~RoleFails(u)
            /\ MemberCommitted(u, IF copy[u].role = call[u].role THEN row ELSE call[u].role,
                               memberEvent[call[u].member])

(* The DELETE of a row that is gone succeeds and is announced as well. *)
RemoveCommit(u) ==
    /\ pc[u] = "decided" /\ Kind(u) = "remove"
    /\ MemberCommitted(u, None, "removed")

----------------------------------------------------------------------------
(* The process or a connection is lost: before the commit nothing stays,   *)
(* after it only the answer is lost.                                       *)
Abandon(u) == pc[u] \in {"decided", "committed"} /\ Refuse(u)

Step(u) ==
    \/ Get(u) \/ CreateStart(u) \/ CreateCommit(u)
    \/ ChangeStart(u) \/ ChangeCommit(u) \/ Answer(u)
    \/ MemberStart(u) \/ AddCommit(u) \/ RoleCommit(u) \/ RemoveCommit(u)

Next == \E u \in Users : Ask(u) \/ Step(u) \/ Abandon(u)

Spec == Init /\ [][Next]_vars

----------------------------------------------------------------------------
(* Nobody overwrites what they have not seen: whoever changes a project    *)
(* replaces the very content they were last told (M1-07, If-Match).  The   *)
(* one exception is the answer to a creation, whose ETag may be newer than *)
(* its body.                                                               *)
NoLostUpdate ==
    [][\A u \in Users : ChangeCommit(u) /\ project' # project =>
          /\ project'.version = project.version + 1
          /\ seen[u].etag = project.version
          /\ ~seen[u].created => seen[u].body = project.content]_vars

(* A deleted project never changes again, not even by a request that read  *)
(* it before or whose client was told the version of the deletion.         *)
DeletedIsFinal ==
    [][project # None /\ project.deleted => project' = project]_vars

(* Every change of the status is announced with the version it made, and   *)
(* what is announced as archived was archived in that version.             *)
StatusAnnounced ==
    /\ \A v \in 2..Len(history) :
          history[v].status # history[v - 1].status =>
              [version |-> v, status |-> history[v].status] \in statusEvents
    /\ \A e \in statusEvents : e.status = "ARCHIVED" =>
          e.version \in 2..Len(history) /\ history[e.version].status = "ARCHIVED"

(* Who the events say is a member of the project is one, and nobody else,  *)
(* however additions, removals and changes of a role interleave.           *)
PresenceAnnounced ==
    \A u \in Users : members[u] # None <=> memberEvent[u] = "added"

EventsAgree == StatusAnnounced /\ PresenceAnnounced

(* The row is the last version, and everything seen or loaded is a version. *)
VersionsAreHistory ==
    /\ project = None <=> history = <<>>
    /\ project # None =>
          /\ project.version = Len(history)
          /\ project.content = history[project.version]
    /\ \A u \in Users : seen[u] # None =>
          /\ seen[u].etag \in 1..Len(history)
          /\ ~seen[u].created => seen[u].body = history[seen[u].etag]

(* A decided request has loaded a version it has seen, not deleted then. *)
CopiesAreHistory ==
    \A u \in Users :
        /\ pc[u] # "idle" => call[u] # None /\ (Kind(u) \in Changes => seen[u] # None)
        /\ pc[u] = "decided" /\ Kind(u) \in Changes =>
              /\ copy[u] \in Project
              /\ copy[u].version = seen[u].etag
              /\ copy[u].version <= Len(history)
              /\ copy[u].content = history[copy[u].version]
              /\ copy[u].version = Len(history) => copy[u] = project
              /\ ~copy[u].deleted
        /\ pc[u] = "committed" =>
              /\ project # None
              /\ Kind(u) = "create" => record[u] # None
        /\ pc[u] = "decided" /\ Kind(u) = "role" => copy[u] \in Membership

(* The inductive invariant. *)
IInv == TypeOK /\ VersionsAreHistory /\ CopiesAreHistory /\ EventsAgree

Known(u) == IF seen[u] = None THEN 0 ELSE seen[u].etag

Register == INSTANCE ProjectRegister WITH
    Clients <- Users,
    Contents <- Content,
    content <- IF project = None THEN None ELSE project.content,
    version <- IF project = None THEN 0 ELSE project.version,
    retired <- IF project = None THEN FALSE ELSE project.deleted,
    known <- [u \in Users |-> Known(u)]

(* The project is a register replaced by comparing versions. *)
RegisterHolds == Register!Spec
=============================================================================
