----------------------- MODULE OrganizationMembership -----------------------
(***************************************************************************)
(* The members of one organisation, their roles, and the invites that lead *)
(* to membership.                                                          *)
(*                                                                         *)
(* A request is one transaction whose first statement updates the row of   *)
(* its user.  Changing a role and removing a member lock the row of the    *)
(* organisation before they read who may do what.  Inviting and revoking   *)
(* read without a lock; accepting locks the row of the invite.  An UPDATE  *)
(* of an invite writes the columns that differ from the copy its request   *)
(* has read, whatever the row has become, since invites have no version.   *)
(***************************************************************************)
EXTENDS Integers, FiniteSets

CONSTANTS
    Requests,     \* request handlers, several may run at once
    Users,
    EmailOf,      \* the e-mail address of each user; users may share one
    Calls,        \* what clients ask for, beside accepting a token
    Accepters,    \* the users who try tokens
    MaxTokens,    \* bound on the tokens ever issued
    None          \* no role, no invite, no call

Emails == {EmailOf[u] : u \in Users}
Roles == {"OWNER", "ADMIN", "MEMBER"}
Admins == {"OWNER", "ADMIN"}
InvitableRole == {"ADMIN", "MEMBER"}

InviteCall == [kind : {"invite"}, actor : Users, email : Emails, role : InvitableRole]
RevokeCall == [kind : {"revoke"}, actor : Users, email : Emails]
AcceptCall == [kind : {"accept"}, actor : Users, token : Nat]
RoleCall == [kind : {"role"}, actor : Users, member : Users, role : Roles]
RemoveCall == [kind : {"remove"}, actor : Users, member : Users]
Call == InviteCall \cup RevokeCall \cup AcceptCall \cup RoleCall \cup RemoveCall

ASSUME UsersAssumption == IsFiniteSet(Users)
ASSUME CallsAssumption ==
    Calls \subseteq InviteCall \cup RevokeCall \cup RoleCall \cup RemoveCall
ASSUME AcceptersAssumption == Accepters \subseteq Users
ASSUME MaxTokensAssumption == MaxTokens \in Nat

(* A row of organization_invites; there is at most one for an e-mail. *)
Invite == [role : InvitableRole, token : Nat, expired : BOOLEAN,
           accepted : BOOLEAN, revoked : BOOLEAN]

ASSUME NoneAssumption == None \notin Roles \cup Invite \cup Call \cup Emails

VARIABLES
    members,    \* the committed role of each user, or None
    invites,    \* the committed invite of each e-mail, or None
    issued,     \* how many tokens were made: token n is the nth
    spent,      \* the tokens that made someone a member
    pc,         \* how far the transaction of each request is
    call,       \* what each request asks for
    copy        \* the invite each request has loaded

vars == <<members, invites, issued, spent, pc, call, copy>>

InTransaction == {"authorized", "read", "flushed", "accepting", "locked", "decided"}

(* Every variable has its type. *)
TypeOK ==
    /\ members \in [Users -> Roles \cup {None}]
    /\ invites \in [Emails -> Invite \cup {None}]
    /\ issued \in Nat
    /\ spent \subseteq Nat
    /\ pc \in [Requests -> {"idle", "asked"} \cup InTransaction]
    /\ call \in [Requests -> Call \cup {None}]
    /\ copy \in [Requests -> Invite \cup {None}]

Init ==
    /\ members = [u \in Users |-> None]
    /\ invites = [e \in Emails |-> None]
    /\ issued = 0
    /\ spent = {}
    /\ pc = [r \in Requests |-> "idle"]
    /\ call = [r \in Requests |-> None]
    /\ copy = [r \in Requests |-> None]

----------------------------------------------------------------------------
(* Row locks, held until the transaction ends.                             *)

UserRowFree(r) ==
    \A other \in Requests \ {r} :
        pc[other] \in InTransaction => call[other].actor # call[r].actor

(* Mutant: the organisation is read without FOR UPDATE. *)
OrganizationUnlocked(r) == TRUE

(* SELECT ... FOR UPDATE of the organisation, which also keeps out the     *)
(* inserts of rows that refer to it.                                       *)
OrganizationRowFree(r) ==
    \A other \in Requests \ {r} : pc[other] \notin {"locked", "decided"}

(* An inserted invite refers to the organisation until it is committed. *)
NoNewInvite(r) ==
    \A other \in Requests \ {r} : pc[other] = "flushed" => copy[other] # None

(* The e-mail whose invite a request has locked. *)
LockedEmail(r) ==
    CASE pc[r] = "flushed" -> call[r].email
      [] pc[r] = "accepting" -> EmailOf[call[r].actor]
      [] OTHER -> None

(* Mutant: the invite is read without FOR UPDATE when it is accepted. *)
InviteUnlocked(r, e) == TRUE

InviteRowFree(r, e) == \A other \in Requests \ {r} : LockedEmail(other) # e

Goto(r, label) == pc' = [pc EXCEPT ![r] = label]

GoOn(r, label) == Goto(r, label) /\ UNCHANGED <<members, invites, issued, spent, call, copy>>

(* A request ends: its locks are free and its copies are gone. *)
End(r) ==
    /\ Goto(r, "idle")
    /\ call' = [call EXCEPT ![r] = None]
    /\ copy' = [copy EXCEPT ![r] = None]

(* A refusal, or whatever else ends the transaction without a commit. *)
Rollback(r) == End(r) /\ UNCHANGED <<members, invites, issued, spent>>

IsAdmin(u) == members[u] \in Admins
Kind(r) == call[r].kind

----------------------------------------------------------------------------
(* create_organization: the organisation and its owner in one transaction. *)
Found(u) ==
    /\ \A v \in Users : members[v] = None
    /\ members' = [members EXCEPT ![u] = "OWNER"]
    /\ UNCHANGED <<invites, issued, spent, pc, call, copy>>

(* A client asks: any of Calls, or with a token that was issued. *)
Ask(r) ==
    /\ pc[r] = "idle"
    /\ \E c \in Calls \cup [kind : {"accept"}, actor : Accepters, token : 1..issued] :
          call' = [call EXCEPT ![r] = c]
    /\ Goto(r, "asked")
    /\ UNCHANGED <<members, invites, issued, spent, copy>>

(* create_invite and revoke_invite: require_organization_admin. *)
Authorize(r) ==
    /\ pc[r] = "asked" /\ Kind(r) \in {"invite", "revoke"}
    /\ UserRowFree(r)
    /\ \/ ~IsAdmin(call[r].actor) /\ Rollback(r)
       \/ IsAdmin(call[r].actor) /\ GoOn(r, "authorized")

Live(invite) == ~invite.accepted /\ ~invite.revoked /\ ~invite.expired

(* create_invite: nobody with this address is a member, no invite is live. *)
ReadForInvite(r) ==
    /\ pc[r] = "authorized" /\ Kind(r) = "invite"
    /\ LET e == call[r].email
           member == \E u \in Users : EmailOf[u] = e /\ members[u] # None
           refused == member \/ (invites[e] # None /\ Live(invites[e])) IN
         \/ refused /\ Rollback(r)
         \/ /\ ~refused
            /\ copy' = [copy EXCEPT ![r] = invites[e]]
            /\ Goto(r, "read")
            /\ UNCHANGED <<members, invites, issued, spent, call>>

(* session.flush(): the row is locked; a second row for the e-mail fails.  *)
FlushInvite(r) ==
    /\ pc[r] = "read" /\ Kind(r) = "invite"
    /\ issued < MaxTokens
    /\ InviteRowFree(r, call[r].email)
    /\ copy[r] = None => OrganizationRowFree(r)
    /\ LET conflict == copy[r] = None /\ invites[call[r].email] # None IN
         \/ conflict /\ Rollback(r)
         \/ ~conflict /\ GoOn(r, "flushed")

(* Mutant: the old token is kept when the invite is sent again. *)
RenewedKeepingToken(row, loaded, role, token) ==
    [row EXCEPT !.role = role, !.expired = FALSE, !.accepted = FALSE, !.revoked = FALSE]

(* The columns that an UPDATE from this copy writes into this row. *)
Renewed(row, loaded, role, token) ==
    [role |-> IF role = loaded.role THEN row.role ELSE role,
     token |-> token,
     expired |-> FALSE,
     accepted |-> IF loaded.accepted THEN FALSE ELSE row.accepted,
     revoked |-> IF loaded.revoked THEN FALSE ELSE row.revoked]

CommitInvite(r) ==
    /\ pc[r] = "flushed"
    /\ issued < MaxTokens
    /\ issued' = issued + 1
    /\ LET e == call[r].email
           new == [role |-> call[r].role, token |-> issued + 1, expired |-> FALSE,
                   accepted |-> FALSE, revoked |-> FALSE]
           row == IF copy[r] = None THEN new
                  ELSE Renewed(invites[e], copy[r], call[r].role, issued + 1) IN
         invites' = [invites EXCEPT ![e] = row]
    /\ End(r)
    /\ UNCHANGED <<members, spent>>

(* revoke_invite: the invite exists and is not accepted yet. *)
ReadForRevoke(r) ==
    /\ pc[r] = "authorized" /\ Kind(r) = "revoke"
    /\ LET invite == invites[call[r].email]
           refused == IF invite = None THEN TRUE ELSE invite.accepted IN
         \/ refused /\ Rollback(r)
         \/ /\ ~refused
            /\ copy' = [copy EXCEPT ![r] = invite]
            /\ Goto(r, "read")
            /\ UNCHANGED <<members, invites, issued, spent, call>>

CommitRevoke(r) ==
    /\ pc[r] = "read" /\ Kind(r) = "revoke"
    /\ InviteRowFree(r, call[r].email)
    /\ invites' = [invites EXCEPT ![call[r].email].revoked = TRUE]
    /\ End(r)
    /\ UNCHANGED <<members, issued, spent>>

(* accept_invite: the row with this token, locked and then examined.  The  *)
(* invite is for the address of the user, so it is the user's.             *)
LockInvite(r) ==
    /\ pc[r] = "asked" /\ Kind(r) = "accept"
    /\ UserRowFree(r)
    /\ LET e == EmailOf[call[r].actor]
           invite == invites[e]
           mine == IF invite = None THEN FALSE ELSE invite.token = call[r].token IN
         /\ InviteRowFree(r, e)
         /\ \/ ~mine /\ Rollback(r)
            \/ mine /\ ~Live(invite) /\ Rollback(r)
            \/ mine /\ Live(invite) /\ copy' = [copy EXCEPT ![r] = invite]
               /\ Goto(r, "accepting")
               /\ UNCHANGED <<members, invites, issued, spent, call>>

(* The member is inserted, or is one already, which undoes everything. *)
CommitAccept(r) ==
    /\ pc[r] = "accepting"
    /\ OrganizationRowFree(r)
    /\ LET u == call[r].actor IN
         \/ members[u] # None /\ Rollback(r)
         \/ /\ members[u] = None
            /\ members' = [members EXCEPT ![u] = copy[r].role]
            /\ invites' = [invites EXCEPT ![EmailOf[u]].accepted = TRUE]
            /\ spent' = spent \cup {call[r].token}
            /\ End(r)
            /\ UNCHANGED issued

----------------------------------------------------------------------------
(* change_member_role and remove_organization_member. *)

(* _lock_and_authorize *)
LockAndAuthorize(r) ==
    /\ pc[r] = "asked" /\ Kind(r) \in {"role", "remove"}
    /\ UserRowFree(r)
    /\ OrganizationRowFree(r) /\ NoNewInvite(r)
    /\ \/ ~IsAdmin(call[r].actor) /\ Rollback(r)
       \/ IsAdmin(call[r].actor) /\ GoOn(r, "locked")

Owners == {u \in Users : members[u] = "OWNER"}

(* The call takes an owner's role away, by a lesser one or altogether. *)
Demotes(r) ==
    /\ members[call[r].member] = "OWNER"
    /\ Kind(r) = "role" => call[r].role # "OWNER"

(* Mutant: an admin may do to owners what an owner may. *)
ConcernsNobody(r) == FALSE

(* The call makes or touches an owner, which only an owner may do. *)
ConcernsOwner(r) ==
    \/ members[call[r].member] = "OWNER"
    \/ Kind(r) = "role" /\ call[r].role = "OWNER"

(* The checks of the target, all under the lock of the organisation. *)
Decide(r) ==
    /\ pc[r] = "locked"
    /\ LET refused == \/ members[call[r].member] = None
                      \/ ConcernsOwner(r) /\ members[call[r].actor] # "OWNER"
                      \/ Demotes(r) /\ Cardinality(Owners) <= 1 IN
         \/ refused /\ Rollback(r)
         \/ ~refused /\ GoOn(r, "decided")

CommitMember(r) ==
    /\ pc[r] = "decided"
    /\ members' = [members EXCEPT ![call[r].member] =
                      IF Kind(r) = "role" THEN call[r].role ELSE None]
    /\ End(r)
    /\ UNCHANGED <<invites, issued, spent>>

----------------------------------------------------------------------------
(* A lost process or connection, and the seven days of an invite. *)
Abandon(r) == pc[r] \in InTransaction /\ Rollback(r)

Expire(e) ==
    /\ invites[e] # None
    /\ ~invites[e].expired
    /\ invites' = [invites EXCEPT ![e].expired = TRUE]
    /\ UNCHANGED <<members, issued, spent, pc, call, copy>>

Step(r) ==
    \/ Authorize(r)
    \/ ReadForInvite(r) \/ FlushInvite(r) \/ CommitInvite(r)
    \/ ReadForRevoke(r) \/ CommitRevoke(r)
    \/ LockInvite(r) \/ CommitAccept(r)
    \/ LockAndAuthorize(r) \/ Decide(r) \/ CommitMember(r)

Next ==
    \/ \E u \in Users : Found(u)
    \/ \E r \in Requests : Ask(r) \/ Step(r) \/ Abandon(r)
    \/ \E e \in Emails : Expire(e)

Spec == Init /\ [][Next]_vars

----------------------------------------------------------------------------
(* An organisation with members has an owner, however role changes,        *)
(* removals and accepted invites interleave (M1-06): the count of owners   *)
(* is taken and used under one lock.                                       *)
OwnerRemains == (\E u \in Users : members[u] # None) => Owners # {}

(* Who changes a role or removes a member may do so at the commit, not     *)
(* only when the request looked: an admin there and then, and an owner if  *)
(* an owner is made, demoted or removed.                                   *)
AuthorityAtCommit ==
    [][\A r \in Requests : CommitMember(r) =>
          /\ IsAdmin(call[r].actor)
          /\ "OWNER" \in {members[call[r].member], members'[call[r].member]}
                => members[call[r].actor] = "OWNER"]_vars

(* A token is accepted once.  Whoever joins does so with the role of an    *)
(* invite for their address that is at that moment neither accepted nor    *)
(* revoked, and with its token; nobody else can do so with it after that.  *)
JoinedByInvite ==
    [][\A u \in Users :
          members[u] = None /\ members'[u] # None /\ Owners # {} =>
              LET invite == invites[EmailOf[u]] IN
              /\ invite # None
              /\ ~invite.accepted /\ ~invite.revoked
              /\ members'[u] = invite.role
              /\ invite.token \notin spent
              /\ spent' = spent \cup {invite.token}]_vars

(* The row locks keep apart the requests that hold them. *)
LocksHeldApart ==
    \A r, q \in Requests : r # q =>
        /\ pc[r] \in {"locked", "decided"} => pc[q] \notin {"locked", "decided"}
        /\ LockedEmail(r) # None => LockedEmail(r) # LockedEmail(q)

(* What a request that has the organisation has seen is still so. *)
DecisionsStand ==
    \A r \in Requests :
        /\ pc[r] \in {"locked", "decided"} =>
              /\ Kind(r) \in {"role", "remove"}
              /\ IsAdmin(call[r].actor)
        /\ pc[r] = "decided" =>
              /\ members[call[r].member] # None
              /\ ConcernsOwner(r) => members[call[r].actor] = "OWNER"
              /\ Demotes(r) => \E u \in Owners : u # call[r].member

(* The copy of a request that accepts is the row, except that time passes. *)
CopiesStand ==
    \A r \in Requests : pc[r] = "accepting" =>
        /\ Kind(r) = "accept"
        /\ invites[EmailOf[call[r].actor]] # None
        /\ copy[r] # None
        /\ ~copy[r].accepted /\ ~copy[r].revoked
        /\ copy[r].token = call[r].token
        /\ \E late \in BOOLEAN :
              invites[EmailOf[call[r].actor]] = [copy[r] EXCEPT !.expired = late]

(* Tokens are numbered as they are made, each belongs to one e-mail, and   *)
(* an invite whose token is spent is accepted.                             *)
TokensNumbered ==
    /\ \A t \in spent : t <= issued
    /\ \A e \in Emails : invites[e] # None =>
          /\ invites[e].token <= issued
          /\ ~invites[e].accepted => invites[e].token \notin spent
          /\ \A f \in Emails \ {e} : invites[f] # None => invites[f].token # invites[e].token

(* A request knows what it is about, and what it means to write is there:  *)
(* invites are never deleted.                                              *)
RequestsInPlace ==
    \A r \in Requests :
        /\ pc[r] # "idle" => call[r] # None
        /\ pc[r] \in {"authorized", "read"} => Kind(r) \in {"invite", "revoke"}
        /\ pc[r] = "flushed" => Kind(r) = "invite"
        /\ pc[r] = "read" /\ Kind(r) = "revoke" => copy[r] # None
        /\ pc[r] \in {"read", "flushed"} /\ copy[r] # None =>
              invites[call[r].email] # None

(* Before the organisation has an owner nothing happens to it. *)
FoundedFirst ==
    Owners = {} =>
        /\ \A e \in Emails : invites[e] = None
        /\ \A r \in Requests : pc[r] \in {"idle", "asked"}

(* The inductive invariant. *)
IInv ==
    /\ TypeOK
    /\ OwnerRemains
    /\ LocksHeldApart
    /\ DecisionsStand
    /\ CopiesStand
    /\ TokensNumbered
    /\ RequestsInPlace
    /\ FoundedFirst
============================================================================
