-------------------- MODULE OrganizationMembershipProofs --------------------
(***************************************************************************)
(* Theorems about OrganizationMembership, for any number of requests,      *)
(* users, e-mail addresses and invites.                                    *)
(***************************************************************************)
EXTENDS OrganizationMembership, FiniteSetTheorems, TLAPS

(* Nothing that a member, a row, a request or an address may be is None. *)
LEMMA NoneIsNothing ==
    /\ None \notin Roles /\ None \notin Invite /\ None \notin Call /\ None \notin Emails
    /\ "OWNER" # None /\ "ADMIN" # None /\ "MEMBER" # None
BY NoneAssumption DEF Roles

LEMMA EmailsTyped == \A u \in Users : EmailOf[u] \in Emails /\ EmailOf[u] # None
BY NoneIsNothing DEF Emails

(* The kind of a call tells what it says. *)
LEMMA CallTyped ==
    ASSUME NEW c \in Call
    PROVE  /\ c.actor \in Users
           /\ c.kind \in {"invite", "revoke", "accept", "role", "remove"}
           /\ c.kind \in {"invite", "revoke"} => c.email \in Emails /\ c.email # None
           /\ c.kind = "invite" => c.role \in InvitableRole
           /\ c.kind = "accept" => c.token \in Nat
           /\ c.kind \in {"role", "remove"} => c.member \in Users
           /\ c.kind = "role" => c.role \in Roles
BY NoneIsNothing DEF Call, InviteCall, RevokeCall, AcceptCall, RoleCall, RemoveCall

LEMMA CallOf ==
    ASSUME IInv, NEW r \in Requests, pc[r] # "idle"
    PROVE  call[r] \in Call
BY DEF IInv, TypeOK, RequestsInPlace

(* What is kept. *)
Kept ==
    /\ members \in [Users -> Roles \cup {None}]
    /\ invites \in [Emails -> Invite \cup {None}]
    /\ issued \in Nat
    /\ spent \subseteq Nat
    /\ OwnerRemains /\ TokensNumbered

(* The requests, each against what is kept. *)
UnderWay ==
    /\ pc \in [Requests -> {"idle", "asked"} \cup InTransaction]
    /\ call \in [Requests -> Call \cup {None}]
    /\ copy \in [Requests -> Invite \cup {None}]
    /\ LocksHeldApart /\ DecisionsStand /\ CopiesStand /\ RequestsInPlace /\ FoundedFirst

LEMMA Halves == Kept /\ UnderWay <=> IInv
BY DEF Kept, UnderWay, IInv, TypeOK

LEMMA HalvesNext == Kept' /\ UnderWay' => IInv'
BY DEF Kept, UnderWay, IInv, TypeOK

LEMMA KeptFrame ==
    ASSUME Kept, UNCHANGED <<members, invites, issued, spent>>
    PROVE  Kept'
BY DEF Kept, OwnerRemains, TokensNumbered, Owners

(* Whoever is a member is one of an organisation with an owner. *)
LEMMA AdminMeansFounded ==
    ASSUME IInv, NEW u \in Users, members[u] # None
    PROVE  Owners # {}
BY DEF IInv, OwnerRemains

(* A request that ends frees its locks, and disturbs nobody as long as what *)
(* the others rely on stays as it is.                                      *)
LEMMA Ended ==
    ASSUME IInv, NEW r \in Requests, End(r),
           \A q \in Requests \ {r} :
              /\ pc[q] \in {"locked", "decided"} => UNCHANGED members
              /\ pc[q] = "accepting" =>
                    invites'[EmailOf[call[q].actor]] = invites[EmailOf[call[q].actor]],
           \A e \in Emails : invites[e] # None => invites'[e] # None,
           Owners' = {} => Owners = {} /\ UNCHANGED invites
    PROVE  UnderWay'
<1>1. Kept /\ UnderWay
  BY Halves
<1>2. /\ pc' = [pc EXCEPT ![r] = "idle"]
      /\ call' = [call EXCEPT ![r] = None]
      /\ copy' = [copy EXCEPT ![r] = None]
  BY DEF End, Goto
<1>3. \A q \in Requests \ {r} : pc'[q] = pc[q] /\ call'[q] = call[q] /\ copy'[q] = copy[q]
  BY <1>1, <1>2 DEF UnderWay
<1>4. pc'[r] = "idle"
  BY <1>1, <1>2 DEF UnderWay
<1>5. LocksHeldApart'
  BY <1>1, <1>3, <1>4 DEF UnderWay, LocksHeldApart, LockedEmail
<1>6. DecisionsStand'
  BY <1>1, <1>3, <1>4 DEF UnderWay, DecisionsStand, Kind, IsAdmin, ConcernsOwner, Demotes, Owners
<1>7. CopiesStand'
  BY <1>1, <1>3, <1>4 DEF UnderWay, CopiesStand, Kind
<1>8. RequestsInPlace'
  <2> SUFFICES ASSUME NEW q \in Requests \ {r}
               PROVE  /\ pc[q] \in {"read", "flushed"} /\ copy[q] # None =>
                            invites'[call[q].email] # None
    BY <1>1, <1>3, <1>4 DEF UnderWay, RequestsInPlace, Kind
  <2>1. pc[q] \in {"read", "flushed"} => call[q].email \in Emails
    BY CallOf, CallTyped, <1>1 DEF UnderWay, RequestsInPlace, Kind
  <2> QED
    BY <1>1, <2>1 DEF UnderWay, RequestsInPlace
<1>9. FoundedFirst'
  BY <1>1, <1>3, <1>4 DEF UnderWay, FoundedFirst
<1> QED
  BY <1>1, <1>2, <1>5, <1>6, <1>7, <1>8, <1>9 DEF UnderWay, InTransaction

LEMMA RolledBack ==
    ASSUME IInv, NEW r \in Requests, Rollback(r)
    PROVE  IInv'
<1>1. Kept /\ UnderWay
  BY Halves
<1>2. UnderWay'
  BY Ended DEF Rollback, Owners
<1> QED
  BY <1>1, <1>2, KeptFrame, HalvesNext DEF Rollback

(* A request that goes on and takes no lock. *)
LEMMA WentOn ==
    ASSUME IInv, NEW r \in Requests, pc[r] # "idle", Owners # {},
           NEW label \in {"authorized", "read"}, NEW k \in Invite \cup {None},
           Goto(r, label), copy' = [copy EXCEPT ![r] = k],
           UNCHANGED <<members, invites, issued, spent, call>>,
           Kind(r) \in {"invite", "revoke"},
           label = "read" => k = invites[call[r].email],
           label = "read" /\ Kind(r) = "revoke" => k # None
    PROVE  IInv'
<1>1. Kept /\ UnderWay
  BY Halves
<1>2. pc' = [pc EXCEPT ![r] = label]
  BY DEF Goto
<1>3. LocksHeldApart'
  BY <1>1, <1>2 DEF UnderWay, LocksHeldApart, LockedEmail
<1>4. DecisionsStand' /\ CopiesStand'
  BY <1>1, <1>2 DEF UnderWay, DecisionsStand, Kind, IsAdmin, ConcernsOwner, Demotes, Owners,
                    CopiesStand
<1>5. RequestsInPlace' /\ FoundedFirst'
  BY <1>1, <1>2 DEF UnderWay, RequestsInPlace, FoundedFirst, Kind, Owners
<1>6. UnderWay'
  BY <1>1, <1>2, <1>3, <1>4, <1>5 DEF UnderWay, InTransaction
<1> QED
  BY <1>1, <1>6, KeptFrame, HalvesNext

LEMMA AskedKeeps ==
    ASSUME IInv, NEW r \in Requests, Ask(r)
    PROVE  IInv'
<1>1. Kept /\ UnderWay
  BY Halves
<1>2. PICK c \in Call : call' = [call EXCEPT ![r] = c]
  <2>1. [kind : {"accept"}, actor : Accepters, token : 1..issued] \subseteq Call
    BY <1>1, AcceptersAssumption DEF Kept, Call, AcceptCall
  <2>2. Calls \subseteq Call
    BY CallsAssumption DEF Call
  <2> QED
    BY <2>1, <2>2 DEF Ask
<1>3. c # None /\ pc[r] = "idle" /\ pc' = [pc EXCEPT ![r] = "asked"]
      /\ UNCHANGED <<members, invites, issued, spent, copy>>
  BY NoneIsNothing DEF Ask, Goto
<1>4. LocksHeldApart'
  BY <1>1, <1>2, <1>3 DEF UnderWay, LocksHeldApart, LockedEmail
<1>5. DecisionsStand' /\ CopiesStand'
  BY <1>1, <1>2, <1>3 DEF UnderWay, DecisionsStand, Kind, IsAdmin, ConcernsOwner, Demotes, Owners,
                    CopiesStand
<1>6. RequestsInPlace' /\ FoundedFirst'
  BY <1>1, <1>2, <1>3 DEF UnderWay, RequestsInPlace, FoundedFirst, Kind, Owners
<1>7. UnderWay'
  BY <1>1, <1>2, <1>3, <1>4, <1>5, <1>6 DEF UnderWay
<1> QED
  BY <1>1, <1>3, <1>7, KeptFrame, HalvesNext

----------------------------------------------------------------------------
(* create_invite and revoke_invite, up to their locks *)
LEMMA AuthorizeKeeps ==
    ASSUME IInv, NEW r \in Requests, Authorize(r)
    PROVE  IInv'
<1>1. call[r].actor \in Users /\ copy[r] \in Invite \cup {None}
  BY CallOf, CallTyped DEF Authorize, IInv, TypeOK
<1>2. CASE Rollback(r)
  BY <1>2, RolledBack
<1>3. CASE IsAdmin(call[r].actor) /\ GoOn(r, "authorized")
  <2>1. Owners # {}
    BY <1>1, <1>3, NoneIsNothing, AdminMeansFounded DEF IsAdmin, Admins
  <2>2. copy' = [copy EXCEPT ![r] = copy[r]] /\ pc[r] # "idle"
    BY <1>3 DEF GoOn, IInv, TypeOK, Authorize
  <2> QED
    BY <1>1, <1>3, <2>1, <2>2, WentOn DEF GoOn, Authorize
<1> QED
  BY <1>2, <1>3 DEF Authorize

LEMMA ReadKeeps ==
    ASSUME IInv, NEW r \in Requests, ReadForInvite(r) \/ ReadForRevoke(r)
    PROVE  IInv'
<1>1. CASE Rollback(r)
  BY <1>1, RolledBack
<1>2. CASE ~Rollback(r)
  <2>1. /\ copy' = [copy EXCEPT ![r] = invites[call[r].email]] /\ Goto(r, "read")
        /\ UNCHANGED <<members, invites, issued, spent, call>>
        /\ pc[r] = "authorized" /\ Kind(r) \in {"invite", "revoke"}
        /\ Kind(r) = "revoke" => invites[call[r].email] # None
    BY <1>2 DEF ReadForInvite, ReadForRevoke
  <2>2. invites[call[r].email] \in Invite \cup {None}
    BY <2>1, CallOf, CallTyped DEF Kind, IInv, TypeOK
  <2>3. Owners # {}
    BY <2>1 DEF IInv, FoundedFirst
  <2> QED
    BY <2>1, <2>2, <2>3, WentOn
<1> QED
  BY <1>1, <1>2

(* Whoever gets the row of an invite keeps the others from it. *)
LEMMA InviteLocked ==
    ASSUME IInv, NEW r \in Requests, NEW label \in {"flushed", "accepting"},
           NEW k \in Invite \cup {None}, NEW e \in Emails,
           pc[r] # "idle", Owners # {}, InviteRowFree(r, e),
           Goto(r, label), copy' = [copy EXCEPT ![r] = k],
           UNCHANGED <<members, invites, issued, spent, call>>,
           label = "flushed" =>
              Kind(r) = "invite" /\ e = call[r].email /\ (k # None => invites[e] # None),
           label = "accepting" =>
              /\ Kind(r) = "accept" /\ e = EmailOf[call[r].actor]
              /\ k # None /\ k = invites[e] /\ ~k.accepted /\ ~k.revoked
              /\ k.token = call[r].token
    PROVE  IInv'
<1>1. Kept /\ UnderWay
  BY Halves
<1>2. pc' = [pc EXCEPT ![r] = label]
  BY DEF Goto
<1>3. /\ \A q \in Requests \ {r} : LockedEmail(q)' = LockedEmail(q)
      /\ LockedEmail(r)' = e
      /\ \A q \in Requests \ {r} : LockedEmail(q) # e
  BY <1>1, <1>2 DEF UnderWay, LockedEmail, InviteRowFree
<1>4. LocksHeldApart'
  BY <1>1, <1>2, <1>3 DEF UnderWay, LocksHeldApart
<1>5. DecisionsStand'
  BY <1>1, <1>2 DEF UnderWay, DecisionsStand, Kind, IsAdmin, ConcernsOwner, Demotes, Owners
<1>6. CopiesStand'
  <2>1. label = "accepting" => k = [k EXCEPT !.expired = k.expired] /\ k.expired \in BOOLEAN
    BY DEF Invite
  <2> QED
    BY <1>1, <1>2, <2>1 DEF UnderWay, CopiesStand, Kind
<1>7. RequestsInPlace' /\ FoundedFirst'
  BY <1>1, <1>2 DEF UnderWay, RequestsInPlace, FoundedFirst, Kind, Owners
<1>8. UnderWay'
  BY <1>1, <1>2, <1>4, <1>5, <1>6, <1>7 DEF UnderWay, InTransaction
<1> QED
  BY <1>1, <1>8, KeptFrame, HalvesNext

LEMMA FlushKeeps ==
    ASSUME IInv, NEW r \in Requests, FlushInvite(r)
    PROVE  IInv'
<1>1. CASE Rollback(r)
  BY <1>1, RolledBack
<1>2. CASE ~Rollback(r)
  <2>1. /\ pc[r] = "read" /\ Kind(r) = "invite" /\ InviteRowFree(r, call[r].email)
        /\ Goto(r, "flushed")
        /\ UNCHANGED <<members, invites, issued, spent, call, copy>>
    BY <1>2 DEF FlushInvite, GoOn
  <2>2. call[r].email \in Emails
    BY <2>1, CallOf, CallTyped DEF Kind
  <2>3. copy[r] \in Invite \cup {None} /\ copy' = [copy EXCEPT ![r] = copy[r]]
        /\ (copy[r] # None => invites[call[r].email] # None) /\ Owners # {}
    BY <2>1 DEF IInv, TypeOK, RequestsInPlace, FoundedFirst
  <2> QED
    BY <2>1, <2>2, <2>3, InviteLocked
<1> QED
  BY <1>1, <1>2

LEMMA LockKeeps ==
    ASSUME IInv, NEW r \in Requests, LockInvite(r)
    PROVE  IInv'
<1>1. CASE Rollback(r)
  BY <1>1, RolledBack
<1>2. CASE ~Rollback(r)
  <2> DEFINE e == EmailOf[call[r].actor]
  <2>1. /\ pc[r] = "asked" /\ Kind(r) = "accept" /\ InviteRowFree(r, e)
        /\ invites[e] # None /\ invites[e].token = call[r].token /\ Live(invites[e])
        /\ copy' = [copy EXCEPT ![r] = invites[e]] /\ Goto(r, "accepting")
        /\ UNCHANGED <<members, invites, issued, spent, call>>
    BY <1>2 DEF LockInvite
  <2>2. e \in Emails
    BY <2>1, CallOf, CallTyped, EmailsTyped
  <2>3. invites[e] \in Invite \cup {None} /\ Owners # {}
    BY <2>1, <2>2 DEF IInv, TypeOK, FoundedFirst
  <2> HIDE DEF e
  <2>4. e = EmailOf[call[r].actor]
    BY DEF e
  <2> QED
    BY <2>1, <2>2, <2>3, <2>4, InviteLocked DEF Live
<1> QED
  BY <1>1, <1>2

----------------------------------------------------------------------------
(* The commits of an invite.  A row that no other request has locked is    *)
(* written by the one that ends.                                           *)
LEMMA InviteWritten ==
    ASSUME IInv, NEW r \in Requests, NEW e \in Emails, NEW new \in Invite,
           InviteRowFree(r, e), Owners # {}, End(r),
           invites' = [invites EXCEPT ![e] = new],
           UNCHANGED members
    PROVE  UnderWay'
<1>1. \A q \in Requests \ {r} : pc[q] = "accepting" =>
        EmailOf[call[q].actor] \in Emails /\ EmailOf[call[q].actor] # e
  <2> SUFFICES ASSUME NEW q \in Requests \ {r}, pc[q] = "accepting"
               PROVE  EmailOf[call[q].actor] \in Emails /\ EmailOf[call[q].actor] # e
    OBVIOUS
  <2>1. LockedEmail(q) = EmailOf[call[q].actor]
    BY DEF LockedEmail
  <2> QED
    BY <2>1, CallOf, CallTyped, EmailsTyped DEF InviteRowFree
<1>2. invites \in [Emails -> Invite \cup {None}]
  BY DEF IInv, TypeOK
<1>3. \A f \in Emails : invites[f] # None => invites'[f] # None
  BY <1>2, NoneIsNothing
<1>4. Owners' = Owners
  BY DEF Owners
<1> QED
  BY <1>1, <1>2, <1>3, <1>4, Ended

(* The row of a request that has locked it is free for it. *)
LEMMA OwnLock ==
    ASSUME IInv, NEW r \in Requests, LockedEmail(r) # None
    PROVE  InviteRowFree(r, LockedEmail(r))
BY DEF IInv, LocksHeldApart, InviteRowFree

LEMMA CommitInviteKeeps ==
    ASSUME IInv, NEW r \in Requests, CommitInvite(r)
    PROVE  IInv'
<1> DEFINE e == call[r].email
           fresh == [role |-> call[r].role, token |-> issued + 1, expired |-> FALSE,
                     accepted |-> FALSE, revoked |-> FALSE]
           new == IF copy[r] = None THEN fresh
                  ELSE Renewed(invites[e], copy[r], call[r].role, issued + 1)
<1>1. Kept /\ UnderWay
  BY Halves
<1>2. pc[r] = "flushed" /\ Kind(r) = "invite"
  BY <1>1 DEF CommitInvite, UnderWay, RequestsInPlace
<1>3. e \in Emails /\ e # None /\ call[r].role \in InvitableRole
  BY <1>2, CallOf, CallTyped DEF Kind
<1>4. invites' = [invites EXCEPT ![e] = new] /\ issued' = issued + 1
      /\ UNCHANGED <<members, spent>> /\ End(r)
  BY DEF CommitInvite
<1>5. new \in Invite /\ new.token = issued + 1 /\ issued + 1 \in Nat
  <2>1. issued + 1 \in Nat
    BY <1>1 DEF Kept
  <2>2. CASE copy[r] = None
    BY <1>3, <2>1, <2>2 DEF Invite
  <2>3. CASE copy[r] # None
    <3>1. invites[e] \in Invite /\ copy[r] \in Invite
      BY <1>1, <1>2, <1>3, <2>3 DEF Kept, UnderWay, RequestsInPlace
    <3>2. new = Renewed(invites[e], copy[r], call[r].role, issued + 1)
      BY <2>3
    <3> HIDE DEF new, e
    <3> QED
      BY <1>3, <2>1, <3>1, <3>2 DEF Renewed, Invite
  <2> QED
    BY <2>1, <2>2, <2>3
<1>6. LockedEmail(r) = e
  BY <1>2 DEF LockedEmail
<1>7. InviteRowFree(r, e)
  BY <1>3, <1>6, OwnLock
<1>8. Owners # {}
  BY <1>1, <1>2 DEF UnderWay, FoundedFirst
<1>9. \A t \in spent : t \in Nat /\ t <= issued
  BY <1>1 DEF Kept, TokensNumbered
<1>10. \A f \in Emails : invites[f] # None => invites[f].token \in Nat /\ invites[f].token <= issued
  BY <1>1 DEF Kept, TokensNumbered, Invite
<1>11. PICK k \in Emails : k = e
  BY <1>3
<1>12. PICK row \in Invite : row = new
  BY <1>5
<1> HIDE DEF e, new, fresh
<1>13. TokensNumbered'
  BY <1>1, <1>4, <1>5, <1>9, <1>10, <1>11, <1>12 DEF Kept, TokensNumbered
<1>14. Kept'
  BY <1>1, <1>4, <1>5, <1>11, <1>12, <1>13 DEF Kept, OwnerRemains, Owners
<1>15. UnderWay'
  BY <1>4, <1>7, <1>8, <1>11, <1>12, InviteWritten
<1> QED
  BY <1>14, <1>15, HalvesNext

LEMMA CommitRevokeKeeps ==
    ASSUME IInv, NEW r \in Requests, CommitRevoke(r)
    PROVE  IInv'
<1>1. Kept /\ UnderWay
  BY Halves
<1>2. PICK e \in Emails : e = call[r].email
  BY CallOf, CallTyped DEF CommitRevoke, Kind
<1>3. invites[e] \in Invite
  BY <1>1, <1>2 DEF CommitRevoke, Kept, UnderWay, RequestsInPlace
<1>4. PICK new \in Invite : new = [invites[e] EXCEPT !.revoked = TRUE]
  BY <1>3 DEF Invite
<1>5. new.token = invites[e].token /\ new.accepted = invites[e].accepted
  BY <1>3, <1>4 DEF Invite
<1>6. invites' = [invites EXCEPT ![e] = new] /\ UNCHANGED <<members, issued, spent>>
      /\ End(r) /\ InviteRowFree(r, e)
  BY <1>2, <1>4 DEF CommitRevoke
<1>7. Owners # {}
  BY <1>1 DEF CommitRevoke, UnderWay, FoundedFirst
<1>8. TokensNumbered'
  BY <1>1, <1>3, <1>5, <1>6, NoneIsNothing DEF Kept, TokensNumbered
<1>9. Kept'
  BY <1>1, <1>6, <1>8 DEF Kept, OwnerRemains, Owners
<1> QED
  BY <1>6, <1>7, <1>9, InviteWritten, HalvesNext

LEMMA CommitAcceptKeeps ==
    ASSUME IInv, NEW r \in Requests, CommitAccept(r), ~Rollback(r)
    PROVE  /\ IInv'
           /\ call[r].actor \in Users /\ members[call[r].actor] = None
           /\ members' = [members EXCEPT ![call[r].actor] = copy[r].role]
           /\ spent' = spent \cup {copy[r].token}
           /\ \E late \in BOOLEAN :
                 invites[EmailOf[call[r].actor]] = [copy[r] EXCEPT !.expired = late]
           /\ copy[r] \in Invite /\ ~copy[r].accepted /\ ~copy[r].revoked
           /\ copy[r].token \notin spent
<1> DEFINE u == call[r].actor
<1>1. Kept /\ UnderWay
  BY Halves
<1>2. /\ pc[r] = "accepting" /\ OrganizationRowFree(r) /\ members[u] = None
      /\ members' = [members EXCEPT ![u] = copy[r].role]
      /\ invites' = [invites EXCEPT ![EmailOf[u]].accepted = TRUE]
      /\ spent' = spent \cup {call[r].token} /\ End(r) /\ UNCHANGED issued
  BY DEF CommitAccept
<1>3. u \in Users
  BY <1>2, CallOf, CallTyped
<1>4. PICK e \in Emails : e = EmailOf[u] /\ e # None
  BY <1>3, EmailsTyped
<1>5. /\ Kind(r) = "accept" /\ invites[e] # None /\ copy[r] \in Invite
      /\ ~copy[r].accepted /\ ~copy[r].revoked /\ copy[r].token = call[r].token
      /\ \E late \in BOOLEAN : invites[e] = [copy[r] EXCEPT !.expired = late]
  BY <1>1, <1>2, <1>4 DEF UnderWay, CopiesStand
<1>6. /\ invites[e] \in Invite
      /\ invites[e].token = call[r].token /\ ~invites[e].accepted
      /\ copy[r].role \in InvitableRole /\ call[r].token \in Nat
  BY <1>1, <1>5 DEF Kept, Invite
<1>7. PICK new \in Invite : new = [invites[e] EXCEPT !.accepted = TRUE]
  BY <1>6 DEF Invite
<1>8. new.token = call[r].token /\ new.accepted
  BY <1>6, <1>7 DEF Invite
<1>9. invites' = [invites EXCEPT ![e] = new]
  BY <1>2, <1>4, <1>7
<1>10. Owners # {} /\ Owners' # {}
  <2>1. Owners # {}
    BY <1>1, <1>2 DEF UnderWay, FoundedFirst
  <2>2. \A v \in Owners : v # u
    BY <1>2, NoneIsNothing DEF Owners
  <2>3. Owners \subseteq Owners'
    BY <1>1, <1>2, <2>2 DEF Kept, Owners
  <2> QED
    BY <2>1, <2>3
<1>11. call[r].token \notin spent
  BY <1>1, <1>6, <1>5 DEF Kept, TokensNumbered
<1>12. TokensNumbered'
  <2>1. /\ invites'[e] = new /\ new.token = invites[e].token
        /\ \A f \in Emails \ {e} : invites'[f] = invites[f]
    BY <1>1, <1>6, <1>8, <1>9 DEF Kept
  <2>2. /\ \A t \in spent : t <= issued
        /\ \A f \in Emails : invites[f] # None =>
              /\ invites[f].token <= issued
              /\ ~invites[f].accepted => invites[f].token \notin spent
              /\ \A g \in Emails \ {f} : invites[g] # None => invites[g].token # invites[f].token
    BY <1>1 DEF Kept, TokensNumbered
  <2>3. \A t \in spent' : t <= issued'
    <3>1. call[r].token <= issued
      BY <1>5, <1>6, <2>2
    <3>2. spent' = spent \cup {call[r].token} /\ issued' = issued
      BY <1>2
    <3> QED
      BY <2>2, <3>1, <3>2
  <2>4. \A f \in Emails \ {e} : invites[f] # None => invites[f].token # call[r].token
    BY <1>5, <1>6, <2>2
  <2>5. \A f \in Emails : invites'[f] # None =>
          /\ invites'[f].token <= issued'
          /\ ~invites'[f].accepted => invites'[f].token \notin spent'
    BY <1>2, <1>5, <1>8, <2>1, <2>2, <2>4
  <2>6. \A f \in Emails : invites'[f] # None =>
          \A g \in Emails \ {f} : invites'[g] # None => invites'[g].token # invites'[f].token
    <3>1. \A f \in Emails : invites'[f] # None =>
            invites[f] # None /\ invites'[f].token = invites[f].token
      BY <1>5, <2>1
    <3> QED
      BY <2>2, <3>1
  <2> QED
    BY <2>3, <2>5, <2>6 DEF TokensNumbered
<1>13. Kept'
  <2>1. copy[r].role \in Roles
    BY <1>6 DEF InvitableRole, Roles
  <2> QED
    BY <1>1, <1>2, <1>3, <1>6, <1>9, <1>10, <1>12, <2>1 DEF Kept, OwnerRemains
<1>14. \A q \in Requests \ {r} : pc[q] = "accepting" =>
         EmailOf[call[q].actor] \in Emails /\ EmailOf[call[q].actor] # e
  <2> SUFFICES ASSUME NEW q \in Requests \ {r}, pc[q] = "accepting"
               PROVE  EmailOf[call[q].actor] \in Emails /\ EmailOf[call[q].actor] # e
    OBVIOUS
  <2>1. LockedEmail(q) = EmailOf[call[q].actor] /\ LockedEmail(r) = e
    BY <1>2, <1>4 DEF LockedEmail
  <2> QED
    BY <1>1, <1>4, <2>1, CallOf, CallTyped, EmailsTyped DEF UnderWay, LocksHeldApart
<1>15. \A f \in Emails : invites[f] # None => invites'[f] # None
  BY <1>1, <1>9, NoneIsNothing DEF Kept
<1>16. \A q \in Requests \ {r} :
         /\ pc[q] \notin {"locked", "decided"}
         /\ pc[q] = "accepting" =>
               invites'[EmailOf[call[q].actor]] = invites[EmailOf[call[q].actor]]
  BY <1>1, <1>2, <1>9, <1>14 DEF OrganizationRowFree, Kept
<1>17. UnderWay'
  BY <1>2, <1>10, <1>15, <1>16, Ended
<1>18. IInv'
  BY <1>13, <1>17, HalvesNext
<1> QED
  BY <1>2, <1>3, <1>4, <1>5, <1>11, <1>18

----------------------------------------------------------------------------
(* change_member_role and remove_organization_member *)

(* With another owner than the one that loses the role, one remains. *)
LEMMA AnotherOwner ==
    ASSUME NEW m \in Users, Cardinality(Owners) > 1
    PROVE  \E u \in Owners : u # m
<1>1. SUFFICES ASSUME \A u \in Owners : u = m PROVE FALSE
  OBVIOUS
<1>2. Owners \subseteq {m}
  BY <1>1
<1>3. IsFiniteSet({m}) /\ Cardinality({m}) = 1
  BY FS_Singleton
<1>4. Cardinality(Owners) <= 1
  BY <1>2, <1>3, FS_Subset
<1>5. Cardinality(Owners) \in Nat
  BY <1>2, <1>3, FS_Subset, FS_CardinalityType
<1> QED
  BY <1>4, <1>5

LEMMA LockAndAuthorizeKeeps ==
    ASSUME IInv, NEW r \in Requests, LockAndAuthorize(r)
    PROVE  IInv'
<1>1. CASE Rollback(r)
  BY <1>1, RolledBack
<1>2. CASE IsAdmin(call[r].actor) /\ GoOn(r, "locked")
  <2>1. Kept /\ UnderWay
    BY Halves
  <2>2. /\ pc[r] = "asked" /\ Kind(r) \in {"role", "remove"} /\ OrganizationRowFree(r)
        /\ pc' = [pc EXCEPT ![r] = "locked"]
        /\ UNCHANGED <<members, invites, issued, spent, call, copy>>
    BY <1>2 DEF LockAndAuthorize, GoOn, Goto
  <2>3. Owners # {}
    BY <1>2, <2>2, CallOf, CallTyped, NoneIsNothing, AdminMeansFounded DEF IsAdmin, Admins
  <2>4. LocksHeldApart'
    BY <2>1, <2>2 DEF UnderWay, LocksHeldApart, LockedEmail, OrganizationRowFree
  <2>5. DecisionsStand' /\ CopiesStand'
    BY <1>2, <2>1, <2>2 DEF UnderWay, DecisionsStand, Kind, IsAdmin, ConcernsOwner, Demotes,
                            Owners, CopiesStand
  <2>6. RequestsInPlace' /\ FoundedFirst'
    BY <2>1, <2>2, <2>3 DEF UnderWay, RequestsInPlace, FoundedFirst, Kind, Owners
  <2>7. UnderWay'
    BY <2>1, <2>2, <2>4, <2>5, <2>6 DEF UnderWay, InTransaction
  <2> QED
    BY <2>1, <2>2, <2>7, KeptFrame, HalvesNext
<1> QED
  BY <1>1, <1>2 DEF LockAndAuthorize

LEMMA DecideKeeps ==
    ASSUME IInv, NEW r \in Requests, Decide(r)
    PROVE  IInv'
<1>1. CASE Rollback(r)
  BY <1>1, RolledBack
<1>2. CASE ~Rollback(r)
  <2>1. Kept /\ UnderWay
    BY Halves
  <2>2. /\ pc[r] = "locked" /\ pc' = [pc EXCEPT ![r] = "decided"]
        /\ UNCHANGED <<members, invites, issued, spent, call, copy>>
        /\ members[call[r].member] # None
        /\ ConcernsOwner(r) => members[call[r].actor] = "OWNER"
        /\ Demotes(r) => ~(Cardinality(Owners) <= 1)
    BY <1>2 DEF Decide, GoOn, Goto
  <2>3. Kind(r) \in {"role", "remove"} /\ IsAdmin(call[r].actor) /\ call[r].member \in Users
    BY <2>1, <2>2, CallOf, CallTyped DEF UnderWay, DecisionsStand, Kind
  <2>4. Demotes(r) => \E u \in Owners : u # call[r].member
    <3>1. Cardinality(Owners) \in Nat
      BY UsersAssumption, FS_Subset, FS_CardinalityType DEF Owners
    <3> QED
      BY <2>2, <2>3, <3>1, AnotherOwner
  <2>5. LocksHeldApart'
    BY <2>1, <2>2 DEF UnderWay, LocksHeldApart, LockedEmail
  <2>6. DecisionsStand' /\ CopiesStand'
    BY <2>1, <2>2, <2>3, <2>4 DEF UnderWay, DecisionsStand, Kind, IsAdmin, ConcernsOwner,
                                  Demotes, Owners, CopiesStand
  <2>7. RequestsInPlace' /\ FoundedFirst'
    BY <2>1, <2>2 DEF UnderWay, RequestsInPlace, FoundedFirst, Kind, Owners
  <2>8. UnderWay'
    BY <2>1, <2>2, <2>5, <2>6, <2>7 DEF UnderWay, InTransaction
  <2> QED
    BY <2>1, <2>2, <2>8, KeptFrame, HalvesNext
<1> QED
  BY <1>1, <1>2

LEMMA CommitMemberKeeps ==
    ASSUME IInv, NEW r \in Requests, CommitMember(r)
    PROVE  IInv'
<1> DEFINE m == call[r].member
           role == IF Kind(r) = "role" THEN call[r].role ELSE None
<1>1. Kept /\ UnderWay
  BY Halves
<1>2. /\ pc[r] = "decided" /\ members' = [members EXCEPT ![m] = role]
      /\ End(r) /\ UNCHANGED <<invites, issued, spent>>
  BY DEF CommitMember
<1>3. /\ Kind(r) \in {"role", "remove"} /\ m \in Users /\ members[m] # None
      /\ Demotes(r) => \E u \in Owners : u # m
  BY <1>1, <1>2, CallOf, CallTyped DEF UnderWay, DecisionsStand, Kind
<1>4. role \in Roles \cup {None}
  BY <1>2, <1>3, CallOf, CallTyped DEF Kind
<1>5. Owners' # {}
  <2>1. CASE Demotes(r)
    BY <1>1, <1>2, <1>3, <2>1 DEF Owners, Kept
  <2>2. CASE ~Demotes(r) /\ members[m] = "OWNER"
    <3>1. role = "OWNER"
      BY <2>2 DEF Demotes
    <3> QED
      BY <1>1, <1>2, <1>3, <3>1 DEF Owners, Kept
  <2>3. CASE members[m] # "OWNER"
    <3>1. PICK u \in Owners : TRUE
      BY <1>3, AdminMeansFounded
    <3> QED
      BY <1>1, <1>2, <2>3, <3>1 DEF Owners, Kept
  <2> QED
    BY <2>1, <2>2, <2>3
<1>6. Kept'
  BY <1>1, <1>2, <1>3, <1>4, <1>5 DEF Kept, OwnerRemains, TokensNumbered
<1>7. \A q \in Requests \ {r} : pc[q] \notin {"locked", "decided"}
  BY <1>1, <1>2 DEF UnderWay, LocksHeldApart
<1>8. UnderWay'
  BY <1>2, <1>5, <1>7, Ended
<1> QED
  BY <1>6, <1>8, HalvesNext

----------------------------------------------------------------------------
LEMMA FoundKeeps ==
    ASSUME IInv, NEW u \in Users, Found(u)
    PROVE  IInv'
<1>1. Kept /\ UnderWay
  BY Halves
<1>2. /\ \A v \in Users : members[v] = None
      /\ members' = [members EXCEPT ![u] = "OWNER"]
      /\ UNCHANGED <<invites, issued, spent, pc, call, copy>>
  BY DEF Found
<1>3. Owners = {} /\ Owners' # {}
  BY <1>1, <1>2, NoneIsNothing DEF Owners, Kept
<1>4. \A r \in Requests : pc[r] \in {"idle", "asked"}
  BY <1>1, <1>3 DEF UnderWay, FoundedFirst
<1>5. Kept'
  BY <1>1, <1>2, <1>3 DEF Kept, OwnerRemains, TokensNumbered, Roles
<1>6. UnderWay'
  BY <1>1, <1>2, <1>3, <1>4 DEF UnderWay, LocksHeldApart, LockedEmail, DecisionsStand,
                                CopiesStand, RequestsInPlace, FoundedFirst, Kind
<1> QED
  BY <1>5, <1>6, HalvesNext

LEMMA ExpireKeeps ==
    ASSUME IInv, NEW e \in Emails, Expire(e)
    PROVE  IInv'
<1>1. Kept /\ UnderWay
  BY Halves
<1>2. invites[e] \in Invite /\ UNCHANGED <<members, issued, spent, pc, call, copy>>
  BY <1>1 DEF Expire, Kept
<1>3. PICK new \in Invite : new = [invites[e] EXCEPT !.expired = TRUE]
  BY <1>2 DEF Invite
<1>4. new.token = invites[e].token /\ new.accepted = invites[e].accepted
  BY <1>2, <1>3 DEF Invite
<1>5. invites' = [invites EXCEPT ![e] = new]
  BY <1>3 DEF Expire
<1>6. TokensNumbered'
  BY <1>1, <1>2, <1>4, <1>5, NoneIsNothing DEF Kept, TokensNumbered
<1>7. Kept'
  BY <1>1, <1>2, <1>5, <1>6 DEF Kept, OwnerRemains, Owners
<1>8. CopiesStand'
  <2> SUFFICES ASSUME NEW r \in Requests, pc[r] = "accepting"
               PROVE  /\ invites'[EmailOf[call[r].actor]] # None
                      /\ \E late \in BOOLEAN : invites'[EmailOf[call[r].actor]]
                                                  = [copy[r] EXCEPT !.expired = late]
    BY <1>1, <1>2 DEF UnderWay, CopiesStand, Kind
  <2>1. PICK f \in Emails : f = EmailOf[call[r].actor]
    BY CallOf, CallTyped, EmailsTyped
  <2>2. invites[f] # None /\ copy[r] \in Invite
        /\ \E late \in BOOLEAN : invites[f] = [copy[r] EXCEPT !.expired = late]
    BY <1>1, <2>1 DEF UnderWay, CopiesStand
  <2>3. CASE f # e
    BY <1>1, <1>5, <2>1, <2>2, <2>3 DEF Kept
  <2>4. CASE f = e
    <3>1. new = [copy[r] EXCEPT !.expired = TRUE]
      BY <1>3, <2>2, <2>4 DEF Invite
    <3>2. invites'[f] = new
      BY <1>1, <1>5, <2>4 DEF Kept
    <3> QED
      BY <2>1, <3>1, <3>2, NoneIsNothing
  <2> QED
    BY <2>3, <2>4
<1>9. RequestsInPlace'
  <2>1. \A f \in Emails : invites[f] # None => invites'[f] # None
    BY <1>1, <1>5, NoneIsNothing DEF Kept
  <2>2. \A r \in Requests : pc[r] \in {"read", "flushed"} => call[r].email \in Emails
    BY <1>1, CallOf, CallTyped DEF UnderWay, RequestsInPlace, Kind
  <2> QED
    BY <1>1, <1>2, <2>1, <2>2 DEF UnderWay, RequestsInPlace, Kind
<1>10. LocksHeldApart' /\ DecisionsStand' /\ FoundedFirst'
  BY <1>1, <1>2, <1>5 DEF UnderWay, LocksHeldApart, LockedEmail, DecisionsStand, Kind, IsAdmin,
                          ConcernsOwner, Demotes, Owners, FoundedFirst, Expire
<1>11. UnderWay'
  BY <1>1, <1>2, <1>8, <1>9, <1>10 DEF UnderWay
<1> QED
  BY <1>7, <1>11, HalvesNext

LEMMA Initially == Init => IInv
BY NoneIsNothing DEF Init, IInv, TypeOK, OwnerRemains, LocksHeldApart, LockedEmail, DecisionsStand,
   CopiesStand, TokensNumbered, RequestsInPlace, FoundedFirst, Owners

LEMMA Inductive == IInv /\ [Next]_vars => IInv'
<1> SUFFICES ASSUME IInv, [Next]_vars PROVE IInv'
  OBVIOUS
<1>1. CASE UNCHANGED vars
  BY <1>1 DEF vars, IInv, TypeOK, OwnerRemains, LocksHeldApart, LockedEmail, DecisionsStand,
              CopiesStand, TokensNumbered, RequestsInPlace, FoundedFirst, Owners, Kind,
              IsAdmin, ConcernsOwner, Demotes
<1>2. ASSUME NEW r \in Requests, Ask(r) \/ Step(r) \/ Abandon(r) PROVE IInv'
  <2>1. CASE Rollback(r)
    BY <2>1, RolledBack
  <2>2. CASE ~Rollback(r)
    BY <1>2, <2>2, AskedKeeps, AuthorizeKeeps, ReadKeeps, FlushKeeps, CommitInviteKeeps,
       CommitRevokeKeeps, LockKeeps, CommitAcceptKeeps, LockAndAuthorizeKeeps, DecideKeeps,
       CommitMemberKeeps DEF Step, Abandon
  <2> QED
    BY <2>1, <2>2
<1> QED
  BY <1>1, <1>2, FoundKeeps, ExpireKeeps DEF Next

(* Members, invites, locks and what each request has seen under them stay  *)
(* consistent however the transactions of organizations.py and             *)
(* organization_access.py interleave, for any number of them.              *)
THEOREM Invariant == Spec => []IInv
BY Initially, Inductive, PTL DEF Spec

(* An organisation that has members never loses its last owner, whatever   *)
(* is demoted, removed or accepted at once (organization_access.py, the    *)
(* count of owners under FOR UPDATE).                                      *)
THEOREM LastOwnerStays == Spec => []OwnerRemains
<1>1. IInv => OwnerRemains
  BY DEF IInv
<1> QED
  BY <1>1, Invariant, PTL

(* Whoever commits a change of a member still has the authority for it     *)
(* (organization_access.py, _lock_and_authorize).                          *)
THEOREM CommitsAreAuthorized == Spec => AuthorityAtCommit
<1>1. ASSUME IInv, NEW r \in Requests, CommitMember(r)
      PROVE  /\ IsAdmin(call[r].actor)
             /\ "OWNER" \in {members[call[r].member], members'[call[r].member]}
                   => members[call[r].actor] = "OWNER"
  <2>1. /\ pc[r] = "decided"
        /\ members' = [members EXCEPT ![call[r].member] =
                          IF Kind(r) = "role" THEN call[r].role ELSE None]
    BY <1>1 DEF CommitMember
  <2>2. /\ IsAdmin(call[r].actor) /\ Kind(r) \in {"role", "remove"}
        /\ ConcernsOwner(r) => members[call[r].actor] = "OWNER"
    BY <1>1, <2>1 DEF IInv, DecisionsStand
  <2>3. call[r].member \in Users
    BY <1>1, <2>1, <2>2, CallOf, CallTyped DEF Kind
  <2>4. members'[call[r].member] = IF Kind(r) = "role" THEN call[r].role ELSE None
    BY <1>1, <2>1, <2>3 DEF IInv, TypeOK
  <2> QED
    BY <2>2, <2>4, NoneIsNothing DEF ConcernsOwner
<1>2. IInv /\ [Next]_vars =>
        [\A r \in Requests : CommitMember(r) =>
            /\ IsAdmin(call[r].actor)
            /\ "OWNER" \in {members[call[r].member], members'[call[r].member]}
                  => members[call[r].actor] = "OWNER"]_vars
  BY <1>1
<1> QED
  BY <1>2, Invariant, PTL DEF Spec, AuthorityAtCommit

(* Whoever joins does so by an invite for their address, with its role,    *)
(* that nobody has used, revoked or renewed meanwhile, and uses it up      *)
(* (organizations.py, accept_invite under FOR UPDATE).                     *)
THEOREM TokensMakeOneMember == Spec => JoinedByInvite
<1> DEFINE Joins(u) ==
      members[u] = None /\ members'[u] # None /\ Owners # {} =>
          LET invite == invites[EmailOf[u]] IN
          /\ invite # None
          /\ ~invite.accepted /\ ~invite.revoked
          /\ members'[u] = invite.role
          /\ invite.token \notin spent
          /\ spent' = spent \cup {invite.token}
<1>1. ASSUME IInv, [Next]_vars, NEW u \in Users PROVE Joins(u)
  <2>1. ASSUME UNCHANGED members PROVE Joins(u)
    BY <2>1
  <2>2. CASE UNCHANGED vars
    BY <2>1, <2>2 DEF vars
  <2>3. ASSUME NEW v \in Users, Found(v) PROVE Joins(u)
    BY <2>3, NoneIsNothing DEF Found, Owners
  <2>4. ASSUME NEW e \in Emails, Expire(e) PROVE Joins(u)
    BY <2>1, <2>4 DEF Expire
  <2>5. ASSUME NEW r \in Requests, CommitAccept(r), ~Rollback(r) PROVE Joins(u)
    <3>1. CASE u # call[r].actor
      BY <1>1, <2>5, <3>1, CommitAcceptKeeps DEF IInv, TypeOK
    <3>2. CASE u = call[r].actor
      <4>1. /\ members' = [members EXCEPT ![u] = copy[r].role] /\ copy[r] \in Invite
            /\ spent' = spent \cup {copy[r].token} /\ copy[r].token \notin spent
            /\ ~copy[r].accepted /\ ~copy[r].revoked
        BY <1>1, <2>5, <3>2, CommitAcceptKeeps
      <4>2. PICK late \in BOOLEAN : invites[EmailOf[u]] = [copy[r] EXCEPT !.expired = late]
        BY <1>1, <2>5, <3>2, CommitAcceptKeeps
      <4>3. PICK invite \in Invite : /\ invite = invites[EmailOf[u]]
                                     /\ invite.role = copy[r].role
                                     /\ invite.token = copy[r].token
                                     /\ invite.accepted = copy[r].accepted
                                     /\ invite.revoked = copy[r].revoked
        BY <4>1, <4>2 DEF Invite
      <4>4. members'[u] = copy[r].role
        BY <1>1, <4>1 DEF IInv, TypeOK
      <4> QED
        BY <4>1, <4>3, <4>4, NoneIsNothing
    <3> QED
      BY <3>1, <3>2
  <2>6. ASSUME NEW r \in Requests, CommitMember(r) PROVE Joins(u)
    <3>1. members[call[r].member] # None
      BY <1>1, <2>6 DEF CommitMember, IInv, DecisionsStand
    <3> QED
      BY <1>1, <2>6, <3>1 DEF CommitMember, IInv, TypeOK
  <2>7. ASSUME NEW r \in Requests, Ask(r) \/ Step(r) \/ Abandon(r),
               ~CommitMember(r), ~(CommitAccept(r) /\ ~Rollback(r))
        PROVE  UNCHANGED members
    BY <2>7 DEF Ask, Step, Abandon, Rollback, Authorize, ReadForInvite, FlushInvite, CommitInvite,
                ReadForRevoke, CommitRevoke, LockInvite, LockAndAuthorize, Decide, GoOn
  <2> QED
    BY <1>1, <2>1, <2>2, <2>3, <2>4, <2>5, <2>6, <2>7 DEF Next
<1>2. IInv /\ [Next]_vars => [\A u \in Users : Joins(u)]_vars
  BY <1>1
<1> QED
  BY <1>2, Invariant, PTL DEF Spec, JoinedByInvite
=============================================================================
