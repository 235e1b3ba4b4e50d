----------------------- MODULE UploadAdmissionProofs -----------------------
(***************************************************************************)
(* Theorems about UploadAdmission, for any requests, projects, calls,      *)
(* sizes and limits: a key makes one session, answers belong to their      *)
(* calls, and the active sessions and their bytes keep their limits.       *)
(***************************************************************************)
EXTENDS UploadAdmission, FiniteSetTheorems, TLAPS

USE CallsAssumption, SizesAssumption, LimitsAssumption, NoneAssumption

----------------------------------------------------------------------------
(* The active sessions are finitely many when the sessions are. *)
LEMMA ActiveFinite ==
    ASSUME IsFiniteSet(sessions)
    PROVE  IsFiniteSet(Active) /\ Cardinality(Active) \in Nat
<1>1. Active \subseteq sessions
  BY DEF Active
<1> QED
  BY <1>1, FS_Subset, FS_CardinalityType

(* The bytes of some of the sessions are no more than those of all. *)
LEMMA FewerBytes ==
    ASSUME IsFiniteSet(Reserved), Active' \subseteq Active
    PROVE  /\ IsFiniteSet(Reserved')
           /\ ReservedBytes' <= ReservedBytes
           /\ ReservedBytes \in Nat /\ ReservedBytes' \in Nat
<1>1. Reserved' \subseteq Reserved
  BY DEF Reserved
<1> QED
  BY <1>1, FS_Subset, FS_CardinalityType DEF ReservedBytes

LEMMA FirstBytes ==
    ASSUME NEW n \in Nat
    PROVE  IsFiniteSet(1..n) /\ Cardinality(1..n) = n
<1>1. CASE n = 0
  BY <1>1, FS_Interval
<1>2. CASE n # 0
  BY <1>2, FS_Interval
<1> QED
  BY <1>1, <1>2

(* One more session adds its size, and no more. *)
LEMMA MoreBytes ==
    ASSUME IsFiniteSet(Reserved), NEW s, Active' = Active \cup {s},
           SizeOf[s.body] \in Nat
    PROVE  /\ IsFiniteSet(Reserved')
           /\ ReservedBytes' <= ReservedBytes + SizeOf[s.body]
           /\ ReservedBytes \in Nat /\ ReservedBytes' \in Nat
<1> PICK size \in Nat : size = SizeOf[s.body]
  OBVIOUS
<1> DEFINE Own == {s} \X (1..size)
<1>1. Reserved' = Reserved \cup Own
  BY DEF Reserved
<1>2. IsFiniteSet(Own) /\ Cardinality(Own) = size
  <2>1. IsFiniteSet({s}) /\ Cardinality({s}) = 1
    BY FS_Singleton
  <2>2. IsFiniteSet(1..size) /\ Cardinality(1..size) = size
    BY FirstBytes
  <2>3. IsFiniteSet(Own) /\ Cardinality(Own) = 1 * size
    BY <2>1, <2>2, FS_Product
  <2> QED
    BY <2>3
<1> HIDE DEF Own
<1>3. /\ IsFiniteSet(Reserved \cup Own)
      /\ Cardinality(Reserved \cup Own)
           = Cardinality(Reserved) + Cardinality(Own) - Cardinality(Reserved \cap Own)
  BY <1>2, FS_Union
<1>4. Cardinality(Reserved \cap Own) \in Nat
  BY <1>2, FS_Intersection, FS_CardinalityType
<1> QED
  BY <1>1, <1>2, <1>3, <1>4, FS_CardinalityType DEF ReservedBytes

(* Two calls of different users never use the same record. *)
LEMMA OtherUserOtherScope ==
    ASSUME NEW c \in Calls, NEW d \in Calls, c.actor # d.actor
    PROVE  Scope(c) # Scope(d)
BY DEF Scope

(* Records, sessions and answers do not depend on how far requests are. *)
LEMMA SameRows ==
    ASSUME IInv, UNCHANGED <<records, sessions>>
    PROVE  /\ OneSessionPerKey'
           /\ RecordsNameSessions'
           /\ Active' = Active
           /\ Reserved' = Reserved /\ ReservedBytes' = ReservedBytes
BY DEF IInv, OneSessionPerKey, RecordsNameSessions, Active, Reserved, ReservedBytes

(* A request whose answer refers to no session, or to one that its call    *)
(* made before, ends well.                                                 *)
LEMMA Ended ==
    ASSUME IInv, NEW r \in Requests, NEW a \in Refused \cup Accepted,
           Answer(r, a), UNCHANGED <<records, sessions>>,
           a \in Accepted => \E s \in sessions : /\ s.id = a.session
                                                 /\ s.id.scope = Scope(call[r])
                                                 /\ s.body = call[r].body
    PROVE  IInv'
<1> USE DEF IInv, Answer, Goto
<1>1. TypeOK'
  BY DEF TypeOK
<1>2. /\ \A q \in Requests : pc'[q] = IF q = r THEN "idle" ELSE pc[q]
      /\ \A q \in Requests : answer'[q] = IF q = r THEN a ELSE answer[q]
  BY DEF TypeOK
<1>3. RowsHeldApart'
  BY <1>2 DEF RowsHeldApart, InTransaction
<1>4. NewKeysStayNew'
  BY <1>2 DEF NewKeysStayNew
<1>5. RoomForAdmitted'
  BY <1>2, SameRows DEF RoomForAdmitted, QuotaRespected
<1>6. AnswerMatchesCall'
  BY <1>2 DEF AnswerMatchesCall
<1> QED
  BY <1>1, <1>3, <1>4, <1>5, <1>6, SameRows

LEMMA RefusedWell ==
    ASSUME IInv, NEW r \in Requests, NEW code \in Refusals \cup {"lost"}, Refuse(r, code)
    PROVE  IInv'
<1>1. [code |-> code] \in Refused /\ [code |-> code] \notin Accepted
  BY DEF Refused, Accepted, Refusals
<1> QED
  BY <1>1, Ended DEF Refuse

(* A request that goes on changes only how far it is.                      *)
LEMMA WentOn ==
    ASSUME IInv, NEW r \in Requests, NEW label \in InTransaction,
           Goto(r, label), UNCHANGED <<project, records, sessions, call, answer>>,
           \A q \in Requests \ {r} :
               /\ pc[q] \in InTransaction => call[q].actor # call[r].actor
               /\ label \in {"locked", "admitted"} => pc[q] \notin {"locked", "admitted"},
           label # "authorized" => records[Scope(call[r])] = None,
           label = "admitted" =>
               /\ Cardinality(Active) < MaxActive
               /\ ReservedBytes + SizeOf[call[r].body] <= MaxReserved
    PROVE  IInv'
<1> USE DEF IInv, Goto
<1>1. TypeOK'
  BY DEF TypeOK
<1>2. \A q \in Requests : pc'[q] = IF q = r THEN label ELSE pc[q]
  BY DEF TypeOK
<1>3. RowsHeldApart'
  BY <1>2 DEF RowsHeldApart, InTransaction
<1>4. NewKeysStayNew'
  BY <1>2 DEF NewKeysStayNew, InTransaction
<1>5. RoomForAdmitted'
  BY <1>2, SameRows DEF RoomForAdmitted, QuotaRespected
<1>6. AnswerMatchesCall'
  BY DEF AnswerMatchesCall
<1> QED
  BY <1>1, <1>3, <1>4, <1>5, <1>6, SameRows

----------------------------------------------------------------------------
(* One lemma for each action that does more than go on or end. *)

LEMMA Asked ==
    ASSUME IInv, NEW r \in Requests, NEW c \in Calls, Ask(r, c)
    PROVE  IInv'
<1> USE DEF IInv, Ask, Goto
<1>1. TypeOK'
  BY DEF TypeOK
<1>2. /\ \A q \in Requests : pc'[q] = IF q = r THEN "asked" ELSE pc[q]
      /\ \A q \in Requests : call'[q] = IF q = r THEN c ELSE call[q]
      /\ \A q \in Requests : answer'[q] = IF q = r THEN None ELSE answer[q]
  BY DEF TypeOK
<1>3. RowsHeldApart'
  BY <1>2 DEF RowsHeldApart, InTransaction
<1>4. NewKeysStayNew'
  BY <1>2 DEF NewKeysStayNew
<1>5. RoomForAdmitted'
  BY <1>2, SameRows DEF RoomForAdmitted, QuotaRespected
<1>6. AnswerMatchesCall'
  BY <1>2 DEF AnswerMatchesCall
<1> QED
  BY <1>1, <1>3, <1>4, <1>5, <1>6, SameRows

LEMMA Authorized ==
    ASSUME IInv, NEW r \in Requests, Authorize(r)
    PROVE  IInv'
<1> DEFINE goes == /\ Goto(r, "authorized")
                   /\ UNCHANGED <<project, records, sessions, call, answer>>
<1>1. \/ \E code \in Refusals : Refuse(r, code)
      \/ goes
  BY DEF Authorize, Refusals
<1>2. CASE \E code \in Refusals : Refuse(r, code)
  BY <1>2, RefusedWell
<1>3. CASE goes
  <2>1. \A q \in Requests \ {r} : pc[q] \in InTransaction => call[q].actor # call[r].actor
    BY DEF Authorize, UserRowFree
  <2> QED
    BY <1>3, <2>1, WentOn DEF InTransaction
<1> QED
  BY <1>1, <1>2, <1>3

LEMMA Identified ==
    ASSUME IInv, NEW r \in Requests, Identify(r)
    PROVE  IInv'
<1> DEFINE scope == Scope(call[r])
           record == records[scope]
<1>0. pc[r] = "authorized" /\ call[r] \in Calls /\ scope \in Scopes
  BY DEF Identify, IInv, TypeOK, Scopes
<1>1. CASE record = None /\ Goto(r, "new")
            /\ UNCHANGED <<project, records, sessions, call, answer>>
  <2>1. \A q \in Requests \ {r} : pc[q] \in InTransaction => call[q].actor # call[r].actor
    BY <1>0 DEF IInv, RowsHeldApart, InTransaction
  <2> QED
    BY <1>1, <2>1, WentOn DEF InTransaction
<1>2. CASE Refuse(r, "IDEMPOTENCY_CONFLICT")
  BY <1>2, RefusedWell DEF Refusals
<1>3. CASE /\ record # None
           /\ record.body = call[r].body
           /\ Answer(r, [code |-> "replayed", session |-> record.session])
           /\ UNCHANGED <<records, sessions>>
  <2> DEFINE a == [code |-> "replayed", session |-> record.session]
  <2>1. PICK s \in sessions : /\ s.id = record.session
                           /\ s.id.scope = scope
                           /\ s.body = record.body
    BY <1>0, <1>3 DEF IInv, RecordsNameSessions
  <2>2. record \in Record
    BY <1>0, <1>3 DEF IInv, TypeOK
  <2>3. a \in Accepted
    BY <2>2 DEF Accepted, Record
  <2>4. \E t \in sessions : t.id = a.session /\ t.id.scope = scope /\ t.body = call[r].body
    BY <1>3, <2>1
  <2> QED
    BY <1>3, <2>3, <2>4, Ended
<1> QED
  BY <1>1, <1>2, <1>3 DEF Identify

LEMMA OrganizationLocked ==
    ASSUME IInv, NEW r \in Requests, LockOrganization(r)
    PROVE  IInv'
<1>1. \A q \in Requests \ {r} :
        /\ pc[q] \in InTransaction => call[q].actor # call[r].actor
        /\ pc[q] \notin {"locked", "admitted"}
  BY DEF LockOrganization, OrganizationRowFree, IInv, RowsHeldApart, InTransaction
<1>2. records[Scope(call[r])] = None
  BY DEF LockOrganization, IInv, NewKeysStayNew
<1> QED
  BY <1>1, <1>2, WentOn DEF LockOrganization, InTransaction

LEMMA QuotaRead ==
    ASSUME IInv, NEW r \in Requests, ReadQuota(r)
    PROVE  IInv'
<1> DEFINE goes == /\ Goto(r, "admitted")
                   /\ UNCHANGED <<project, records, sessions, call, answer>>
           room == /\ ~(Cardinality(Active) >= MaxActive)
                   /\ ~(ReservedBytes + SizeOf[call[r].body] > MaxReserved)
<1>1. \/ \E code \in Refusals : Refuse(r, code)
      \/ goes /\ room
  BY DEF ReadQuota, Refusals
<1>2. CASE \E code \in Refusals : Refuse(r, code)
  BY <1>2, RefusedWell
<1>3. CASE goes /\ room
  <2>0. ReservedBytes \in Nat /\ SizeOf[call[r].body] \in Nat
    BY FS_CardinalityType DEF IInv, TypeOK, RoomForAdmitted, ReservedBytes
  <2>1. /\ Cardinality(Active) < MaxActive
        /\ ReservedBytes + SizeOf[call[r].body] <= MaxReserved
    BY <1>3, <2>0, ActiveFinite DEF IInv, RoomForAdmitted
  <2>2. \A q \in Requests \ {r} :
          /\ pc[q] \in InTransaction => call[q].actor # call[r].actor
          /\ pc[q] \notin {"locked", "admitted"}
    BY DEF ReadQuota, IInv, RowsHeldApart, InTransaction
  <2>3. records[Scope(call[r])] = None
    BY DEF ReadQuota, IInv, NewKeysStayNew
  <2> QED
    BY <1>3, <2>1, <2>2, <2>3, WentOn DEF InTransaction
<1> QED
  BY <1>1, <1>2, <1>3

LEMMA Committed ==
    ASSUME IInv, NEW r \in Requests, Commit(r)
    PROVE  IInv'
<1> DEFINE scope == Scope(call[r])
           id == [scope |-> scope,
                  nth |-> Cardinality({s \in sessions : s.id.scope = scope})]
           new == [id |-> id, body |-> call[r].body, active |-> TRUE]
           a == [code |-> "created", session |-> id]
           record == [body |-> call[r].body, session |-> id]
<1>1. /\ pc[r] = "admitted"
      /\ sessions' = sessions \cup {new}
      /\ records' = [records EXCEPT ![scope] = record]
      /\ answer' = [answer EXCEPT ![r] = a]
      /\ pc' = [pc EXCEPT ![r] = "idle"]
      /\ UNCHANGED <<project, call>>
  BY DEF Commit, Answer, Goto
<1>2. /\ call[r] \in Calls
      /\ scope \in Scopes
      /\ call[r].body \in Bodies
      /\ records[scope] = None
  BY <1>1 DEF IInv, TypeOK, NewKeysStayNew, Scopes, Bodies
<1>3. \A s \in sessions : s.id.scope # scope
  BY <1>2 DEF IInv, RecordsNameSessions
<1>4. id \in Id /\ id.scope = scope
  <2>1. {s \in sessions : s.id.scope = scope} \subseteq sessions
    OBVIOUS
  <2>2. Cardinality({s \in sessions : s.id.scope = scope}) \in Nat
    BY <2>1, FS_Subset, FS_CardinalityType DEF IInv, RoomForAdmitted
  <2> QED
    BY <1>2, <2>2 DEF Id
<1>5. /\ new \in Session /\ new.id = id /\ new.body = call[r].body /\ new.active
      /\ a \in Accepted /\ a.session = id
      /\ record \in Record /\ record # None
      /\ record.session = id /\ record.body = call[r].body
  BY <1>2, <1>4 DEF Session, Accepted, Record
<1> HIDE DEF id, new, a, record
<1>6. TypeOK'
  BY <1>1, <1>2, <1>5 DEF IInv, TypeOK
<1>7. /\ \A q \in Requests : pc'[q] = IF q = r THEN "idle" ELSE pc[q]
      /\ \A q \in Requests : answer'[q] = IF q = r THEN a ELSE answer[q]
      /\ \A k \in Scopes : records'[k] = IF k = scope THEN record ELSE records[k]
  BY <1>1, <1>2 DEF IInv, TypeOK
<1>8. RowsHeldApart'
  BY <1>1, <1>7 DEF IInv, RowsHeldApart, InTransaction
<1>9. NewKeysStayNew'
  <2> SUFFICES ASSUME NEW q \in Requests, pc'[q] \in {"new", "locked", "admitted"}
               PROVE  records'[Scope(call'[q])] = None
    BY DEF NewKeysStayNew
  <2>1. q # r /\ pc[q] \in {"new", "locked", "admitted"}
    BY <1>7
  <2>2. call[q].actor # call[r].actor
    BY <1>1, <2>1 DEF IInv, RowsHeldApart, InTransaction
  <2>3. Scope(call[q]) \in Scopes /\ Scope(call[q]) # scope
    BY <1>2, <2>2, OtherUserOtherScope DEF IInv, TypeOK, Scopes
  <2> QED
    BY <1>1, <1>7, <2>1, <2>3 DEF IInv, NewKeysStayNew
<1>10. RoomForAdmitted'
  <2>1. IsFiniteSet(sessions')
    BY <1>1, FS_AddElement DEF IInv, RoomForAdmitted
  <2>2. Active' = Active \cup {new} /\ new \notin Active
    BY <1>1, <1>3, <1>4, <1>5 DEF Active
  <2>3. Cardinality(Active') = Cardinality(Active) + 1
    BY <2>2, ActiveFinite, FS_AddElement DEF IInv, RoomForAdmitted
  <2>4. Cardinality(Active) < MaxActive /\ Cardinality(Active) \in Nat
    BY <1>1, ActiveFinite DEF IInv, RoomForAdmitted
  <2>5. \A q \in Requests : pc'[q] # "admitted"
    BY <1>1, <1>7 DEF IInv, RowsHeldApart
  <2>6. SizeOf[new.body] \in Nat
    BY <1>2, <1>5
  <2>7. /\ IsFiniteSet(Reserved')
        /\ ReservedBytes' <= ReservedBytes + SizeOf[new.body]
        /\ ReservedBytes \in Nat /\ ReservedBytes' \in Nat
    BY <2>2, <2>6, MoreBytes DEF IInv, RoomForAdmitted
  <2>8. ReservedBytes + SizeOf[new.body] <= MaxReserved
    BY <1>1, <1>5 DEF IInv, RoomForAdmitted
  <2>9. QuotaRespected'
    BY <2>3, <2>4, <2>6, <2>7, <2>8 DEF QuotaRespected
  <2> QED
    BY <2>1, <2>5, <2>7, <2>9 DEF RoomForAdmitted
<1>11. OneSessionPerKey'
  BY <1>1, <1>3, <1>4, <1>5 DEF IInv, OneSessionPerKey
<1>12. RecordsNameSessions'
  <2> SUFFICES ASSUME NEW k \in Scopes
               PROVE  IF records'[k] = None THEN \A s \in sessions' : s.id.scope # k
                      ELSE \E s \in sessions' : /\ s.id = records'[k].session
                                                /\ s.id.scope = k
                                                /\ s.body = records'[k].body
    BY DEF RecordsNameSessions
  <2>1. CASE k = scope
    BY <1>1, <1>4, <1>5, <1>7, <2>1
  <2>2. CASE k # scope
    BY <1>1, <1>4, <1>5, <1>7, <2>2 DEF IInv, RecordsNameSessions
  <2> QED
    BY <2>1, <2>2
<1>13. AnswerMatchesCall'
  BY <1>1, <1>4, <1>5, <1>7 DEF IInv, AnswerMatchesCall
<1> QED
  BY <1>6, <1>8, <1>9, <1>10, <1>11, <1>12, <1>13 DEF IInv

LEMMA Released ==
    ASSUME IInv, NEW s \in sessions, Release(s)
    PROVE  IInv'
<1> DEFINE over == [s EXCEPT !.active = FALSE]
<1>1. /\ s.active
      /\ sessions' = (sessions \ {s}) \cup {over}
      /\ UNCHANGED <<project, records, pc, call, answer>>
  BY DEF Release
<1>2. /\ over \in Session
      /\ over.id = s.id /\ over.body = s.body /\ over.active = FALSE
  BY DEF IInv, TypeOK, Session
<1>3. TypeOK'
  BY <1>1, <1>2 DEF IInv, TypeOK
<1>4. RowsHeldApart' /\ NewKeysStayNew'
  BY <1>1 DEF IInv, RowsHeldApart, NewKeysStayNew
<1>5. RoomForAdmitted'
  <2>1. IsFiniteSet(sessions')
    BY <1>1, FS_AddElement, FS_RemoveElement DEF IInv, RoomForAdmitted
  <2>2. Active' \subseteq Active
    BY <1>1, <1>2 DEF Active
  <2>3. /\ Cardinality(Active') <= Cardinality(Active)
        /\ Cardinality(Active) \in Nat /\ Cardinality(Active') \in Nat
    BY <2>2, ActiveFinite, FS_Subset, FS_CardinalityType DEF IInv, RoomForAdmitted
  <2>4. \A q \in Requests : /\ pc'[q] = pc[q]
                           /\ call'[q] = call[q]
                           /\ SizeOf[call[q].body] \in Nat
    BY <1>1 DEF IInv, TypeOK
  <2>5. /\ IsFiniteSet(Reserved')
        /\ ReservedBytes' <= ReservedBytes
        /\ ReservedBytes \in Nat /\ ReservedBytes' \in Nat
    BY <2>2, FewerBytes DEF IInv, RoomForAdmitted
  <2> QED
    BY <2>1, <2>3, <2>4, <2>5 DEF IInv, RoomForAdmitted, QuotaRespected
<1>6. OneSessionPerKey'
  <2> HIDE DEF over
  <2>1. \A t \in sessions : t.id.scope = s.id.scope => t = s
    BY DEF IInv, OneSessionPerKey
  <2> QED
    BY <1>1, <1>2, <2>1 DEF IInv, OneSessionPerKey
<1>7. RecordsNameSessions'
  <2>1. \A t \in sessions : \E u \in sessions' : u.id = t.id /\ u.body = t.body
    BY <1>1, <1>2
  <2>2. \A u \in sessions' : \E t \in sessions : u.id = t.id
    BY <1>1, <1>2
  <2> QED
    BY <1>1, <2>1, <2>2 DEF IInv, RecordsNameSessions
<1>8. AnswerMatchesCall'
  <2>1. \A t \in sessions : \E u \in sessions' : u.id = t.id /\ u.body = t.body
    BY <1>1, <1>2
  <2> QED
    BY <1>1, <2>1 DEF IInv, AnswerMatchesCall
<1> QED
  BY <1>3, <1>4, <1>5, <1>6, <1>7, <1>8 DEF IInv

LEMMA ProjectChanged ==
    ASSUME IInv, NEW p \in Projects, Archive(p) \/ Restore(p) \/ Delete(p)
    PROVE  IInv'
<1>1. /\ project' \in [Projects -> {"ACTIVE", "ARCHIVED", "DELETED"}]
      /\ UNCHANGED <<records, sessions, pc, call, answer>>
  BY DEF Archive, Restore, Delete, IInv, TypeOK
<1> QED
  BY <1>1, SameRows DEF IInv, TypeOK, RowsHeldApart, NewKeysStayNew,
                        RoomForAdmitted, QuotaRespected, AnswerMatchesCall

----------------------------------------------------------------------------
LEMMA Initially == Init => IInv
<1> SUFFICES ASSUME Init PROVE IInv
  OBVIOUS
<1>1. TypeOK
  BY DEF Init, TypeOK
<1>2. Active = {} /\ Reserved = {}
  BY DEF Init, Active, Reserved
<1>3. RoomForAdmitted
  BY <1>2, FS_EmptySet DEF Init, RoomForAdmitted, QuotaRespected, ReservedBytes
<1> QED
  BY <1>1, <1>3 DEF Init, IInv, RowsHeldApart, NewKeysStayNew, OneSessionPerKey,
                    RecordsNameSessions, AnswerMatchesCall, InTransaction

LEMMA Inductive == IInv /\ [Next]_vars => IInv'
<1> SUFFICES ASSUME IInv, [Next]_vars PROVE IInv'
  OBVIOUS
<1>1. ASSUME NEW r \in Requests, Step(r) PROVE IInv'
  BY <1>1, Authorized, Identified, OrganizationLocked, QuotaRead, Committed DEF Step
<1>2. ASSUME NEW r \in Requests, Abandon(r) PROVE IInv'
  BY <1>2, RefusedWell DEF Abandon
<1>3. ASSUME NEW r \in Requests, NEW c \in Calls, Ask(r, c) PROVE IInv'
  BY <1>3, Asked
<1>4. ASSUME NEW p \in Projects, Archive(p) \/ Restore(p) \/ Delete(p) PROVE IInv'
  BY <1>4, ProjectChanged
<1>5. ASSUME NEW s \in sessions, Release(s) PROVE IInv'
  BY <1>5, Released
<1>6. CASE UNCHANGED vars
  BY <1>6, SameRows DEF vars, IInv, TypeOK, RowsHeldApart, NewKeysStayNew,
                        RoomForAdmitted, QuotaRespected, AnswerMatchesCall
<1> QED
  BY <1>1, <1>2, <1>3, <1>4, <1>5, <1>6 DEF Next

(* IInv holds throughout: the other theorems read it off.                  *)
THEOREM Invariant == Spec => []IInv
BY Initially, Inductive, PTL DEF Spec

(* Every variable keeps its type. *)
THEOREM TypeCorrectness == Spec => []TypeOK
<1>1. IInv => TypeOK
  BY DEF IInv
<1> QED
  BY <1>1, Invariant, PTL

(* However often and by however many requests a key is used, with whatever *)
(* losses, it creates one session: begin_idempotent_command, the row of    *)
(* the user and the commit keep it so together.                            *)
THEOREM IdempotentCreation == Spec => []OneSessionPerKey
<1>1. IInv => OneSessionPerKey
  BY DEF IInv
<1> QED
  BY <1>1, Invariant, PTL

(* A committed record stands for a committed session and the other way     *)
(* round: begin_idempotent_command never answers from a request that was   *)
(* rolled back, and never forgets one that was not.                        *)
THEOREM RecordsSafety == Spec => []RecordsNameSessions
<1>1. IInv => RecordsNameSessions
  BY DEF IInv
<1> QED
  BY <1>1, Invariant, PTL

(* Nobody is answered with a session another call has made. *)
THEOREM AnswerSafety == Spec => []AnswerMatchesCall
<1>1. IInv => AnswerMatchesCall
  BY DEF IInv
<1> QED
  BY <1>1, Invariant, PTL

(* The active sessions of an organisation never exceed their number, and   *)
(* their bytes never the bytes it may reserve, whatever the limits, the    *)
(* sizes and the number of requests: the room that _active_quota found     *)
(* under _lock_organization is there when the session is committed.        *)
THEOREM QuotaSafety == Spec => []QuotaRespected
<1>1. IInv => QuotaRespected
  BY DEF IInv, RoomForAdmitted
<1> QED
  BY <1>1, Invariant, PTL
============================================================================
