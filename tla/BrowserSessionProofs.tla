------------------------ MODULE BrowserSessionProofs ------------------------
(***************************************************************************)
(* Theorems about BrowserSession, for any number of requests, logins and   *)
(* sessions, and any lifetimes that the assumptions of the module allow.   *)
(***************************************************************************)
EXTENDS BrowserSession, TLAPS

USE LifetimeAssumption, MarginAssumption, SessionTtlAssumption

LEMMA Lives ==
    /\ LongestLife \in Nat /\ Lifetime <= LongestLife /\ IdLifetime <= LongestLife
    /\ Horizon \in Nat /\ Horizon = LongestLife + Lifetime
BY DEF LongestLife, Horizon

(* The two halves of the invariant: what is kept, and who is under way.    *)
Kept ==
    /\ logins \in [Logins -> {"unused", "pending", "gone"}]
    /\ made \in [Logins -> SUBSET SessionIds]
    /\ sessions \in [SessionIds -> BrowserSession \cup {None}]
    /\ grants \subseteq SessionIds
    /\ cookie \in SessionIds \cup {None}
    /\ loggedOut \subseteq SessionIds
    /\ \A s \in SessionIds : sessions[s] # None => Bounded(sessions[s])

UnderWay ==
    /\ pc \in [Requests -> Places]
    /\ kind \in [Requests -> {"callback", "use", "logout"}]
    /\ on \in [Requests -> SessionIds \cup Logins \cup {None}]
    /\ token \in [Requests -> Token \cup {None}]
    /\ \A r \in Requests : pc[r] = "granted" => Bounded(token[r])
    /\ RequestsInPlace

LEMMA Halves == Kept /\ UnderWay <=> IInv
BY DEF Kept, UnderWay, IInv, TypeOK, ClaimsBounded

LEMMA HalvesNext == Kept' /\ UnderWay' => IInv'
BY DEF Kept, UnderWay, IInv, TypeOK, ClaimsBounded

(* The places of requests that only go on without a token from elsewhere.  *)
Apart == {"idle", "exchanging", "verifying", "verifying id", "granted"}

(* A request that ends is in its place. *)
LEMMA Ended ==
    ASSUME UnderWay, NEW r \in Requests, End(r)
    PROVE  UnderWay'
BY DEF UnderWay, RequestsInPlace, End, Places

(* So is one about a session that goes on without a token. *)
LEMMA WentOn ==
    ASSUME UnderWay, NEW r \in Requests,
           NEW place \in Places \ Apart,
           pc[r] # "idle", kind[r] # "callback", Goto(r, place)
    PROVE  UnderWay'
BY DEF UnderWay, RequestsInPlace, Goto, Places, Apart

LEMMA Began ==
    ASSUME UnderWay, NEW r \in Requests, NEW what \in {"callback", "use", "logout"},
           NEW whom \in SessionIds \cup Logins, NEW place, pc[r] = "idle",
           \/ /\ what = "callback" /\ whom \in Logins /\ place = "exchanging"
           \/ /\ what # "callback" /\ whom \in SessionIds /\ place = "reading",
           Begin(r, what, whom, place)
    PROVE  UnderWay'
BY DEF UnderWay, RequestsInPlace, Begin, Places

(* And one that was granted a token that is new. *)
LEMMA WasGranted ==
    ASSUME UnderWay, NEW r \in Requests, pc[r] \in {"exchanging", "refreshing"}, Grant(r)
    PROVE  UnderWay'
<1> DEFINE new == [age |-> 0, late |-> 0, claimed |-> 0]
<1>1. new \in Token
  BY Lives DEF Token
<1>2. new # None
  BY <1>1, NoneAssumption
<1>3. /\ token' = [token EXCEPT ![r] = new]
      /\ pc' = [pc EXCEPT ![r] = "verifying"] /\ UNCHANGED <<kind, on>>
  BY DEF Grant
<1> HIDE DEF new
<1> QED
  BY <1>1, <1>2, <1>3 DEF UnderWay, RequestsInPlace, Places

(* The age of a token that was accepted, and the claim made from then on.  *)
LEMMA Claimed ==
    ASSUME NEW age \in 0..Horizon
    PROVE  /\ [age |-> age, late |-> age, claimed |-> Lifetime] \in Token
           /\ age < LongestLife =>
                 Bounded([age |-> age, late |-> age, claimed |-> Lifetime])
           /\ age < Lifetime \/ age < IdLifetime => age < LongestLife
BY Lives DEF Token, Bounded

(* A token that was accepted is stamped with a claim that is bounded. *)
LEMMA WasStamped ==
    ASSUME UnderWay, NEW r \in Requests, pc[r] \in {"verifying", "verifying id"},
           token[r].age < LongestLife, Stamp(r)
    PROVE  UnderWay'
<1> DEFINE new == [age |-> token[r].age, late |-> token[r].age, claimed |-> Lifetime]
<1>1. token[r] \in Token
  BY DEF UnderWay, RequestsInPlace
<1>2. new \in Token /\ Bounded(new)
  <2>1. token[r].age \in 0..Horizon
    BY <1>1 DEF Token
  <2> QED
    BY <2>1, Claimed
<1>3. new # None
  BY <1>2, NoneAssumption
<1>4. /\ token' = [token EXCEPT ![r] = new]
      /\ pc' = [pc EXCEPT ![r] = "granted"] /\ UNCHANGED <<kind, on>>
  BY DEF Stamp
<1> HIDE DEF new
<1>5. /\ token' \in [Requests -> Token \cup {None}] /\ token'[r] = new
      /\ \A q \in Requests \ {r} : token'[q] = token[q]
  BY <1>2, <1>4 DEF UnderWay
<1>6. \A q \in Requests : pc'[q] = "granted" => Bounded(token'[q])
  BY <1>2, <1>4, <1>5 DEF UnderWay
<1>7. RequestsInPlace'
  BY <1>3, <1>4, <1>5 DEF UnderWay, RequestsInPlace
<1> QED
  BY <1>4, <1>5, <1>6, <1>7 DEF UnderWay, Places

(* A callback whose access token was accepted goes on with its id token. *)
LEMMA HalfVerified ==
    ASSUME UnderWay, NEW r \in Requests, pc[r] = "verifying", kind[r] = "callback",
           pc' = [pc EXCEPT ![r] = "verifying id"], UNCHANGED <<kind, on, token>>
    PROVE  UnderWay'
BY DEF UnderWay, RequestsInPlace, Places

LEMMA AcceptedAlive ==
    ASSUME UnderWay, NEW r \in Requests, pc[r] \in {"verifying", "verifying id"},
           Accepts(token[r], Lifetime) \/ Accepts(token[r], IdLifetime)
    PROVE  token[r].age < LongestLife
<1>1. token[r] \in Token
  BY DEF UnderWay, RequestsInPlace
<1>2. token[r].age \in 0..Horizon
  BY <1>1 DEF Token
<1>3. token[r].age < Lifetime \/ token[r].age < IdLifetime
  BY DEF Accepts
<1> QED
  BY <1>2, <1>3, Claimed

(* What is written of a token claims what the token was stamped with. *)
LEMMA StoredTyped ==
    ASSUME UnderWay, NEW r \in Requests, pc[r] = "granted"
    PROVE  Stored(r) \in BrowserSession /\ Bounded(Stored(r))
<1>1. token[r] \in Token /\ Bounded(token[r])
  BY DEF UnderWay, RequestsInPlace
<1> QED
  BY <1>1 DEF Token, BrowserSession, Stored, Bounded

LEMMA Written ==
    ASSUME Kept, NEW s \in SessionIds, NEW new \in BrowserSession \cup {None},
           new # None => Bounded(new),
           sessions' = [sessions EXCEPT ![s] = new],
           UNCHANGED <<logins, made, grants, browser>>
    PROVE  Kept'
BY DEF Kept, browser

(* A good session lets its request go on or ends it. *)
LEMMA Proceeded ==
    ASSUME UnderWay, NEW r \in Requests, pc[r] # "idle", kind[r] # "callback", Proceed(r)
    PROVE  UnderWay'
<1>1. "leaving" \in Places \ Apart
  BY DEF Places, Apart
<1> QED
  BY <1>1, Ended, WentOn DEF Proceed

LEMMA StepKeeps ==
    ASSUME IInv, NEW r \in Requests, Step(r)
    PROVE  IInv'
<1>1. Kept /\ UnderWay
  BY Halves
<1>2. UNCHANGED <<redis, grants, browser>> => Kept'
  BY <1>1 DEF Kept, redis, browser
<1>3. /\ pc[r] \in Places \ Apart =>
            kind[r] # "callback" /\ on[r] \in SessionIds
      /\ pc[r] = "verifying" /\ kind[r] # "callback" => on[r] \in SessionIds
      /\ pc[r] = "granted" /\ kind[r] # "callback" => on[r] \in SessionIds
  BY <1>1 DEF UnderWay, RequestsInPlace, Apart
<1>4. {"reading", "refreshing", "failing", "leaving", "revoking", "deleting", "left"}
        = Places \ Apart
  BY DEF Places, Apart
<1>5. CASE Exchange(r)
  BY <1>1, <1>2, <1>5, Ended, WasGranted, HalvesNext DEF Exchange
<1>15. CASE Verify(r)
  <2>1. CASE End(r)
    BY <1>1, <1>2, <1>15, <2>1, Ended, HalvesNext DEF Verify
  <2>2. CASE kind[r] # "callback" /\ Goto(r, "failing")
    <3>1. pc[r] # "idle"
      BY <1>15 DEF Verify
    <3>2. UnderWay'
      BY <1>1, <1>4, <2>2, <3>1, WentOn
    <3> QED
      BY <1>2, <1>15, <3>2, HalvesNext DEF Verify
  <2>3. CASE Accepts(token[r], Lifetime) /\ Stamp(r)
    BY <1>1, <1>2, <1>15, <2>3, AcceptedAlive, WasStamped, HalvesNext DEF Verify
  <2>4. CASE /\ kind[r] = "callback" /\ pc' = [pc EXCEPT ![r] = "verifying id"]
             /\ UNCHANGED <<kind, on, token>>
    BY <1>1, <1>2, <1>15, <2>4, HalfVerified, HalvesNext DEF Verify
  <2> QED
    BY <1>15, <2>1, <2>2, <2>3, <2>4 DEF Verify
<1>16. CASE VerifyId(r)
  BY <1>1, <1>2, <1>16, Ended, AcceptedAlive, WasStamped, HalvesNext DEF VerifyId
<1>6. CASE CreateSession(r)
  <2>1. UnderWay'
    BY <1>1, <1>6, Ended DEF CreateSession
  <2>2. pc[r] = "granted" /\ on[r] \in Logins
    BY <1>1, <1>6 DEF CreateSession, UnderWay, RequestsInPlace
  <2>3. PICK s \in SessionIds :
          /\ sessions' = [sessions EXCEPT ![s] = Stored(r)]
          /\ made' = [made EXCEPT ![on[r]] = @ \cup {s}]
          /\ grants' = grants \cup {s}
          /\ cookie' = s \/ UNCHANGED cookie
    BY <1>6 DEF CreateSession
  <2>4. UNCHANGED <<logins, loggedOut>>
    BY <1>6 DEF CreateSession
  <2>5. Kept'
    BY <1>1, <2>2, <2>3, <2>4, StoredTyped DEF Kept
  <2> QED
    BY <2>1, <2>5, HalvesNext
<1>7. CASE Read(r)
  <2>1. kind[r] # "callback" /\ pc[r] # "idle"
    BY <1>3, <1>4, <1>7 DEF Read
  <2>2. UnderWay'
    BY <1>1, <1>4, <1>7, <2>1, Ended, Proceeded, WentOn DEF Read
  <2> QED
    BY <1>2, <1>7, <2>2, HalvesNext DEF Read
<1>8. CASE Refresh(r)
  <2>1. kind[r] # "callback" /\ pc[r] # "idle"
    BY <1>3, <1>4, <1>8 DEF Refresh
  <2>2. UnderWay'
    BY <1>1, <1>4, <1>8, <2>1, WentOn, WasGranted DEF Refresh
  <2> QED
    BY <1>2, <1>8, <2>2, HalvesNext DEF Refresh
<1>9. CASE SaveSession(r)
  <2>1. kind[r] # "callback" /\ on[r] \in SessionIds /\ pc[r] = "granted"
    BY <1>1, <1>3, <1>9 DEF SaveSession, UnderWay, RequestsInPlace
  <2>2. UnderWay'
    BY <1>1, <1>9, <2>1, Proceeded DEF SaveSession
  <2>3. Kept'
    BY <1>1, <1>9, <2>1, StoredTyped, Written DEF SaveSession
  <2> QED
    BY <2>2, <2>3, HalvesNext
<1>10. CASE RefreshFailed(r)
  <2>1. on[r] \in SessionIds
    BY <1>3, <1>4, <1>10 DEF RefreshFailed
  <2>2. UnderWay'
    BY <1>1, <1>10, Ended DEF RefreshFailed
  <2>3. Kept'
    BY <1>1, <1>10, <2>1, Written DEF RefreshFailed
  <2> QED
    BY <2>2, <2>3, HalvesNext
<1>11. CASE Leave(r)
  <2>1. kind[r] # "callback" /\ pc[r] # "idle"
    BY <1>3, <1>4, <1>11 DEF Leave
  <2>2. UnderWay'
    BY <1>1, <1>4, <1>11, <2>1, WentOn DEF Leave
  <2> QED
    BY <1>2, <1>11, <2>2, HalvesNext DEF Leave
<1>12. CASE Revoke(r)
  <2>1. kind[r] # "callback" /\ pc[r] # "idle"
    BY <1>3, <1>4, <1>12 DEF Revoke
  <2>2. UnderWay'
    BY <1>1, <1>4, <1>12, <2>1, WentOn DEF Revoke
  <2>3. Kept'
    BY <1>1, <1>12 DEF Revoke, Kept, redis, browser
  <2> QED
    BY <2>2, <2>3, HalvesNext
<1>13. CASE DeleteSession(r)
  <2>1. kind[r] # "callback" /\ pc[r] # "idle" /\ on[r] \in SessionIds
    BY <1>3, <1>4, <1>13 DEF DeleteSession
  <2>2. UnderWay'
    BY <1>1, <1>4, <1>13, <2>1, WentOn DEF DeleteSession
  <2>3. Kept'
    BY <1>1, <1>13, <2>1, Written DEF DeleteSession
  <2> QED
    BY <2>2, <2>3, HalvesNext
<1>14. CASE LoggedOut(r)
  <2>1. on[r] \in SessionIds
    BY <1>3, <1>4, <1>14 DEF LoggedOut
  <2>2. UnderWay'
    BY <1>1, <1>14, Ended DEF LoggedOut
  <2>3. Kept'
    BY <1>1, <1>14, <2>1 DEF LoggedOut, Kept, redis
  <2> QED
    BY <2>2, <2>3, HalvesNext
<1> QED
  BY <1>5, <1>6, <1>7, <1>8, <1>9, <1>10, <1>11, <1>12, <1>13, <1>14, <1>15, <1>16 DEF Step

(* Time takes from the claim what it adds to the age. *)
LEMMA OlderBounded ==
    ASSUME NEW t, NEW new, t.age \in 0..Horizon, t.late \in 0..Horizon,
           t.claimed \in 0..Lifetime, Bounded(t),
           new.age = Older(t.age), new.late = t.late, new.claimed = Minus(t.claimed)
    PROVE  Bounded(new)
BY Lives DEF Bounded, Older, Minus

LEMMA AgedTyped ==
    ASSUME NEW session \in BrowserSession \cup {None},
           session # None => Bounded(session)
    PROVE  /\ Aged(session) \in BrowserSession \cup {None}
           /\ Aged(session) # None => Bounded(Aged(session))
<1>1. CASE session = None \/ session.ttl = 1
  BY <1>1 DEF Aged
<1>2. CASE session # None /\ session.ttl # 1
  <2>1. /\ session.age \in 0..Horizon /\ session.late \in 0..Horizon
        /\ session.claimed \in 0..Lifetime /\ session.ttl \in 2..SessionTtl
    BY <1>2 DEF BrowserSession
  <2>2. /\ Older(session.age) \in 0..Horizon /\ Minus(session.claimed) \in 0..Lifetime
        /\ session.ttl - 1 \in 1..SessionTtl
    BY <2>1, Lives DEF Older, Minus
  <2>3. Aged(session) = [age |-> Older(session.age), late |-> session.late,
                         claimed |-> Minus(session.claimed), ttl |-> session.ttl - 1]
    BY <1>2 DEF Aged
  <2>4. Aged(session) \in BrowserSession
    BY <2>1, <2>2, <2>3 DEF BrowserSession
  <2>5. Bounded(Aged(session))
    <3>1. /\ Aged(session).age = Older(session.age)
          /\ Aged(session).late = session.late
          /\ Aged(session).claimed = Minus(session.claimed)
      BY <2>3
    <3> QED
      BY <1>2, <2>1, <3>1, OlderBounded
  <2> QED
    BY <2>4, <2>5
<1> QED
  BY <1>1, <1>2

LEMMA TickKeeps ==
    ASSUME IInv, Tick
    PROVE  IInv'
<1>1. Kept /\ UnderWay
  BY Halves
<1>2. Kept'
  <2>1. \A s \in SessionIds :
          /\ Aged(sessions[s]) \in BrowserSession \cup {None}
          /\ Aged(sessions[s]) # None => Bounded(Aged(sessions[s]))
    BY <1>1, AgedTyped DEF Kept
  <2> QED
    BY <1>1, <2>1 DEF Tick, Kept, browser
<1>3. UnderWay'
  <2>1. ASSUME NEW r \in Requests, token[r] # None
        PROVE  /\ token'[r] \in Token
               /\ Bounded(token[r]) => Bounded(token'[r])
    <3>1. token[r] \in Token
      BY <1>1, <2>1 DEF UnderWay
    <3>2. /\ token[r].age \in 0..Horizon /\ token[r].late \in 0..Horizon
          /\ token[r].claimed \in 0..Lifetime
      BY <3>1 DEF Token
    <3>3. Older(token[r].age) \in 0..Horizon /\ Minus(token[r].claimed) \in 0..Lifetime
      BY <3>2, Lives DEF Older, Minus
    <3>4. token'[r] = [age |-> Older(token[r].age), late |-> token[r].late,
                       claimed |-> Minus(token[r].claimed)]
      BY <2>1 DEF Tick
    <3>5. token'[r] \in Token
      BY <3>2, <3>3, <3>4 DEF Token
    <3>6. Bounded(token[r]) => Bounded(token'[r])
      <4>1. /\ token'[r].age = Older(token[r].age) /\ token'[r].late = token[r].late
            /\ token'[r].claimed = Minus(token[r].claimed)
        BY <3>4
      <4> QED
        BY <3>2, <4>1, OlderBounded
    <3> QED
      BY <3>5, <3>6
  <2>2. None \notin Token
    BY NoneAssumption
  <2>3. \A r \in Requests : token[r] = None => token'[r] = None
    BY DEF Tick
  <2>4. \A r \in Requests : /\ token'[r] \in Token \cup {None}
                            /\ token'[r] # None <=> token[r] # None
    BY <2>1, <2>2, <2>3
  <2>5. token' \in [Requests -> Token \cup {None}]
    BY <2>4 DEF Tick
  <2>6. UNCHANGED <<pc, kind, on>>
    BY DEF Tick
  <2>7. \A r \in Requests : pc'[r] = "granted" => Bounded(token'[r])
    BY <1>1, <2>1, <2>6 DEF UnderWay, RequestsInPlace
  <2> QED
    BY <1>1, <2>4, <2>5, <2>6, <2>7 DEF UnderWay, RequestsInPlace
<1> QED
  BY <1>2, <1>3, HalvesNext

LEMMA Initially == Init => IInv
BY NoneAssumption DEF Init, IInv, TypeOK, ClaimsBounded, RequestsInPlace, Places

LEMMA Inductive == IInv /\ [Next]_vars => IInv'
<1> SUFFICES ASSUME IInv, [Next]_vars PROVE IInv'
  OBVIOUS
<1>1. Kept /\ UnderWay
  BY Halves
<1>2. UNCHANGED request => UnderWay'
  BY <1>1 DEF UnderWay, request, RequestsInPlace
<1>3. ASSUME NEW l \in Logins, StartLogin(l) \/ LoginExpires(l) PROVE IInv'
  <2>1. Kept'
    BY <1>1, <1>3 DEF StartLogin, LoginExpires, Kept, browser
  <2> QED
    BY <1>2, <1>3, <2>1, HalvesNext DEF StartLogin, LoginExpires
<1>4. ASSUME NEW r \in Requests, NEW l \in Logins, Callback(r, l) PROVE IInv'
  <2>1. Kept'
    BY <1>1, <1>4 DEF Callback, Consumed, Kept, browser
  <2>2. UnderWay'
    BY <1>1, <1>4, Began DEF Callback
  <2> QED
    BY <2>1, <2>2, HalvesNext
<1>5. ASSUME NEW r \in Requests, NEW what \in {"use", "logout"}, Ask(r, what) PROVE IInv'
  <2>1. Kept'
    BY <1>1, <1>5 DEF Ask, Kept, redis, browser
  <2>2. cookie \in SessionIds
    BY <1>1, <1>5 DEF Ask, Kept
  <2>3. UnderWay'
    BY <1>1, <1>5, <2>2, Began DEF Ask
  <2> QED
    BY <2>1, <2>3, HalvesNext
<1>6. ASSUME NEW r \in Requests, Crash(r) PROVE IInv'
  BY <1>1, <1>6, Ended, HalvesNext DEF Crash, Kept, redis, browser
<1>7. CASE UNCHANGED vars
  BY <1>1, <1>2, <1>7, HalvesNext DEF vars, request, redis, browser, Kept
<1> QED
  BY <1>3, <1>4, <1>5, <1>6, <1>7, StepKeeps, TickKeeps DEF Next

(* What Redis, Keycloak and the requests of a browser hold stays in its    *)
(* place, and a session never claims more for its token than one lifetime  *)
(* from the end of the verification, however long that took                *)
(* (auth/bff.py, complete_login, get_session and save_session).            *)
THEOREM Invariant == Spec => []IInv
BY Initially, Inductive, PTL DEF Spec

(* Whatever the lifetimes are and however long tokens are on their way: a  *)
(* session that a request uses without a refresh has a token that lives if *)
(* its verification was over within the margin, and otherwise one that is  *)
(* over for less than the longest life of a token (bff.py: expires_at      *)
(* after verify, expires_at > now + 60; verifier.py: exp is required).     *)
THEOREM StaleTokensEnd == Spec => []StaleAtMost
<1>1. IInv => StaleAtMost
  <2> SUFFICES ASSUME IInv, NEW s \in SessionIds, sessions[s] # None, Fresh(sessions[s])
               PROVE  /\ sessions[s].late <= Margin => sessions[s].age < Lifetime
                      /\ sessions[s].age + Margin < LongestLife + Lifetime
    BY DEF StaleAtMost
  <2>1. sessions[s] \in BrowserSession /\ Bounded(sessions[s])
    BY DEF IInv, TypeOK, ClaimsBounded
  <2>2. /\ sessions[s].age \in Nat /\ sessions[s].late \in Nat
        /\ sessions[s].claimed \in Nat
    BY <2>1, Lives DEF BrowserSession
  <2> QED
    BY <2>1, <2>2, Lives DEF Bounded, Fresh
<1> QED
  BY <1>1, Invariant, PTL

----------------------------------------------------------------------------
(* A login that somebody returns with, or has returned with, is consumed;  *)
(* one request at a time returns with it, and before it makes a session.   *)
Returning(r, l) == pc[r] # "idle" /\ kind[r] = "callback" /\ on[r] = l

SingleUse ==
    /\ \A l \in Logins : made[l] # {} => logins[l] = "gone"
    /\ \A l \in Logins : \A r \in Requests :
          Returning(r, l) => logins[l] = "gone" /\ made[l] = {}
    /\ \A l \in Logins : \A r, q \in Requests :
          Returning(r, l) /\ Returning(q, l) => r = q

(* A step that consumes nothing and makes nothing, and lets nobody return. *)
LEMMA NobodyReturns ==
    ASSUME SingleUse, LoginOnce, UNCHANGED made,
           \A l \in Logins : logins[l] = "gone" => logins'[l] = "gone",
           \A l \in Logins : \A r \in Requests : Returning(r, l)' => Returning(r, l)
    PROVE  SingleUse' /\ LoginOnce'
BY DEF SingleUse, LoginOnce, Returning

LEMMA StepReturnsNobody ==
    ASSUME IInv, NEW r \in Requests, Step(r) \/ Crash(r),
           NEW q \in Requests, NEW l, Returning(q, l)'
    PROVE  Returning(q, l)
<1> USE DEF IInv, TypeOK, Returning
<1>1. CASE Crash(r)
  BY <1>1 DEF Crash, End
<1>2. CASE Exchange(r) \/ Refresh(r) \/ Verify(r) \/ VerifyId(r)
  BY <1>2 DEF Exchange, Refresh, Verify, VerifyId, Grant, Stamp, End, Goto
<1>3. CASE CreateSession(r) \/ RefreshFailed(r) \/ LoggedOut(r)
  BY <1>3 DEF CreateSession, RefreshFailed, LoggedOut, End
<1>4. CASE Read(r) \/ SaveSession(r)
  BY <1>4 DEF Read, SaveSession, Proceed, End, Goto
<1>5. CASE Leave(r) \/ Revoke(r) \/ DeleteSession(r)
  BY <1>5 DEF Leave, Revoke, DeleteSession, Goto
<1> QED
  BY <1>1, <1>2, <1>3, <1>4, <1>5 DEF Step

LEMMA CreationKeepsSingleUse ==
    ASSUME IInv, SingleUse, LoginOnce, NEW r \in Requests, CreateSession(r)
    PROVE  SingleUse' /\ LoginOnce'
<1>1. PICK l \in Logins : l = on[r] /\ Returning(r, l)
  BY DEF IInv, RequestsInPlace, CreateSession, Returning
<1>2. PICK s \in SessionIds : made' = [made EXCEPT ![l] = @ \cup {s}]
  BY <1>1 DEF CreateSession
<1>3. made[l] = {} /\ logins[l] = "gone"
  BY <1>1 DEF SingleUse
<1>4. /\ made'[l] = {s}
      /\ \A k \in Logins \ {l} : made'[k] = made[k]
  BY <1>1, <1>2, <1>3 DEF IInv, TypeOK
<1>5. logins' = logins /\ pc' = [pc EXCEPT ![r] = "idle"] /\ kind' = kind
      /\ on' = [on EXCEPT ![r] = None]
  BY DEF CreateSession, End
<1>6. \A q \in Requests : \A k : Returning(q, k)' => Returning(q, k) /\ q # r
  BY <1>5 DEF IInv, TypeOK, Returning
<1>7. \A q \in Requests : ~Returning(q, l)'
  BY <1>1, <1>6 DEF SingleUse
<1> QED
  BY <1>1, <1>3, <1>4, <1>5, <1>6, <1>7 DEF SingleUse, LoginOnce

LEMMA SingleUseInductive ==
    ASSUME IInv, SingleUse, LoginOnce, [Next]_vars
    PROVE  SingleUse' /\ LoginOnce'
<1>1. ASSUME NEW l \in Logins, StartLogin(l) \/ LoginExpires(l)
      PROVE  SingleUse' /\ LoginOnce'
  <2>1. UNCHANGED made /\ \A k \in Logins : logins[k] = "gone" => logins'[k] = "gone"
    BY <1>1 DEF StartLogin, LoginExpires, IInv, TypeOK
  <2>2. \A k \in Logins : \A r \in Requests : Returning(r, k)' => Returning(r, k)
    BY <1>1 DEF StartLogin, LoginExpires, request, Returning
  <2> QED
    BY <2>1, <2>2, NobodyReturns
<1>2. ASSUME NEW r \in Requests, NEW l \in Logins, Callback(r, l)
      PROVE  SingleUse' /\ LoginOnce'
  <2>1. /\ made' = made /\ logins[l] = "pending"
        /\ logins'[l] = "gone" /\ \A k \in Logins \ {l} : logins'[k] = logins[k]
    BY <1>2 DEF Callback, Consumed, IInv, TypeOK
  <2>2. \A q \in Requests : \A k : Returning(q, k)' =>
          Returning(q, k) \/ (q = r /\ k = l)
    BY <1>2 DEF Callback, Begin, Returning, IInv, TypeOK
  <2>3. made[l] = {} /\ \A q \in Requests : ~Returning(q, l)
    BY <2>1 DEF SingleUse
  <2>4. \A k : Returning(r, k)' => k = l
    BY <1>2 DEF Callback, Begin, Returning, IInv, TypeOK
  <2> QED
    BY <2>1, <2>2, <2>3, <2>4 DEF SingleUse, LoginOnce
<1>3. ASSUME NEW r \in Requests, NEW what \in {"use", "logout"}, Ask(r, what)
      PROVE  SingleUse' /\ LoginOnce'
  <2>1. UNCHANGED <<made, logins>>
    BY <1>3 DEF Ask, redis
  <2>2. \A k \in Logins : \A q \in Requests : Returning(q, k)' => Returning(q, k)
    BY <1>3 DEF Ask, Begin, Returning, IInv, TypeOK
  <2> QED
    BY <2>1, <2>2, NobodyReturns
<1>4. ASSUME NEW r \in Requests, CreateSession(r) PROVE SingleUse' /\ LoginOnce'
  BY <1>4, CreationKeepsSingleUse
<1>5. ASSUME NEW r \in Requests, Step(r) \/ Crash(r), ~CreateSession(r)
      PROVE  SingleUse' /\ LoginOnce'
  <2>1. UNCHANGED <<made, logins>>
    BY <1>5 DEF Step, Exchange, Verify, VerifyId, Read, Refresh, SaveSession, RefreshFailed,
                Leave, Revoke, DeleteSession, LoggedOut, Crash, redis
  <2>2. \A k \in Logins : \A q \in Requests : Returning(q, k)' => Returning(q, k)
    BY <1>5, StepReturnsNobody
  <2> QED
    BY <2>1, <2>2, NobodyReturns
<1>6. CASE Tick \/ UNCHANGED vars
  <2>1. UNCHANGED <<made, logins, pc, kind, on>>
    BY <1>6 DEF Tick, vars
  <2> QED
    BY <2>1, NobodyReturns DEF Returning
<1> QED
  BY <1>1, <1>2, <1>3, <1>4, <1>5, <1>6 DEF Next

(* A login makes at most one session, with any number of requests that     *)
(* return with its state at once (bff.py: the state is taken by GETDEL).   *)
THEOREM OneSession == Spec => []LoginOnce
<1>1. Init => SingleUse /\ LoginOnce
  BY DEF Init, SingleUse, LoginOnce, Returning
<1>2. IInv /\ (SingleUse /\ LoginOnce) /\ [Next]_vars => (SingleUse /\ LoginOnce)'
  BY SingleUseInductive
<1> QED
  BY <1>1, <1>2, Invariant, PTL DEF Spec
============================================================================
