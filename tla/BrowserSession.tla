--------------------------- MODULE BrowserSession ---------------------------
(***************************************************************************)
(* The sessions that the backend keeps in Redis for one browser: login,    *)
(* use with refresh of the tokens, logout.  A request reads the session,   *)
(* talks to Keycloak, and writes the session back or deletes it; nothing   *)
(* ties what it writes to what it has read.                                *)
(*                                                                         *)
(* Time passes in ticks, between any two steps: a token has an age, a      *)
(* session claims that its token has so much left to live, and Redis keeps *)
(* the session for so much longer.  Nothing bounds the time that a token   *)
(* is on its way or being verified.                                        *)
(***************************************************************************)
EXTENDS Integers

CONSTANTS
    Requests,       \* what the browser has under way at once
    Logins,         \* the states of logins
    SessionIds,
    Lifetime,       \* of an access token
    IdLifetime,     \* of an id token
    Margin,         \* what must be left of an access token, 60 seconds in the code
    SessionTtl,     \* bff_session_ttl_seconds
    None            \* no session, no cookie, nothing asked

ASSUME LifetimeAssumption == Lifetime \in Nat /\ IdLifetime \in Nat
ASSUME MarginAssumption == Margin \in Nat
ASSUME SessionTtlAssumption == SessionTtl \in Nat \ {0}

LongestLife == IF Lifetime > IdLifetime THEN Lifetime ELSE IdLifetime

(* No session calls a token fresh that is as old as this: bound on ages.   *)
Horizon == LongestLife + Lifetime

(* The age of the token, the age it had when expires_at was computed, and  *)
(* expires_at as the time that is left of it; then the ttl of the key.     *)
Token == [age : 0..Horizon, late : 0..Horizon, claimed : 0..Lifetime]
BrowserSession ==
    [age : 0..Horizon, late : 0..Horizon, claimed : 0..Lifetime, ttl : 1..SessionTtl]

ASSUME NoneAssumption == None \notin BrowserSession \cup Token \cup SessionIds \cup Logins

VARIABLES
    logins,     \* what Redis has of each login
    made,       \* the sessions that each login has made
    sessions,   \* what Redis has of each session
    grants,     \* the sessions whose refresh token Keycloak honours
    cookie,     \* the session of the browser
    loggedOut,  \* the sessions whose logout was answered with 204
    pc, kind,   \* the request: "callback", "use" or "logout"
    on,         \* its login or its session
    token       \* what Keycloak has granted it

vars == <<logins, made, sessions, grants, cookie, loggedOut, pc, kind, on, token>>

Places == {"idle", "reading", "refreshing", "failing", "exchanging", "verifying",
           "verifying id", "granted", "leaving", "revoking", "deleting", "left"}

(* Every variable has its type. *)
TypeOK ==
    /\ logins \in [Logins -> {"unused", "pending", "gone"}]
    /\ made \in [Logins -> SUBSET SessionIds]
    /\ sessions \in [SessionIds -> BrowserSession \cup {None}]
    /\ grants \subseteq SessionIds
    /\ cookie \in SessionIds \cup {None}
    /\ loggedOut \subseteq SessionIds
    /\ pc \in [Requests -> Places]
    /\ kind \in [Requests -> {"callback", "use", "logout"}]
    /\ on \in [Requests -> SessionIds \cup Logins \cup {None}]
    /\ token \in [Requests -> Token \cup {None}]

Init ==
    /\ logins = [l \in Logins |-> "unused"]
    /\ made = [l \in Logins |-> {}]
    /\ sessions = [s \in SessionIds |-> None]
    /\ grants = {}
    /\ cookie = None
    /\ loggedOut = {}
    /\ pc = [r \in Requests |-> "idle"]
    /\ kind = [r \in Requests |-> "use"]
    /\ on = [r \in Requests |-> None]
    /\ token = [r \in Requests |-> None]

browser == <<cookie, loggedOut>>
request == <<pc, kind, on, token>>
redis == <<logins, made, sessions>>

(* A request goes on; a token it was granted has been stored. *)
Goto(r, place) ==
    /\ pc' = [pc EXCEPT ![r] = place]
    /\ token' = [token EXCEPT ![r] = None]
    /\ UNCHANGED <<kind, on>>

Begin(r, what, whom, place) ==
    /\ pc' = [pc EXCEPT ![r] = place]
    /\ kind' = [kind EXCEPT ![r] = what]
    /\ on' = [on EXCEPT ![r] = whom]
    /\ UNCHANGED token

End(r) ==
    /\ pc' = [pc EXCEPT ![r] = "idle"]
    /\ on' = [on EXCEPT ![r] = None]
    /\ token' = [token EXCEPT ![r] = None]
    /\ UNCHANGED kind

----------------------------------------------------------------------------
(* login, register: the state is kept for five minutes. *)
StartLogin(l) ==
    /\ logins[l] = "unused"
    /\ logins' = [logins EXCEPT ![l] = "pending"]
    /\ UNCHANGED <<made, sessions, grants, browser, request>>

LoginExpires(l) ==
    /\ logins[l] = "pending"
    /\ logins' = [logins EXCEPT ![l] = "gone"]
    /\ UNCHANGED <<made, sessions, grants, browser, request>>

(* Mutant: the state is read and kept until it expires. *)
Peeked(l) == logins

(* GETDEL *)
Consumed(l) == [logins EXCEPT ![l] = "gone"]

(* callback: the browser may return more than once with the same state.    *)
Callback(r, l) ==
    /\ pc[r] = "idle"
    /\ logins[l] = "pending"
    /\ logins' = Consumed(l)
    /\ Begin(r, "callback", l, "exchanging")
    /\ UNCHANGED <<made, sessions, grants, browser>>

(* Keycloak grants the request tokens; the answer is still on its way.     *)
Grant(r) ==
    /\ token' = [token EXCEPT ![r] = [age |-> 0, late |-> 0, claimed |-> 0]]
    /\ pc' = [pc EXCEPT ![r] = "verifying"]
    /\ UNCHANGED <<kind, on>>

Exchange(r) ==
    /\ pc[r] = "exchanging"
    /\ End(r) \/ Grant(r)
    /\ UNCHANGED <<redis, grants, browser>>

(* jwt.decode, once a thread has got the signing key *)
Accepts(t, life) == t.age < life

(* expires_at is computed, from the full lifetime, and nothing is awaited  *)
(* between the last verification and this.                                 *)
Stamp(r) ==
    /\ token' = [token EXCEPT ![r] =
                   [age |-> token[r].age, late |-> token[r].age, claimed |-> Lifetime]]
    /\ pc' = [pc EXCEPT ![r] = "granted"]
    /\ UNCHANGED <<kind, on>>

(* The access token is verified; a callback goes on with the id token.     *)
Verify(r) ==
    /\ pc[r] = "verifying"
    /\ \/ kind[r] = "callback" /\ End(r)
       \/ kind[r] # "callback" /\ Goto(r, "failing")
       \/ /\ Accepts(token[r], Lifetime)
          /\ IF kind[r] # "callback"
             THEN Stamp(r)
             ELSE /\ pc' = [pc EXCEPT ![r] = "verifying id"]
                  /\ UNCHANGED <<kind, on, token>>
    /\ UNCHANGED <<redis, grants, browser>>

(* The id token and its nonce, or one of them does not match. *)
VerifyId(r) ==
    /\ pc[r] = "verifying id"
    /\ \/ End(r)
       \/ Accepts(token[r], IdLifetime) /\ Stamp(r)
    /\ UNCHANGED <<redis, grants, browser>>

(* Mutant: expires_at is computed anew when the session is written. *)
StoredAnew(r) ==
    [age |-> token[r].age, late |-> token[r].late, claimed |-> Lifetime, ttl |-> SessionTtl]

Stored(r) ==
    [age |-> token[r].age, late |-> token[r].late, claimed |-> token[r].claimed,
     ttl |-> SessionTtl]

CreateSession(r) ==
    /\ pc[r] = "granted" /\ kind[r] = "callback"
    /\ \E s \in SessionIds :
          /\ s \notin UNION {made[l] : l \in Logins}
          /\ sessions' = [sessions EXCEPT ![s] = Stored(r)]
          /\ made' = [made EXCEPT ![on[r]] = @ \cup {s}]
          /\ grants' = grants \cup {s}
          /\ \/ cookie' = s           \* the answer arrives
             \/ UNCHANGED cookie
    /\ End(r)
    /\ UNCHANGED <<logins, loggedOut>>

----------------------------------------------------------------------------
(* get_session, on behalf of any request with the cookie, or of a logout.  *)
Ask(r, what) ==
    /\ pc[r] = "idle" /\ cookie # None
    /\ Begin(r, what, cookie, "reading")
    /\ UNCHANGED <<redis, grants, browser>>

(* Mutant: the token is used until the very moment it expires. *)
FreshToTheEnd(session) == session.claimed > 0

Fresh(session) == session.claimed > Margin

(* The session is good: a logout goes on, any other request is answered.   *)
Proceed(r) == IF kind[r] = "logout" THEN Goto(r, "leaving") ELSE End(r)

Read(r) ==
    /\ pc[r] = "reading"
    /\ LET session == sessions[on[r]] IN
         \/ session = None /\ End(r)
         \/ session # None /\ Fresh(session) /\ Proceed(r)
         \/ session # None /\ ~Fresh(session) /\ Goto(r, "refreshing")
    /\ UNCHANGED <<redis, grants, browser>>

(* Keycloak grants new tokens, or it does not, or its answer is lost. *)
Refresh(r) ==
    /\ pc[r] = "refreshing"
    /\ \/ Goto(r, "failing")
       \/ on[r] \in grants /\ Grant(r)
    /\ UNCHANGED <<redis, grants, browser>>

(* save_session, whether or not the session is still there. *)
SaveSession(r) ==
    /\ pc[r] = "granted" /\ kind[r] # "callback"
    /\ sessions' = [sessions EXCEPT ![on[r]] = Stored(r)]
    /\ Proceed(r)
    /\ UNCHANGED <<logins, made, grants, browser>>

(* The session is deleted and the request refused. *)
RefreshFailed(r) ==
    /\ pc[r] = "failing"
    /\ sessions' = [sessions EXCEPT ![on[r]] = None]
    /\ End(r)
    /\ UNCHANGED <<logins, made, grants, browser>>

----------------------------------------------------------------------------
(* logout: the session is read once more. *)
Leave(r) ==
    /\ pc[r] = "leaving"
    /\ Goto(r, IF sessions[on[r]] = None THEN "left" ELSE "revoking")
    /\ UNCHANGED <<redis, grants, browser>>

(* Keycloak ends its login, with all that it has granted to it, or fails.  *)
Revoke(r) ==
    /\ pc[r] = "revoking"
    /\ \/ UNCHANGED grants
       \/ \E others \in SUBSET SessionIds : grants' = grants \ ({on[r]} \cup others)
    /\ Goto(r, "deleting")
    /\ UNCHANGED <<redis, browser>>

DeleteSession(r) ==
    /\ pc[r] = "deleting"
    /\ sessions' = [sessions EXCEPT ![on[r]] = None]
    /\ Goto(r, "left")
    /\ UNCHANGED <<logins, made, grants, browser>>

(* The answer deletes the cookie of the browser, whichever it is by now.   *)
LoggedOut(r) ==
    /\ pc[r] = "left"
    /\ cookie' = None
    /\ loggedOut' = loggedOut \cup {on[r]}
    /\ End(r)
    /\ UNCHANGED <<redis, grants>>

----------------------------------------------------------------------------
(* The process of a request is lost. *)
Crash(r) ==
    /\ pc[r] # "idle"
    /\ End(r)
    /\ UNCHANGED <<redis, grants, browser>>

Minus(n) == IF n = 0 THEN 0 ELSE n - 1

Older(n) == IF n < Horizon THEN n + 1 ELSE n

(* Mutant: the session is saved without a ttl. *)
AgedForEver(session) ==
    IF session = None THEN None
    ELSE [session EXCEPT !.age = Older(@), !.claimed = Minus(@)]

(* Redis drops a session when its ttl has passed. *)
Aged(session) ==
    IF session = None THEN None
    ELSE IF session.ttl = 1 THEN None
    ELSE [age |-> Older(session.age), late |-> session.late,
          claimed |-> Minus(session.claimed), ttl |-> session.ttl - 1]

(* Time passes, whatever is under way. *)
Tick ==
    /\ sessions' = [s \in SessionIds |-> Aged(sessions[s])]
    /\ token' = [r \in Requests |->
                    IF token[r] = None THEN None
                    ELSE [age |-> Older(token[r].age), late |-> token[r].late,
                          claimed |-> Minus(token[r].claimed)]]
    /\ UNCHANGED <<logins, made, grants, browser, pc, kind, on>>

Step(r) ==
    \/ Exchange(r) \/ Verify(r) \/ VerifyId(r) \/ CreateSession(r)
    \/ Read(r) \/ Refresh(r) \/ SaveSession(r) \/ RefreshFailed(r)
    \/ Leave(r) \/ Revoke(r) \/ DeleteSession(r) \/ LoggedOut(r)

Next ==
    \/ \E l \in Logins : StartLogin(l) \/ LoginExpires(l)
    \/ \E r \in Requests :
          \/ \E l \in Logins : Callback(r, l)
          \/ \E what \in {"use", "logout"} : Ask(r, what)
          \/ Step(r)
          \/ Crash(r)
    \/ Tick

Spec == Init /\ [][Next]_vars

(* Time goes on.  A request need not: its call may hang, its task be lost. *)
FairSpec == Spec /\ WF_vars(Tick)

----------------------------------------------------------------------------
(* A login makes one session, however often the browser returns with its   *)
(* state (M1-02: the state is consumed once).                              *)
LoginOnce == \A l \in Logins : \A s, t \in made[l] : s = t

(* How dead the token of a session can be that is taken as it is.  What    *)
(* the session claims is counted from the end of the verification, so the  *)
(* token lives if that was over within the margin; one that waited longer, *)
(* for Keycloak, a thread or a key, can be over and is still taken, but    *)
(* never for longer than the tokens' own ends allowed it to wait.          *)
StaleAtMost ==
    \A s \in SessionIds :
        LET session == sessions[s] IN
        session # None /\ Fresh(session) =>
            /\ session.late <= Margin => session.age < Lifetime
            /\ session.age + Margin < LongestLife + Lifetime

(* A session that was logged out is gone for good after a while, even if a *)
(* refresh under way has brought it back and Keycloak never knew.          *)
LogoutFades == \A s \in SessionIds : s \in loggedOut ~> [](sessions[s] = None)

(* What M1-02 says (8): whatever Keycloak does, a logout deletes the       *)
(* session.  A refresh under way brings it back.                           *)
LogoutIsFinal == \A s \in loggedOut : sessions[s] = None

(* What is claimed for a token is counted from an age at which it, or the  *)
(* id token that came with it, was still alive.                            *)
Bounded(t) ==
    /\ t.late < LongestLife
    /\ t.claimed > 0 => t.age + t.claimed <= t.late + Lifetime

ClaimsBounded ==
    /\ \A s \in SessionIds : sessions[s] # None => Bounded(sessions[s])
    /\ \A r \in Requests : pc[r] = "granted" => Bounded(token[r])

(* A request has a token when it was granted one, and is about a login or  *)
(* a session as befits its kind.                                           *)
RequestsInPlace ==
    \A r \in Requests :
        /\ pc[r] \in {"verifying", "verifying id", "granted"} <=> token[r] # None
        /\ pc[r] # "idle" =>
              on[r] \in IF kind[r] = "callback" THEN Logins ELSE SessionIds
        /\ pc[r] \notin {"idle", "verifying", "granted"} =>
              (kind[r] = "callback" <=> pc[r] \in {"exchanging", "verifying id"})

(* The inductive invariant. *)
IInv == TypeOK /\ ClaimsBounded /\ RequestsInPlace
============================================================================
