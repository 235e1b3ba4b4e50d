---------------------- MODULE MaintenanceRunnerProofs ----------------------
(***************************************************************************)
(* Theorems about MaintenanceRunner and the StorageAdapter it extends, for *)
(* any number of workers, threads, attempts, addresses and faults.         *)
(***************************************************************************)
EXTENDS MaintenanceRunner, FiniteSetTheorems, TLAPS

USE AdapterAssumption, RunnerAssumption

Sound == AdapterTypeOK /\ CallsAreSound

(* What CallsAreSound says of a call, its thread aside. *)
Fits(k) ==
    /\ k.at = "backoff" => ~Last(k)
    /\ k.listing => k.attempt = 1
    /\ k.at = "ok" => k.carried

LEMMA CallFits ==
    ASSUME Sound, NEW c \in Callers
    PROVE  call[c] \in Call /\ Fits(call[c])
BY DEF Sound, AdapterTypeOK, CallsAreSound, Fits

LEMMA FaultTyped ==
    ASSUME Sound, Fault \/ UNCHANGED faults
    PROVE  faults' \in 0..MaxFaults
BY DEF Sound, AdapterTypeOK, Fault

LEMMA Bounds ==
    /\ 0 \in 0..PoolSize /\ 0 \in 0..MaxAttempts /\ 1 \in 0..MaxAttempts
    /\ 0 \in 0..Addresses /\ 1 \in 0..Addresses
    /\ \A n \in Threads : n \in 0..PoolSize /\ n # 0
BY DEF Threads

(* What an attempt leaves behind is a call. *)
LEMMA ReturnedTyped ==
    ASSUME NEW k \in Call, NEW code \in StorageErrorCode \cup {"ok"},
           code = "ok" => k.carried, k.listing => k.attempt = 1
    PROVE  /\ Returned(k, code) \in Call /\ Fits(Returned(k, code))
           /\ Returned(k, code).at \in {"ok", "failed", "backoff"}
           /\ Returned(k, code).on = 0
           /\ Returned(k, code).listing = k.listing
           /\ Returned(k, code).attempt = k.attempt
           /\ Returned(k, code).at = "ok" => code = "ok" /\ Returned(k, code).carried
<1> DEFINE at == CASE code = "ok" -> "ok"
                   [] code \in Retryable /\ ~Last(k) -> "backoff"
                   [] OTHER -> "failed"
<1>1. /\ at \in {"ok", "failed", "backoff"}
      /\ at = "backoff" => ~Last(k)
      /\ at = "ok" => code = "ok"
  BY DEF StorageErrorCode, Retryable
<1>2. Returned(k, code) = [k EXCEPT !.on = 0, !.at = at]
  BY DEF Returned
<1> HIDE DEF at
<1>3. /\ Returned(k, code).at = at
      /\ Returned(k, code).on = 0
      /\ Returned(k, code).attempt = k.attempt
      /\ Returned(k, code).listing = k.listing
      /\ Returned(k, code).carried = k.carried
      /\ Returned(k, code) \in Call
  BY <1>1, <1>2, Bounds DEF Call
<1>4. Fits(Returned(k, code))
  BY <1>1, <1>3 DEF Fits, Last
<1> QED
  BY <1>1, <1>3, <1>4

LEMMA RequestedTyped ==
    ASSUME NEW k \in Call, NEW done \in BOOLEAN
    PROVE  /\ Requested(k, done) \in Call
           /\ Requested(k, done).at = k.at
           /\ Requested(k, done).on = k.on
           /\ Requested(k, done).attempt = k.attempt
           /\ Requested(k, done).listing = k.listing
           /\ k.carried => Requested(k, done).carried
           /\ done => Requested(k, done).carried
           /\ Fits(k) => Fits(Requested(k, done))
<1>1. k.requests + 1 \in Nat /\ (k.carried \/ done) \in BOOLEAN
  BY DEF Call
<1>2. /\ Requested(k, done) \in Call
      /\ Requested(k, done).at = k.at
      /\ Requested(k, done).on = k.on
      /\ Requested(k, done).attempt = k.attempt
      /\ Requested(k, done).listing = k.listing
      /\ k.carried => Requested(k, done).carried
      /\ done => Requested(k, done).carried
  BY <1>1 DEF Requested, Call
<1> QED
  BY <1>2 DEF Fits, Last

(* A step that gives one caller another call and other threads keeps the   *)
(* calls sound if the new one is.                                          *)
LEMMA OneCall ==
    ASSUME Sound, NEW c \in Callers, NEW k \in Call, NEW th \in [Threads -> Thread],
           call' = [call EXCEPT ![c] = k],
           thread' = [thread EXCEPT ![c] = th],
           Fault \/ UNCHANGED faults,
           k.at = "sent" => k.on \in Threads /\ th[k.on].at # "free" /\ th[k.on].ours,
           k.at # "sent" => k.on = 0,
           Fits(k)
    PROVE  Sound'
<1>1. AdapterTypeOK'
  BY FaultTyped DEF Sound, AdapterTypeOK
<1>2. /\ \A d \in Callers : call'[d] = IF d = c THEN k ELSE call[d]
      /\ \A d \in Callers : thread'[d] = IF d = c THEN th ELSE thread[d]
  BY DEF Sound, AdapterTypeOK
<1>3. CallsAreSound'
  BY <1>2 DEF Sound, CallsAreSound, Fits
<1> QED
  BY <1>1, <1>3 DEF Sound

First(listing) == [NoCall EXCEPT !.at = "queued", !.attempt = 1, !.listing = listing]

LEMMA NewCall ==
    /\ NoCall \in Call /\ NoCall.at = "idle" /\ NoCall.on = 0 /\ NoCall.requests = 0
    /\ ~NoCall.carried /\ ~NoCall.listing /\ Fits(NoCall)
    /\ \A listing \in BOOLEAN :
          /\ First(listing) \in Call /\ First(listing).at = "queued"
          /\ First(listing).on = 0 /\ First(listing).requests = 0
          /\ First(listing).attempt = 1 /\ First(listing).listing = listing
          /\ First(listing).carried = FALSE /\ Fits(First(listing))
BY Bounds DEF NoCall, First, Fits, Call

LEMMA DisownedTyped ==
    ASSUME Sound, NEW c \in Callers
    PROVE  \E th \in [Threads -> Thread] : Disowned(c) = [thread EXCEPT ![c] = th]
<1> DEFINE th == [n \in Threads |-> [thread[c][n] EXCEPT !.ours = FALSE]]
<1>1. th \in [Threads -> Thread]
  <2>1. \A n \in Threads : thread[c][n] \in Thread
    BY DEF Sound, AdapterTypeOK
  <2> QED
    BY <2>1 DEF Thread
<1>2. Disowned(c) = [thread EXCEPT ![c] = th]
  BY DEF Disowned, Sound, AdapterTypeOK
<1> QED
  BY <1>1, <1>2

LEMMA Began ==
    ASSUME Sound, NEW c \in Callers, NEW listing \in BOOLEAN, Begin(c, listing)
    PROVE  Sound'
<1> DEFINE k == First(listing)
<1>1. PICK th \in [Threads -> Thread] : thread' = [thread EXCEPT ![c] = th]
  BY DisownedTyped DEF Begin
<1>2. call' = [call EXCEPT ![c] = k]
  BY DEF Begin, First
<1>3. k \in Call /\ k.at = "queued" /\ k.on = 0 /\ Fits(k)
  BY NewCall
<1> HIDE DEF k
<1> QED
  BY <1>1, <1>2, <1>3, OneCall DEF Begin

LEMMA Abandoned ==
    ASSUME Sound, NEW c \in Callers, Abandon(c), Fault \/ UNCHANGED faults
    PROVE  Sound'
<1>1. PICK th \in [Threads -> Thread] : thread' = [thread EXCEPT ![c] = th]
  BY DisownedTyped DEF Abandon
<1> QED
  BY <1>1, NewCall, OneCall DEF Abandon

LEMMA Entered ==
    ASSUME Sound, NEW c \in Callers, NEW n \in Threads, Enter(c, n)
    PROVE  Sound'
<1> DEFINE k == [call[c] EXCEPT !.at = "sent", !.on = n]
           t == [at |-> "busy", address |-> 1, ours |-> TRUE]
           th == [thread[c] EXCEPT ![n] = t]
<1>1. k \in Call /\ k.at = "sent" /\ k.on = n /\ Fits(k)
  <2>1. call[c] \in Call /\ n \in 0..PoolSize /\ Fits(call[c])
    BY Bounds, CallFits
  <2> QED
    BY <2>1 DEF Call, Fits
<1>2. t \in Thread /\ t.at # "free" /\ t.ours
  BY Bounds DEF Thread
<1>3. th \in [Threads -> Thread] /\ th[n] = t
  BY <1>2 DEF Sound, AdapterTypeOK
<1>4. call' = [call EXCEPT ![c] = k] /\ thread' = [thread EXCEPT ![c] = th]
  BY DEF Enter
<1>5. th[n].at # "free" /\ th[n].ours
  BY <1>2, <1>3
<1> HIDE DEF k, th, t
<1> QED
  BY <1>1, <1>3, <1>4, <1>5, OneCall DEF Enter

LEMMA TimedOut ==
    ASSUME Sound, NEW c \in Callers, Timeout(c)
    PROVE  Sound'
<1> DEFINE k == Returned(call[c], "TIMEOUT")
<1>1. call[c] \in Call /\ thread[c] \in [Threads -> Thread]
  BY DEF Sound, AdapterTypeOK
<1>2. call' = [call EXCEPT ![c] = k] /\ thread' = [thread EXCEPT ![c] = thread[c]]
  BY DEF Timeout, Sound, AdapterTypeOK
<1>3. Fault \/ UNCHANGED faults
  BY DEF Timeout, Overdue
<1>4. /\ k \in Call /\ k.at \in {"ok", "failed", "backoff"} /\ k.on = 0
      /\ Fits(k) /\ k.at # "ok"
  <2>1. call[c].listing => call[c].attempt = 1
    BY CallFits DEF Fits
  <2> QED
    BY <1>1, <2>1, ReturnedTyped DEF StorageErrorCode
<1> HIDE DEF k
<1> QED
  BY <1>1, <1>2, <1>3, <1>4, OneCall

LEMMA Retried ==
    ASSUME Sound, NEW c \in Callers, Retry(c)
    PROVE  Sound'
<1> DEFINE k == [call[c] EXCEPT !.at = "queued", !.attempt = @ + 1]
<1>1. k \in Call /\ k.at = "queued" /\ k.on = 0 /\ Fits(k)
  BY DEF Sound, AdapterTypeOK, CallsAreSound, Call, Retry, Fits, Last
<1>2. call' = [call EXCEPT ![c] = k] /\ thread' = [thread EXCEPT ![c] = thread[c]]
  BY DEF Retry, Sound, AdapterTypeOK
<1>3. thread[c] \in [Threads -> Thread]
  BY DEF Sound, AdapterTypeOK
<1> HIDE DEF k
<1> QED
  BY <1>1, <1>2, <1>3, OneCall DEF Retry

(* The call of a thread that has sent a request stays sound. *)
LEMMA Counted ==
    ASSUME Sound, NEW c \in Callers, NEW n \in Threads, NEW done \in BOOLEAN,
           NEW k, k = IF thread[c][n].ours THEN Requested(call[c], done) ELSE call[c]
    PROVE  k \in Call /\ k.at = call[c].at /\ k.on = call[c].on /\ Fits(k)
BY CallFits, RequestedTyped

LEMMA Finished ==
    ASSUME Sound, NEW c \in Callers, NEW n \in Threads, NEW done \in BOOLEAN,
           NEW code \in StorageErrorCode \cup {"ok"}, code = "ok" => done,
           Finish(c, n, code, done), Fault \/ UNCHANGED faults
    PROVE  Sound'
<1> DEFINE th == [thread[c] EXCEPT ![n] = Free]
           sent == Requested(call[c], done)
<1>1. th \in [Threads -> Thread] /\ \A m \in Threads \ {n} : th[m] = thread[c][m]
  BY Bounds DEF Sound, AdapterTypeOK, Thread, Free
<1>2. thread' = [thread EXCEPT ![c] = th]
  BY DEF Finish
<1>3. call[c].at = "sent" => /\ call[c].on \in Threads
                             /\ thread[c][call[c].on].at # "free"
                             /\ thread[c][call[c].on].ours
  BY DEF Sound, CallsAreSound
<1>4. call[c].at # "sent" => call[c].on = 0
  BY DEF Sound, CallsAreSound
<1> HIDE DEF th
<1>5. CASE thread[c][n].ours /\ call[c].on = n
  <2> DEFINE k == Returned(sent, code)
  <2>1. call' = [call EXCEPT ![c] = k]
    BY <1>5 DEF Finish
  <2>2. sent \in Call /\ (code = "ok" => sent.carried) /\ (sent.listing => sent.attempt = 1)
    BY CallFits, RequestedTyped DEF Fits
  <2> HIDE DEF sent
  <2>3. k \in Call /\ k.at # "sent" /\ k.on = 0 /\ Fits(k)
    BY <2>2, ReturnedTyped
  <2> HIDE DEF k
  <2> QED
    BY <1>1, <1>2, <2>1, <2>3, OneCall
<1>6. CASE ~(thread[c][n].ours /\ call[c].on = n)
  <2> DEFINE k == IF thread[c][n].ours THEN sent ELSE call[c]
  <2>1. call' = [call EXCEPT ![c] = k]
    BY <1>6 DEF Finish
  <2>2. k \in Call /\ k.at = call[c].at /\ k.on = call[c].on /\ Fits(k)
    BY Counted
  <2>3. k.at = "sent" => k.on \in Threads \ {n}
    BY <1>3, <1>6, <2>2
  <2> HIDE DEF k
  <2> QED
    BY <1>1, <1>2, <1>3, <1>4, <2>1, <2>2, <2>3, OneCall
<1> QED
  BY <1>5, <1>6

LEMMA WentOn ==
    ASSUME Sound, NEW c \in Callers, NEW n \in Threads, NEW done \in BOOLEAN,
           NextAddress(c, n, done), thread[c][n].at # "free", Fault \/ UNCHANGED faults
    PROVE  Sound'
<1> DEFINE t == [thread[c][n] EXCEPT !.address = thread[c][n].address + 1, !.at = "busy"]
           th == [thread[c] EXCEPT ![n] = t]
           k == IF thread[c][n].ours THEN Requested(call[c], done) ELSE call[c]
<1>1. t \in Thread /\ t.at = "busy" /\ t.ours = thread[c][n].ours
  <2>1. thread[c][n] \in Thread /\ thread[c][n].address < Addresses
    BY DEF Sound, AdapterTypeOK, NextAddress
  <2>2. thread[c][n].address + 1 \in 0..Addresses
    BY <2>1 DEF Thread
  <2> QED
    BY <2>1, <2>2 DEF Thread
<1>2. /\ th \in [Threads -> Thread] /\ th[n] = t
      /\ \A m \in Threads \ {n} : th[m] = thread[c][m]
  BY <1>1 DEF Sound, AdapterTypeOK
<1>3. call' = [call EXCEPT ![c] = k] /\ thread' = [thread EXCEPT ![c] = th]
  BY DEF NextAddress
<1>4. k \in Call /\ k.at = call[c].at /\ k.on = call[c].on /\ Fits(k)
  BY Counted
<1>5. /\ call[c].at = "sent" => /\ call[c].on \in Threads
                                /\ thread[c][call[c].on].at # "free"
                                /\ thread[c][call[c].on].ours
      /\ call[c].at # "sent" => call[c].on = 0
  BY DEF Sound, CallsAreSound
<1> HIDE DEF t, th, k
<1>6. k.at = "sent" => k.on \in Threads /\ th[k.on].at # "free" /\ th[k.on].ours
  BY <1>1, <1>2, <1>4, <1>5
<1> QED
  BY <1>2, <1>3, <1>4, <1>5, <1>6, OneCall

LEMMA Hung ==
    ASSUME Sound, NEW c \in Callers, NEW n \in Threads, Fault, UNCHANGED call,
           thread' = [thread EXCEPT ![c][n].at = "hung"]
    PROVE  Sound'
<1> DEFINE t == [thread[c][n] EXCEPT !.at = "hung"]
           th == [thread[c] EXCEPT ![n] = t]
<1>1. t \in Thread /\ t.at = "hung" /\ t.ours = thread[c][n].ours
  <2>1. thread[c][n] \in Thread
    BY DEF Sound, AdapterTypeOK
  <2> QED
    BY <2>1 DEF Thread
<1>2. /\ th \in [Threads -> Thread] /\ th[n] = t
      /\ \A m \in Threads \ {n} : th[m] = thread[c][m]
  BY <1>1 DEF Sound, AdapterTypeOK
<1>3. /\ call' = [call EXCEPT ![c] = call[c]] /\ call[c] \in Call
      /\ thread' = [thread EXCEPT ![c] = th]
  BY DEF Sound, AdapterTypeOK
<1> HIDE DEF t, th
<1>4. call[c].at = "sent" =>
        call[c].on \in Threads /\ th[call[c].on].at # "free" /\ th[call[c].on].ours
  BY <1>1, <1>2 DEF Sound, CallsAreSound
<1>5. (call[c].at # "sent" => call[c].on = 0) /\ Fits(call[c])
  BY CallFits DEF Sound, CallsAreSound
<1> QED
  BY <1>2, <1>3, <1>4, <1>5, OneCall

LEMMA Exchanged ==
    ASSUME Sound, NEW c \in Callers, NEW n \in Threads,
           Exchange(c, n) \/ SocketTimeout(c, n)
    PROVE  Sound'
<1>1. ASSUME Finish(c, n, "ok", TRUE), UNCHANGED faults PROVE Sound'
  BY <1>1, Finished
<1>2. ASSUME NEW done \in BOOLEAN, Finish(c, n, "refused", done),
             Fault \/ UNCHANGED faults
      PROVE  Sound'
  BY <1>2, Finished DEF StorageErrorCode
<1>3. ASSUME NEW done \in BOOLEAN, Finish(c, n, "TEMPORARY_UNAVAILABLE", done),
             Fault \/ UNCHANGED faults
      PROVE  Sound'
  BY <1>3, Finished DEF StorageErrorCode
<1>4. ASSUME NEW done \in BOOLEAN, NextAddress(c, n, done), thread[c][n].at # "free",
             Fault \/ UNCHANGED faults
      PROVE  Sound'
  BY <1>4, WentOn
<1>5. CASE Exchange(c, n)
  BY <1>1, <1>2, <1>3, <1>4, <1>5, Hung DEF Exchange
<1>6. CASE SocketTimeout(c, n)
  BY <1>3, <1>4, <1>6 DEF SocketTimeout
<1> QED
  BY <1>5, <1>6

LEMMA AdapterKeepsSound ==
    ASSUME Sound, AdapterNext
    PROVE  Sound'
BY TimedOut, Retried, Entered, Exchanged DEF AdapterNext

LEMMA Restarted ==
    ASSUME Sound, NEW c \in Callers, Fault,
           call' = [call EXCEPT ![c] = NoCall],
           thread' = [thread EXCEPT ![c] = [n \in Threads |-> Free]]
    PROVE  Sound'
<1>1. [n \in Threads |-> Free] \in [Threads -> Thread]
  BY Bounds DEF Thread, Free
<1> QED
  BY <1>1, NewCall, OneCall

----------------------------------------------------------------------------
(* Only a caller that waits has its call changed, and none comes to list   *)
(* what it did not list.                                                   *)
Continues(d) ==
    /\ call'[d].listing = call[d].listing
    /\ call'[d].at # call[d].at => Calling(d)

LEMMA AdapterContinues ==
    ASSUME Sound, AdapterNext, NEW d \in Callers
    PROVE  Continues(d)
<1> USE DEF Sound, AdapterTypeOK, Calling, Continues
<1>0. call[d] \in Call
  OBVIOUS
<1>1. ASSUME NEW c \in Callers, Timeout(c) PROVE Continues(d)
  <2>1. CASE c = d
    <3>1. call'[d].listing = call[d].listing
      <4>1. call'[d] = Returned(call[d], "TIMEOUT")
        BY <1>1, <2>1 DEF Timeout
      <4> QED
        BY <4>1, <1>0, CallFits, ReturnedTyped DEF Fits, StorageErrorCode
    <3> QED
      BY <1>1, <2>1, <3>1 DEF Timeout
  <2>2. CASE c # d
    BY <1>1, <2>2 DEF Timeout
  <2> QED
    BY <2>1, <2>2
<1>2. ASSUME NEW c \in Callers, Retry(c) PROVE Continues(d)
  BY <1>0, <1>2 DEF Retry, Call
<1>3. ASSUME NEW c \in Callers, NEW n \in Threads, Enter(c, n) PROVE Continues(d)
  BY <1>0, <1>3 DEF Enter, Call
<1>4. ASSUME NEW c \in Callers, NEW n \in Threads, NEW done \in BOOLEAN,
             NextAddress(c, n, done)
      PROVE  Continues(d)
  BY <1>4, RequestedTyped DEF NextAddress
<1>5. ASSUME NEW c \in Callers, NEW n \in Threads, NEW done \in BOOLEAN,
             NEW code \in StorageErrorCode \cup {"ok"}, code = "ok" => done,
             Finish(c, n, code, done)
      PROVE  Continues(d)
  <2>0. CASE c # d
    BY <1>5, <2>0 DEF Finish
  <2>1. CASE c = d /\ thread[c][n].ours /\ call[c].on = n
    <3>1. call[d].at = "sent"
      BY <2>1, Bounds DEF CallsAreSound
    <3>2. call'[d] = Returned(Requested(call[d], done), code)
      BY <1>5, <2>1 DEF Finish
    <3>3. call'[d].listing = call[d].listing
      BY <1>0, <1>5, <3>2, CallFits, RequestedTyped, ReturnedTyped DEF Fits
    <3> QED
      BY <3>1, <3>3
  <2>2. CASE c = d /\ ~(thread[c][n].ours /\ call[c].on = n)
    BY <1>5, <2>2, RequestedTyped DEF Finish
  <2> QED
    BY <2>0, <2>1, <2>2
<1>6. ASSUME NEW c \in Callers, NEW n \in Threads, Exchange(c, n) PROVE Continues(d)
  BY <1>4, <1>5, <1>6 DEF Exchange, StorageErrorCode
<1>7. ASSUME NEW c \in Callers, NEW n \in Threads, SocketTimeout(c, n) PROVE Continues(d)
  BY <1>4, <1>5, <1>7 DEF SocketTimeout, StorageErrorCode
<1> QED
  BY <1>1, <1>2, <1>3, <1>6, <1>7 DEF AdapterNext

(* Of the steps of a worker, each keeps the calls sound. *)
LEMMA WorkerKeepsSound ==
    ASSUME IInv, NEW r \in Runners,
           \/ Start(r) \/ CallStorage(r) \/ List(r) \/ PassEnds(r) \/ PassFails(r)
           \/ PassTimesOut(r) \/ Unlock(r) \/ LoseConnection(r) \/ Restart(r)
    PROVE  Sound'
<1> Sound
  BY DEF IInv, Sound, TypeOK
<1>1. ASSUME UNCHANGED <<call, thread>>, Fault \/ UNCHANGED faults PROVE Sound'
  BY <1>1, FaultTyped DEF Sound, AdapterTypeOK, CallsAreSound
<1>2. CASE Start(r) \/ PassEnds(r) \/ Unlock(r)
  BY <1>1, <1>2 DEF Start, PassEnds, Unlock, adapterVars
<1>3. CASE LoseConnection(r)
  BY <1>1, <1>3 DEF LoseConnection
<1>4. CASE CallStorage(r) \/ List(r)
  BY <1>4, Began DEF CallStorage, List, Runners
<1>5. CASE PassTimesOut(r) \/ PassFails(r)
  BY <1>5, Abandoned DEF PassTimesOut, PassFails, Overdue, Runners
<1>6. CASE Restart(r)
  BY <1>6, Restarted DEF Restart, Runners
<1> QED
  BY <1>2, <1>3, <1>4, <1>5, <1>6

(* The part of the invariant about workers and their lock. *)
Workers ==
    /\ runner \in [Runners -> {"sleeping", "pass", "listing", "completed", "failed"}]
    /\ left \in [Runners -> 0..MaxCalls]
    /\ lost \subseteq Runners
    /\ lock \in Runners \cup {None}
    /\ heartbeat \in BOOLEAN
    /\ PassesExclude /\ HeldByIteration /\ CallsInPass

LEMMA AdapterKeepsWorkers ==
    ASSUME IInv, AdapterNext, UNCHANGED runnerVars
    PROVE  Workers'
<1> Sound
  BY DEF IInv, Sound, TypeOK
<1>1. CallsInPass'
  <2>1. \A d \in Callers : Continues(d)
    BY AdapterContinues
  <2> QED
    BY <2>1 DEF Continues, IInv, CallsInPass, runnerVars, Runners, Calling, InPass, ListingFailed
<1> QED
  BY <1>1 DEF IInv, TypeOK, Workers, runnerVars, PassesExclude, HeldByIteration

(* A step that touches no call but r's, and leaves r none.                 *)
LEMMA OthersCall ==
    ASSUME IInv, NEW r \in Runners, call' = [call EXCEPT ![r] = NoCall],
           \A s \in Runners \ {r} : runner'[s] = runner[s]
    PROVE  CallsInPass'
<1>1. call \in [Callers -> Call]
  BY DEF IInv, TypeOK, AdapterTypeOK
<1>2. \A s \in Callers : call'[s] = IF s = r THEN NoCall ELSE call[s]
  BY <1>1 DEF Runners
<1>3. ~Calling(r)' /\ ~ListingFailed(r)'
  BY <1>2, NewCall DEF Calling, ListingFailed, Runners
<1> QED
  BY <1>2, <1>3 DEF IInv, CallsInPass, Calling, ListingFailed, InPass, Runners

(* A call begins in a pass, a listing in its listing. *)
LEMMA PassCalls ==
    ASSUME IInv, NEW r \in Runners, NEW listing \in BOOLEAN, Begin(r, listing),
           \A s \in Runners \ {r} : runner'[s] = runner[s],
           runner'[r] \in {"pass", "listing"}, listing => runner'[r] = "listing"
    PROVE  CallsInPass'
<1>1. call \in [Callers -> Call]
  BY DEF IInv, TypeOK, AdapterTypeOK
<1>2. \A s \in Callers : call'[s] = IF s = r THEN First(listing) ELSE call[s]
  BY <1>1 DEF Runners, Begin, First
<1>3. Calling(r)' /\ ~ListingFailed(r)' /\ call'[r].listing = listing
  BY <1>2, NewCall DEF Calling, ListingFailed, Runners
<1> QED
  BY <1>2, <1>3 DEF IInv, CallsInPass, Calling, ListingFailed, InPass, Runners

LEMMA WorkerKeepsWorkers ==
    ASSUME IInv, NEW r \in Runners,
           \/ Start(r) \/ CallStorage(r) \/ List(r) \/ PassEnds(r) \/ PassFails(r)
           \/ PassTimesOut(r) \/ Unlock(r) \/ LoseConnection(r) \/ Restart(r)
    PROVE  Workers'
<1> USE DEF IInv, TypeOK, Workers, PassesExclude, HeldByIteration
<1> r # None /\ r \in Callers /\ None \notin Runners
  BY DEF Runners
<1>0. left[r] \in 0..MaxCalls /\ (left[r] > 0 => left[r] - 1 \in 0..MaxCalls)
  OBVIOUS
<1>1. CASE Start(r)
  BY <1>1 DEF Start, Goes, Acquired, adapterVars, Calling, CallsInPass, InPass, ListingFailed
<1>2. CASE CallStorage(r)
  <2>1. CallsInPass'
    BY <1>2, PassCalls DEF CallStorage, InPass
  <2>2. left' \in [Runners -> 0..MaxCalls]
    BY <1>0, <1>2 DEF CallStorage, Spend
  <2> QED
    BY <1>2, <2>1, <2>2 DEF CallStorage
<1>3. CASE List(r)
  <2>1. CallsInPass'
    BY <1>3, PassCalls DEF List, Goes
  <2>2. left' \in [Runners -> 0..MaxCalls]
    BY <1>0, <1>3 DEF List, Spend
  <2> QED
    BY <1>3, <2>1, <2>2 DEF List, Goes, InPass
<1>4. CASE PassEnds(r)
  BY <1>4 DEF PassEnds, Goes, adapterVars, Calling, CallsInPass, InPass, ListingFailed
<1>5. CASE PassFails(r) \/ PassTimesOut(r)
  <2>1. CallsInPass'
    BY <1>5, OthersCall DEF PassFails, PassTimesOut, Abandon, Goes
  <2> QED
    BY <1>5, <2>1 DEF PassFails, PassTimesOut, Goes, InPass
<1>6. CASE Unlock(r)
  BY <1>6 DEF Unlock, Unlocked, Goes, LoopGoesOn, adapterVars, Calling, CallsInPass, InPass,
              ListingFailed
<1>7. CASE LoseConnection(r)
  BY <1>7 DEF LoseConnection, Calling, CallsInPass, InPass, ListingFailed
<1>8. CASE Restart(r)
  <2>1. CallsInPass'
    BY <1>8, OthersCall DEF Restart, Goes
  <2> QED
    BY <1>8, <2>1 DEF Restart, Goes
<1> QED
  BY <1>1, <1>2, <1>3, <1>4, <1>5, <1>6, <1>7, <1>8

----------------------------------------------------------------------------
(* Arithmetic of the budget. *)
LEMMA Product ==
    ASSUME NEW a \in Nat, NEW b \in Nat, a <= b
    PROVE  /\ a * Addresses \in Nat
           /\ (a + 1) * Addresses = a * Addresses + Addresses
           /\ a * Addresses <= b * Addresses
<1>1. b - a \in Nat /\ b = a + (b - a)
  OBVIOUS
<1>2. \A d \in Nat : (a + d) * Addresses = a * Addresses + d * Addresses
                     /\ d * Addresses \in Nat /\ a * Addresses \in Nat
  OBVIOUS
<1> QED
  BY <1>1, <1>2

LEMMA GrantedBounds ==
    ASSUME NEW k \in Call, k.at = "queued" => k.attempt >= 1
    PROVE  /\ Granted(k) \in Nat
           /\ Granted(k) <= MaxAttempts * Addresses
           /\ k.at # "queued" => Granted(k) = k.attempt * Addresses
           /\ k.at = "queued" => Granted(k) + Addresses = k.attempt * Addresses
<1>1. k.attempt \in Nat /\ k.attempt <= MaxAttempts
  BY DEF Call
<1>2. CASE k.at = "queued"
  <2>1. k.attempt - 1 \in Nat /\ k.attempt - 1 <= MaxAttempts /\ (k.attempt - 1) + 1 = k.attempt
    BY <1>1, <1>2
  <2>2. Granted(k) = (k.attempt - 1) * Addresses
    BY <1>2 DEF Granted
  <2> QED
    BY <1>2, <2>1, <2>2, Product
<1>3. CASE k.at # "queued"
  BY <1>1, <1>3, Product DEF Granted
<1> QED
  BY <1>2, <1>3

LEMMA AheadFinite ==
    ASSUME NEW th
    PROVE  /\ Ahead(th) \subseteq Threads \X (1..Addresses)
           /\ IsFiniteSet(Ahead(th)) /\ Cardinality(Ahead(th)) \in Nat
<1>1. IsFiniteSet(Threads \X (1..Addresses))
  <2>1. IsFiniteSet(1..PoolSize) /\ IsFiniteSet(1..Addresses)
    BY FS_Interval
  <2> QED
    BY <2>1, FS_Product DEF Threads
<1>2. Ahead(th) \subseteq Threads \X (1..Addresses)
  BY DEF Ahead
<1> QED
  BY <1>1, <1>2, FS_Subset, FS_CardinalityType

(* Threads that get no further addresses send no more requests. *)
LEMMA AheadShrinks ==
    ASSUME NEW th, NEW new, Ahead(new) \subseteq Ahead(th)
    PROVE  Cardinality(Ahead(new)) <= Cardinality(Ahead(th))
BY AheadFinite, FS_Subset

(* One that has sent a request has one less ahead. *)
LEMMA AheadSpent ==
    ASSUME NEW th, NEW new, NEW x \in Ahead(th), Ahead(new) \subseteq Ahead(th) \ {x}
    PROVE  Cardinality(Ahead(new)) + 1 <= Cardinality(Ahead(th))
<1>1. /\ IsFiniteSet(Ahead(th) \ {x})
      /\ Cardinality(Ahead(th) \ {x}) = Cardinality(Ahead(th)) - 1
  BY AheadFinite, FS_RemoveElement
<1>2. Cardinality(Ahead(new)) <= Cardinality(Ahead(th) \ {x})
  BY <1>1, FS_Subset
<1> QED
  BY <1>1, <1>2, AheadFinite

(* A thread that starts has every address ahead. *)
LEMMA AheadOpens ==
    ASSUME NEW th, NEW new, NEW n \in Threads,
           Ahead(new) \subseteq Ahead(th) \cup ({n} \X (1..Addresses))
    PROVE  Cardinality(Ahead(new)) <= Cardinality(Ahead(th)) + Addresses
<1> DEFINE P == {n} \X (1..Addresses)
<1>1. IsFiniteSet(P) /\ Cardinality(P) = Addresses
  <2>1. IsFiniteSet({n}) /\ Cardinality({n}) = 1
    BY FS_Singleton
  <2>2. IsFiniteSet(1..Addresses) /\ Cardinality(1..Addresses) = Addresses
    BY FS_Interval
  <2>3. IsFiniteSet(P) /\ Cardinality(P) = 1 * Addresses
    BY <2>1, <2>2, FS_Product
  <2> QED
    BY <2>3
<1> HIDE DEF P
<1>2. /\ IsFiniteSet(Ahead(th) \cup P)
      /\ Cardinality(Ahead(th) \cup P)
           = Cardinality(Ahead(th)) + Cardinality(P) - Cardinality(Ahead(th) \cap P)
  BY <1>1, AheadFinite, FS_Union
<1>3. Cardinality(Ahead(th) \cap P) \in Nat
  BY AheadFinite, FS_Intersection, FS_CardinalityType
<1>4. Cardinality(Ahead(new)) <= Cardinality(Ahead(th) \cup P)
  BY <1>2, FS_Subset DEF P
<1> QED
  BY <1>1, <1>2, <1>3, <1>4, AheadFinite

(* A step that gives one caller another call and other threads keeps the   *)
(* requests bounded if the new ones stay within the budget.                *)
LEMMA OneBudget ==
    ASSUME Sound, RequestsBounded, NEW c \in Callers, NEW k, NEW th,
           call' = [call EXCEPT ![c] = k],
           thread' = [thread EXCEPT ![c] = th],
           Budget(k, th)
    PROVE  RequestsBounded'
<1>1. /\ \A d \in Callers : call'[d] = IF d = c THEN k ELSE call[d]
      /\ \A d \in Callers : thread'[d] = IF d = c THEN th ELSE thread[d]
  BY DEF Sound, AdapterTypeOK
<1>2. \A d \in Callers : Budget(call'[d], thread'[d])
  BY <1>1 DEF RequestsBounded
<1> QED
  BY <1>2 DEF RequestsBounded

(* Nobody's threads have nothing ahead. *)
LEMMA NothingAhead ==
    ASSUME NEW th, \A n \in Threads : th[n].at = "free" \/ ~th[n].ours
    PROVE  Cardinality(Ahead(th)) = 0
<1>1. Ahead(th) = {}
  BY DEF Ahead
<1> QED
  BY <1>1, FS_EmptySet

LEMMA DisownedBudget ==
    ASSUME Sound, RequestsBounded, NEW c \in Callers, NEW k \in Call,
           call' = [call EXCEPT ![c] = k], thread' = Disowned(c),
           k.requests = 0, k.at = "queued" => k.attempt >= 1
    PROVE  RequestsBounded'
<1> DEFINE th == [n \in Threads |-> [thread[c][n] EXCEPT !.ours = FALSE]]
<1>1. thread' = [thread EXCEPT ![c] = th]
  BY DEF Disowned, Sound, AdapterTypeOK
<1>2. \A n \in Threads : /\ ~th[n].ours /\ th[n].at = thread[c][n].at
                         /\ th[n].address = thread[c][n].address
  <2>1. \A n \in Threads : thread[c][n] \in Thread
    BY DEF Sound, AdapterTypeOK
  <2> QED
    BY <2>1 DEF Thread
<1> HIDE DEF th
<1>3. Budget(k, th)
  BY <1>2, NothingAhead, GrantedBounds DEF RequestsBounded, Budget
<1> QED
  BY <1>1, <1>3, OneBudget

LEMMA EnteredBudget ==
    ASSUME Sound, RequestsBounded, NEW c \in Callers, NEW n \in Threads, Enter(c, n)
    PROVE  RequestsBounded'
<1> DEFINE k == [call[c] EXCEPT !.at = "sent", !.on = n]
           th == [thread[c] EXCEPT ![n] = [at |-> "busy", address |-> 1, ours |-> TRUE]]
<1>1. call[c] \in Call /\ thread[c] \in [Threads -> Thread] /\ Budget(call[c], thread[c])
  BY DEF Sound, AdapterTypeOK, RequestsBounded
<1>2. /\ k \in Call /\ k.at = "sent" /\ k.attempt = call[c].attempt
      /\ k.requests = call[c].requests
  BY <1>1, Bounds DEF Call
<1>3. /\ \A m \in Threads \ {n} : th[m] = thread[c][m]
      /\ th[n].address = 1
  BY <1>1
<1>4. call' = [call EXCEPT ![c] = k] /\ thread' = [thread EXCEPT ![c] = th]
  BY DEF Enter
<1> HIDE DEF k, th
<1>5. Ahead(th) \subseteq Ahead(thread[c]) \cup ({n} \X (1..Addresses))
  BY <1>3 DEF Ahead
<1>6. Cardinality(Ahead(th)) <= Cardinality(Ahead(thread[c])) + Addresses
  BY <1>5, AheadOpens
<1>7. Granted(k) = Granted(call[c]) + Addresses /\ Granted(k) \in Nat
  BY <1>1, <1>2, GrantedBounds DEF Enter, Budget
<1>8. call[c].requests \in Nat
  BY <1>1 DEF Call
<1>9. Budget(k, th)
  BY <1>1, <1>2, <1>3, <1>6, <1>7, <1>8, AheadFinite, GrantedBounds DEF Budget, Enter
<1> QED
  BY <1>4, <1>9, OneBudget

(* An attempt that is given up or made again sends nothing. *)
LEMMA SameThreadsBudget ==
    ASSUME Sound, RequestsBounded, NEW c \in Callers, NEW k \in Call,
           call' = [call EXCEPT ![c] = k], UNCHANGED thread,
           k.requests = call[c].requests,
           k.at = "queued" => k.attempt >= 1,
           Granted(call[c]) <= Granted(k)
    PROVE  RequestsBounded'
<1>1. call[c] \in Call /\ Budget(call[c], thread[c])
  BY DEF Sound, AdapterTypeOK, RequestsBounded
<1>2. thread' = [thread EXCEPT ![c] = thread[c]]
  BY DEF Sound, AdapterTypeOK
<1>3. Budget(k, thread[c])
  BY <1>1, GrantedBounds, AheadFinite DEF Budget, Call
<1> QED
  BY <1>2, <1>3, OneBudget

LEMMA TimedOutBudget ==
    ASSUME Sound, RequestsBounded, NEW c \in Callers, Timeout(c)
    PROVE  RequestsBounded'
<1> DEFINE k == Returned(call[c], "TIMEOUT")
<1>1. call[c] \in Call /\ Budget(call[c], thread[c])
  BY DEF Sound, AdapterTypeOK, RequestsBounded
<1>2. k \in Call /\ k.at \in {"ok", "failed", "backoff"}
  BY <1>1, CallFits, ReturnedTyped DEF StorageErrorCode, Fits
<1>3. k.requests = call[c].requests /\ k.attempt = call[c].attempt
  BY <1>1 DEF Returned, Call
<1>4. call' = [call EXCEPT ![c] = k] /\ UNCHANGED thread
  BY DEF Timeout
<1> HIDE DEF k
<1>5. Granted(call[c]) <= Granted(k)
  BY <1>1, <1>2, <1>3, GrantedBounds DEF Budget
<1> QED
  BY <1>2, <1>3, <1>4, <1>5, SameThreadsBudget

LEMMA RetriedBudget ==
    ASSUME Sound, RequestsBounded, NEW c \in Callers, Retry(c)
    PROVE  RequestsBounded'
<1> DEFINE k == [call[c] EXCEPT !.at = "queued", !.attempt = @ + 1]
<1>1. call[c] \in Call /\ Budget(call[c], thread[c])
  BY DEF Sound, AdapterTypeOK, RequestsBounded
<1>2. /\ k \in Call /\ k.at = "queued" /\ k.attempt = call[c].attempt + 1
      /\ k.requests = call[c].requests
  BY DEF Sound, AdapterTypeOK, CallsAreSound, Call, Retry, Last
<1>3. call' = [call EXCEPT ![c] = k] /\ UNCHANGED thread
  BY DEF Retry
<1> HIDE DEF k
<1>4. call[c].attempt \in Nat /\ call[c].at # "queued"
  BY <1>1 DEF Call, Retry
<1>5. Granted(k) = Granted(call[c])
  BY <1>1, <1>2, <1>4 DEF Granted
<1>6. Granted(call[c]) <= Granted(k)
  BY <1>1, <1>4, <1>5, GrantedBounds
<1>7. k.at = "queued" => k.attempt >= 1
  BY <1>2, <1>4
<1> QED
  BY <1>2, <1>3, <1>6, <1>7, SameThreadsBudget

(* A thread that works for the call has a request ahead, which the budget  *)
(* covers.                                                                 *)
LEMMA OneAhead ==
    ASSUME Sound, RequestsBounded, NEW c \in Callers, NEW n \in Threads,
           thread[c][n].ours, thread[c][n].at # "free"
    PROVE  /\ <<n, thread[c][n].address>> \in Ahead(thread[c])
           /\ call[c].requests < MaxAttempts * Addresses
<1>1. call[c] \in Call /\ thread[c][n] \in Thread /\ Budget(call[c], thread[c])
  BY DEF Sound, AdapterTypeOK, RequestsBounded
<1>2. thread[c][n].address \in 1..Addresses
  BY <1>1 DEF Budget, Thread
<1>3. <<n, thread[c][n].address>> \in Ahead(thread[c])
  BY <1>2 DEF Ahead
<1>4. Cardinality(Ahead(thread[c])) >= 1
  <2>1. Ahead(thread[c]) # {}
    BY <1>3
  <2> QED
    BY <2>1, AheadFinite, FS_EmptySet
<1>5. Granted(call[c]) \in Nat /\ Granted(call[c]) <= MaxAttempts * Addresses
  BY <1>1, GrantedBounds DEF Budget
<1>6. MaxAttempts * Addresses \in Nat /\ call[c].requests \in Nat
  BY <1>1, Product DEF Call
<1> QED
  BY <1>1, <1>3, <1>4, <1>5, <1>6, AheadFinite DEF Budget

(* A request that is sent moves from what is ahead to what was sent. *)
LEMMA SentBudget ==
    ASSUME Sound, RequestsBounded, NEW c \in Callers, NEW n \in Threads,
           NEW k \in Call, NEW t \in Thread,
           thread[c][n].at # "free",
           call' = [call EXCEPT ![c] = k], thread' = [thread EXCEPT ![c][n] = t],
           t.at = "free" \/ (t.ours = thread[c][n].ours /\ t.address > thread[c][n].address),
           k.requests = IF thread[c][n].ours THEN call[c].requests + 1 ELSE call[c].requests,
           k.attempt = call[c].attempt, (k.at = "queued" <=> call[c].at = "queued")
    PROVE  RequestsBounded'
<1> DEFINE th == [thread[c] EXCEPT ![n] = t]
<1>1. /\ call[c] \in Call /\ thread[c] \in [Threads -> Thread]
      /\ Budget(call[c], thread[c])
  BY DEF Sound, AdapterTypeOK, RequestsBounded
<1>2. thread' = [thread EXCEPT ![c] = th]
  OBVIOUS
<1>3. \A m \in Threads : th[m] = IF m = n THEN t ELSE thread[c][m]
  BY <1>1
<1> HIDE DEF th
<1>4. Granted(k) = Granted(call[c]) /\ Granted(k) \in Nat
  BY <1>1, GrantedBounds DEF Granted, Budget
<1>5. thread[c][n].address \in Nat /\ t.address \in Nat
  BY <1>1 DEF Thread
<1>6. Ahead(th) \subseteq Ahead(thread[c])
  BY <1>3, <1>5 DEF Ahead
<1>7. k.requests + Cardinality(Ahead(th))
        <= call[c].requests + Cardinality(Ahead(thread[c]))
  <2>1. call[c].requests \in Nat
    BY <1>1 DEF Call
  <2>2. CASE thread[c][n].ours
    <3> DEFINE x == <<n, thread[c][n].address>>
    <3>1. x \in Ahead(thread[c])
      BY <2>2, OneAhead
    <3>2. x \notin Ahead(th)
      BY <1>3, <1>5 DEF Ahead
    <3>3. Cardinality(Ahead(th)) + 1 <= Cardinality(Ahead(thread[c]))
      BY <1>6, <3>1, <3>2, AheadSpent
    <3> QED
      BY <2>1, <2>2, <3>3, AheadFinite
  <2>3. CASE ~thread[c][n].ours
    BY <1>6, <2>1, <2>3, AheadShrinks, AheadFinite
  <2> QED
    BY <2>2, <2>3
<1>8. \A m \in Threads : th[m].at # "free" => th[m].address >= 1
  BY <1>1, <1>3, <1>5 DEF Budget
<1>9. Budget(k, th)
  BY <1>1, <1>4, <1>7, <1>8, AheadFinite DEF Budget, Call
<1> QED
  BY <1>2, <1>9, OneBudget

LEMMA FinishedBudget ==
    ASSUME Sound, RequestsBounded, NEW c \in Callers, NEW n \in Threads,
           NEW done \in BOOLEAN, NEW code \in StorageErrorCode \cup {"ok"},
           code = "ok" => done,
           thread[c][n].at # "free", Finish(c, n, code, done)
    PROVE  RequestsBounded'
<1> DEFINE sent == Requested(call[c], done)
           k == IF ~thread[c][n].ours THEN call[c]
                ELSE IF call[c].on = n THEN Returned(sent, code) ELSE sent
<1>1. call[c] \in Call
  BY DEF Sound, AdapterTypeOK
<1>2. /\ sent \in Call /\ sent.at = call[c].at /\ sent.attempt = call[c].attempt
      /\ code = "ok" => sent.carried
      /\ sent.listing => sent.attempt = 1
  BY <1>1, CallFits, RequestedTyped DEF Fits
<1>3. sent.requests = call[c].requests + 1
  BY <1>1 DEF Requested, Call
<1> HIDE DEF sent
<1>4. /\ Returned(sent, code) \in Call
      /\ Returned(sent, code).at \in {"ok", "failed", "backoff"}
  BY <1>2, ReturnedTyped
<1>5. /\ Returned(sent, code).requests = sent.requests
      /\ Returned(sent, code).attempt = sent.attempt
  BY <1>2 DEF Returned, Call
<1>6. call[c].on = n => call[c].at = "sent"
  BY Bounds DEF Sound, CallsAreSound
<1>7. /\ k \in Call /\ k.attempt = call[c].attempt
      /\ k.requests = IF thread[c][n].ours THEN call[c].requests + 1 ELSE call[c].requests
      /\ k.at = "queued" <=> call[c].at = "queued"
  BY <1>1, <1>2, <1>3, <1>4, <1>5, <1>6
<1>8. Free \in Thread /\ Free.at = "free"
  BY Bounds DEF Free, Thread
<1>9. call' = [call EXCEPT ![c] = k] /\ thread' = [thread EXCEPT ![c][n] = Free]
  BY DEF Finish, sent
<1> HIDE DEF k
<1> QED
  BY <1>7, <1>8, <1>9, SentBudget

LEMMA WentOnBudget ==
    ASSUME Sound, RequestsBounded, NEW c \in Callers, NEW n \in Threads,
           NEW done \in BOOLEAN, NextAddress(c, n, done), thread[c][n].at # "free"
    PROVE  RequestsBounded'
<1> DEFINE t == [thread[c][n] EXCEPT !.address = thread[c][n].address + 1, !.at = "busy"]
           k == IF thread[c][n].ours THEN Requested(call[c], done) ELSE call[c]
<1>1. call[c] \in Call /\ thread[c][n] \in Thread /\ thread[c][n].address < Addresses
  BY DEF Sound, AdapterTypeOK, NextAddress
<1>2. t \in Thread /\ t.ours = thread[c][n].ours /\ t.address > thread[c][n].address
  <2>1. thread[c][n].address \in Nat /\ thread[c][n].address + 1 \in 0..Addresses
    BY <1>1 DEF Thread
  <2>2. /\ t \in Thread /\ t.ours = thread[c][n].ours
        /\ t.address = thread[c][n].address + 1
    BY <1>1, <2>1 DEF Thread
  <2> QED
    BY <2>1, <2>2
<1>3. /\ k \in Call /\ k.at = call[c].at
      /\ k.attempt = call[c].attempt
      /\ k.requests = IF thread[c][n].ours THEN call[c].requests + 1 ELSE call[c].requests
  <2>1. Requested(call[c], done).requests = call[c].requests + 1
    BY <1>1 DEF Requested, Call
  <2> QED
    BY <1>1, <2>1, RequestedTyped
<1>4. call' = [call EXCEPT ![c] = k] /\ thread' = [thread EXCEPT ![c][n] = t]
  BY DEF NextAddress
<1> HIDE DEF t, k
<1> QED
  BY <1>2, <1>3, <1>4, SentBudget

LEMMA HungBudget ==
    ASSUME Sound, RequestsBounded, NEW c \in Callers, NEW n \in Threads,
           thread[c][n].at = "busy", UNCHANGED call,
           thread' = [thread EXCEPT ![c][n].at = "hung"]
    PROVE  RequestsBounded'
<1> DEFINE th == [thread[c] EXCEPT ![n].at = "hung"]
<1>1. /\ call[c] \in Call /\ thread[c] \in [Threads -> Thread]
      /\ Budget(call[c], thread[c])
  BY DEF Sound, AdapterTypeOK, RequestsBounded
<1>2. call' = [call EXCEPT ![c] = call[c]] /\ thread' = [thread EXCEPT ![c] = th]
  BY DEF Sound, AdapterTypeOK
<1>3. \A m \in Threads : /\ th[m].ours = thread[c][m].ours
                         /\ th[m].address = thread[c][m].address
                         /\ th[m].at # "free" <=> thread[c][m].at # "free"
  BY <1>1 DEF Thread
<1> HIDE DEF th
<1>4. Ahead(th) = Ahead(thread[c])
  BY <1>3 DEF Ahead
<1>5. Budget(call[c], th)
  BY <1>1, <1>3, <1>4 DEF Budget
<1> QED
  BY <1>2, <1>5, OneBudget

LEMMA ExchangedBudget ==
    ASSUME Sound, RequestsBounded, NEW c \in Callers, NEW n \in Threads,
           Exchange(c, n) \/ SocketTimeout(c, n)
    PROVE  RequestsBounded'
<1>1. thread[c][n].at # "free"
  BY DEF Exchange, SocketTimeout
<1>2. ASSUME NEW code \in StorageErrorCode \cup {"ok"}, NEW done \in BOOLEAN,
             code = "ok" => done, Finish(c, n, code, done)
      PROVE  RequestsBounded'
  BY <1>1, <1>2, FinishedBudget
<1>3. ASSUME NEW done \in BOOLEAN, NextAddress(c, n, done) PROVE RequestsBounded'
  BY <1>1, <1>3, WentOnBudget
<1>4. CASE Exchange(c, n)
  BY <1>2, <1>3, <1>4, HungBudget DEF Exchange, StorageErrorCode
<1>5. CASE SocketTimeout(c, n)
  BY <1>2, <1>3, <1>5 DEF SocketTimeout, StorageErrorCode
<1> QED
  BY <1>4, <1>5

LEMMA AdapterKeepsBudget ==
    ASSUME Sound, RequestsBounded, AdapterNext
    PROVE  RequestsBounded'
BY TimedOutBudget, RetriedBudget, EnteredBudget, ExchangedBudget DEF AdapterNext

LEMMA WorkerKeepsBudget ==
    ASSUME IInv, NEW r \in Runners,
           \/ Start(r) \/ CallStorage(r) \/ List(r) \/ PassEnds(r) \/ PassFails(r)
           \/ PassTimesOut(r) \/ Unlock(r) \/ LoseConnection(r) \/ Restart(r)
    PROVE  RequestsBounded'
<1> Sound /\ RequestsBounded /\ r \in Callers
  BY DEF IInv, Sound, TypeOK, Runners
<1>1. ASSUME UNCHANGED <<call, thread>> PROVE RequestsBounded'
  BY <1>1 DEF RequestsBounded
<1>2. CASE Start(r) \/ PassEnds(r) \/ Unlock(r) \/ LoseConnection(r)
  BY <1>1, <1>2 DEF Start, PassEnds, Unlock, adapterVars, LoseConnection
<1>3. NoCall \in Call /\ NoCall.requests = 0 /\ NoCall.at = "idle"
  BY NewCall DEF NoCall
<1>4. CASE CallStorage(r) \/ List(r)
  <2>0. PICK listing \in BOOLEAN : Begin(r, listing)
    BY <1>4 DEF CallStorage, List
  <2> DEFINE k == First(listing)
  <2>1. k \in Call /\ k.requests = 0 /\ k.attempt >= 1
    BY NewCall
  <2>2. call' = [call EXCEPT ![r] = k] /\ thread' = Disowned(r)
    BY <2>0 DEF Begin, First
  <2> HIDE DEF k
  <2> QED
    BY <2>1, <2>2, DisownedBudget
<1>5. CASE PassTimesOut(r) \/ PassFails(r)
  BY <1>3, <1>5, DisownedBudget DEF PassTimesOut, PassFails, Abandon
<1>6. CASE Restart(r)
  <2> DEFINE th == [n \in Threads |-> Free]
  <2>1. \A n \in Threads : th[n].at = "free"
    BY DEF Free
  <2>2. call' = [call EXCEPT ![r] = NoCall] /\ thread' = [thread EXCEPT ![r] = th]
    BY <1>6 DEF Restart
  <2> HIDE DEF th
  <2>3. Budget(NoCall, th)
    BY <1>3, <2>1, NothingAhead, GrantedBounds DEF Budget
  <2> QED
    BY <2>2, <2>3, OneBudget
<1> QED
  BY <1>2, <1>4, <1>5, <1>6

LEMMA Parts == Sound /\ Workers /\ RequestsBounded <=> IInv
BY DEF Sound, Workers, IInv, TypeOK

LEMMA PartsNext == Sound' /\ Workers' /\ RequestsBounded' => IInv'
BY DEF Sound, Workers, IInv, TypeOK

LEMMA Initially == Init => IInv
<1> SUFFICES ASSUME Init PROVE IInv
  OBVIOUS
<1>1. [n \in Threads |-> Free] \in [Threads -> Thread]
  BY Bounds DEF Thread, Free
<1>2. AdapterTypeOK /\ CallsAreSound
  BY <1>1, NewCall DEF Init, AdapterInit, AdapterTypeOK, CallsAreSound
<1>3. \A r \in Callers : ~Calling(r) /\ ~ListingFailed(r)
  BY NewCall DEF Init, AdapterInit, Calling, ListingFailed
<1>4. RequestsBounded
  <2>1. \A c \in Callers : call[c] = NoCall /\ \A n \in Threads : thread[c][n].at = "free"
    BY DEF Init, AdapterInit, Free
  <2>2. NoCall \in Call /\ NoCall.at = "idle" /\ NoCall.requests = 0
    BY NewCall DEF NoCall
  <2> QED
    BY <2>1, <2>2, NothingAhead, GrantedBounds DEF RequestsBounded, Budget
<1> QED
  BY <1>2, <1>3, <1>4 DEF Init, IInv, TypeOK, PassesExclude, HeldByIteration, CallsInPass, Runners

LEMMA Inductive == IInv /\ [Next]_vars => IInv'
<1> SUFFICES ASSUME IInv, [Next]_vars PROVE IInv'
  OBVIOUS
<1>1. Sound
  BY Parts
<1>2. CASE AdapterNext /\ UNCHANGED runnerVars
  BY <1>1, <1>2, AdapterKeepsSound, AdapterKeepsWorkers, AdapterKeepsBudget, Parts, PartsNext
<1>3. ASSUME NEW r \in Runners,
             \/ Start(r) \/ CallStorage(r) \/ List(r) \/ PassEnds(r) \/ PassFails(r)
             \/ PassTimesOut(r) \/ Unlock(r) \/ LoseConnection(r) \/ Restart(r)
      PROVE  IInv'
  BY <1>3, WorkerKeepsSound, WorkerKeepsWorkers, WorkerKeepsBudget, PartsNext
<1>4. CASE HeartbeatAges
  BY <1>4 DEF HeartbeatAges, adapterVars, IInv, TypeOK, AdapterTypeOK, PassesExclude,
              HeldByIteration, CallsInPass, CallsAreSound, Calling, InPass,
              ListingFailed, RequestsBounded
<1>5. CASE UNCHANGED vars
  BY <1>5 DEF vars, IInv, TypeOK, AdapterTypeOK, PassesExclude, HeldByIteration,
              CallsInPass, CallsAreSound, Calling, InPass, ListingFailed, RequestsBounded
<1> QED
  BY <1>2, <1>3, <1>4, <1>5 DEF Next

(* Whatever fails, hangs, times out or is killed: workers, calls and the   *)
(* threads of the gateway stay in the states the invariant names, with any *)
(* number of each (maintenance_runner.py, run_iteration; storage.py, _run).*)
THEOREM Invariant == Spec => []IInv
BY Initially, Inductive, PTL DEF Spec

(* Two workers never make a pass at once while the database keeps their    *)
(* connections: the lock they try for excludes them, time-outs included    *)
(* (maintenance_runner.py, run_iteration).                                 *)
THEOREM OnePass ==
    Spec => [](\A r, s \in Runners :
                  /\ runner[r] # "sleeping" /\ runner[s] # "sleeping"
                  /\ r \notin lost /\ s \notin lost
                  => r = s)
<1>1. IInv => \A r, s \in Runners :
                  /\ runner[r] # "sleeping" /\ runner[s] # "sleeping"
                  /\ r \notin lost /\ s \notin lost
                  => r = s
  BY DEF IInv, PassesExclude
<1> QED
  BY <1>1, Invariant, PTL

----------------------------------------------------------------------------
(* What StorageCall sees of the calls. *)
StateOf(k) == IF k.at \in {"queued", "sent", "backoff"} THEN "waiting" ELSE k.at

State == [c \in Callers |-> StateOf(call[c])]
Carried == [c \in Callers |-> call[c].carried]
Sent == [c \in Callers |-> call[c].requests]

LEMMA Mapped ==
    ASSUME Sound, NEW c \in Callers, NEW k, call' = [call EXCEPT ![c] = k]
    PROVE  /\ State' = [State EXCEPT ![c] = StateOf(k)]
           /\ Carried' = [Carried EXCEPT ![c] = k.carried]
           /\ Sent' = [Sent EXCEPT ![c] = k.requests]
           /\ State[c] = StateOf(call[c])
           /\ Carried[c] = call[c].carried
           /\ Sent[c] = call[c].requests
<1>1. \A d \in Callers : call'[d] = IF d = c THEN k ELSE call[d]
  BY DEF Sound, AdapterTypeOK
<1>2. State' = [State EXCEPT ![c] = StateOf(k)]
  <2>1. \A d \in Callers : StateOf(call'[d]) = IF d = c THEN StateOf(k) ELSE StateOf(call[d])
    BY <1>1
  <2>2. State' = [d \in Callers |-> StateOf(call'[d])]
    BY DEF State, StateOf
  <2> QED
    BY <2>1, <2>2 DEF State
<1>3. Carried' = [Carried EXCEPT ![c] = k.carried]
  <2>1. \A d \in Callers : call'[d].carried = IF d = c THEN k.carried ELSE call[d].carried
    BY <1>1
  <2> QED
    BY <2>1 DEF Carried
<1>4. Sent' = [Sent EXCEPT ![c] = k.requests]
  <2>1. \A d \in Callers : call'[d].requests = IF d = c THEN k.requests ELSE call[d].requests
    BY <1>1
  <2> QED
    BY <2>1 DEF Sent
<1>5. /\ State[c] = StateOf(call[c]) /\ Carried[c] = call[c].carried
      /\ Sent[c] = call[c].requests
  BY DEF State, Carried, Sent
<1> QED
  BY <1>2, <1>3, <1>4, <1>5

LEMMA ContractNext ==
    Contract!Next <=>
      \E c \in Callers :
         \/ /\ State[c] # "waiting"
            /\ State' = [State EXCEPT ![c] = "waiting"]
            /\ Carried' = [Carried EXCEPT ![c] = FALSE]
            /\ Sent' = [Sent EXCEPT ![c] = 0]
         \/ /\ Contract!Request(c)
            /\ Contract!Answer(c) \/ UNCHANGED State
         \/ UNCHANGED <<Carried, Sent>> /\ Contract!Answer(c)
         \/ Contract!Leave(c)
BY DEF Contract!Next, Contract!Begin, State, StateOf, Carried, Sent, Calling

LEMMA ContractRequest ==
    ASSUME NEW c \in Callers
    PROVE  Contract!Request(c) <=>
             /\ Sent[c] < MaxAttempts * Addresses
             /\ Sent' = [Sent EXCEPT ![c] = @ + 1]
             /\ \E done \in BOOLEAN : Carried' = [Carried EXCEPT ![c] = @ \/ done]
BY DEF Contract!Request, Sent, Carried

LEMMA ContractAnswer ==
    ASSUME NEW c \in Callers
    PROVE  Contract!Answer(c) <=>
             /\ State[c] = "waiting"
             /\ \/ State' = [State EXCEPT ![c] = "ok"] /\ Carried'[c]
                \/ State' = [State EXCEPT ![c] = "failed"]
BY DEF Contract!Answer, State, StateOf, Carried, Calling

LEMMA ContractLeave ==
    ASSUME NEW c \in Callers
    PROVE  Contract!Leave(c) <=>
             /\ State' = [State EXCEPT ![c] = "idle"]
             /\ Carried' = [Carried EXCEPT ![c] = FALSE]
             /\ Sent' = [Sent EXCEPT ![c] = 0]
BY DEF Contract!Leave, State, StateOf, Carried, Sent, Calling

LEMMA ContractStutter ==
    (UNCHANGED Contract!callVars) <=> UNCHANGED <<State, Carried, Sent>>
BY DEF Contract!callVars, State, StateOf, Carried, Sent, Calling

(* A request that goes out, with or without the answer of the call. *)
LEMMA RequestStep ==
    ASSUME Sound, RequestsBounded, NEW c \in Callers, NEW n \in Threads,
           NEW k, NEW done \in BOOLEAN,
           thread[c][n].ours, thread[c][n].at # "free",
           call' = [call EXCEPT ![c] = k],
           k.requests = call[c].requests + 1,
           k.carried = (call[c].carried \/ done),
           \/ StateOf(k) = StateOf(call[c])
           \/ /\ StateOf(call[c]) = "waiting"
              /\ StateOf(k) = "failed" \/ (StateOf(k) = "ok" /\ k.carried)
    PROVE  Contract!Next
<1>1. call[c].requests < MaxAttempts * Addresses
  BY OneAhead
<1>2. /\ State' = [State EXCEPT ![c] = StateOf(k)]
      /\ Carried' = [Carried EXCEPT ![c] = k.carried]
      /\ Sent' = [Sent EXCEPT ![c] = k.requests]
      /\ State[c] = StateOf(call[c])
      /\ Carried[c] = call[c].carried
      /\ Sent[c] = call[c].requests
  BY Mapped
<1>3. Contract!Request(c)
  BY <1>1, <1>2, ContractRequest
<1>4. CASE StateOf(k) = StateOf(call[c])
  <2>1. State' = State
    BY <1>2, <1>4 DEF State
  <2> QED
    BY <1>3, <2>1, ContractNext
<1>5. CASE /\ StateOf(call[c]) = "waiting"
           /\ StateOf(k) = "failed" \/ (StateOf(k) = "ok" /\ k.carried)
  <2>1. Carried'[c] = k.carried
    BY <1>2 DEF Carried
  <2>2. Contract!Answer(c)
    BY <1>2, <1>5, <2>1, ContractAnswer
  <2> QED
    BY <1>3, <2>2, ContractNext
<1> QED
  BY <1>4, <1>5

(* A step of which the caller and the store see nothing. *)
LEMMA Unseen ==
    ASSUME Sound, NEW c \in Callers, NEW k, call' = [call EXCEPT ![c] = k],
           StateOf(k) = StateOf(call[c]), k.carried = call[c].carried,
           k.requests = call[c].requests
    PROVE  UNCHANGED Contract!callVars
<1>1. UNCHANGED <<State, Carried, Sent>>
  BY Mapped DEF State, Carried, Sent
<1> QED
  BY <1>1, ContractStutter

LEMMA BeginRefines ==
    ASSUME Sound, NEW c \in Callers, NEW listing \in BOOLEAN, Begin(c, listing)
    PROVE  Contract!Next
<1> DEFINE k == First(listing)
<1>1. /\ StateOf(k) = "waiting" /\ k.carried = FALSE /\ k.requests = 0
      /\ call' = [call EXCEPT ![c] = k]
  BY NewCall DEF First, Begin, StateOf
<1>2. StateOf(call[c]) # "waiting"
  BY DEF Begin, Calling, StateOf, Sound, AdapterTypeOK, Call
<1> HIDE DEF k
<1>3. /\ State[c] # "waiting"
      /\ State' = [State EXCEPT ![c] = "waiting"]
      /\ Carried' = [Carried EXCEPT ![c] = FALSE]
      /\ Sent' = [Sent EXCEPT ![c] = 0]
  <2>1. /\ State' = [State EXCEPT ![c] = StateOf(k)]
        /\ Carried' = [Carried EXCEPT ![c] = k.carried]
        /\ Sent' = [Sent EXCEPT ![c] = k.requests]
        /\ State[c] = StateOf(call[c])
    <3>1. call' = [call EXCEPT ![c] = k]
      BY <1>1
    <3> QED
      BY <3>1, Mapped
  <2> QED
    BY <1>1, <1>2, <2>1
<1> QED
  BY <1>3, ContractNext

LEMMA LeaveRefines ==
    ASSUME Sound, NEW c \in Callers, call' = [call EXCEPT ![c] = NoCall]
    PROVE  Contract!Next
<1>1. StateOf(NoCall) = "idle" /\ NoCall.carried = FALSE /\ NoCall.requests = 0
  BY DEF NoCall, StateOf
<1>2. /\ State' = [State EXCEPT ![c] = StateOf(NoCall)]
      /\ Carried' = [Carried EXCEPT ![c] = NoCall.carried]
      /\ Sent' = [Sent EXCEPT ![c] = NoCall.requests]
  BY Mapped
<1>3. Contract!Leave(c)
  BY <1>1, <1>2, ContractLeave
<1> QED
  BY <1>3, ContractNext

LEMMA EnterRefines ==
    ASSUME Sound, NEW c \in Callers, NEW n \in Threads, Enter(c, n)
    PROVE  UNCHANGED Contract!callVars
<1> DEFINE k == [call[c] EXCEPT !.at = "sent", !.on = n]
<1>1. call[c] \in Call
  BY DEF Sound, AdapterTypeOK
<1>2. /\ call' = [call EXCEPT ![c] = k] /\ k.at = "sent"
      /\ k.carried = call[c].carried /\ k.requests = call[c].requests
  BY <1>1 DEF Enter, Call
<1> HIDE DEF k
<1> QED
  BY <1>2, Unseen DEF Enter, StateOf

LEMMA RetryRefines ==
    ASSUME Sound, NEW c \in Callers, Retry(c)
    PROVE  UNCHANGED Contract!callVars
<1> DEFINE k == [call[c] EXCEPT !.at = "queued", !.attempt = @ + 1]
<1>1. call[c] \in Call
  BY DEF Sound, AdapterTypeOK
<1>2. /\ call' = [call EXCEPT ![c] = k] /\ k.at = "queued"
      /\ k.carried = call[c].carried /\ k.requests = call[c].requests
  BY <1>1 DEF Retry, Call
<1> HIDE DEF k
<1> QED
  BY <1>2, Unseen DEF Retry, StateOf

LEMMA TimeoutRefines ==
    ASSUME Sound, NEW c \in Callers, Timeout(c)
    PROVE  Contract!Next \/ UNCHANGED Contract!callVars
<1> DEFINE k == Returned(call[c], "TIMEOUT")
<1>1. call[c] \in Call
  BY DEF Sound, AdapterTypeOK
<1>2. k.carried = call[c].carried /\ k.requests = call[c].requests
  BY <1>1 DEF Returned, Call
<1>3. k.at \in {"backoff", "failed"}
  BY <1>1, CallFits, ReturnedTyped DEF StorageErrorCode, Fits
<1>4. call' = [call EXCEPT ![c] = k] /\ StateOf(call[c]) = "waiting"
  BY DEF Timeout, StateOf
<1> HIDE DEF k
<1>5. CASE k.at = "backoff"
  BY <1>2, <1>4, <1>5, Unseen DEF StateOf
<1>6. CASE k.at = "failed"
  <2>1. StateOf(k) = "failed"
    BY <1>6 DEF StateOf
  <2>2. UNCHANGED <<Carried, Sent>>
    BY <1>2, <1>4, Mapped DEF Carried, Sent
  <2>3. State' = [State EXCEPT ![c] = StateOf(k)] /\ State[c] = StateOf(call[c])
    BY <1>4, Mapped
  <2>4. Contract!Answer(c)
    BY <1>4, <2>1, <2>3, ContractAnswer
  <2> QED
    BY <2>2, <2>4, ContractNext
<1> QED
  BY <1>3, <1>5, <1>6

LEMMA NextAddressRefines ==
    ASSUME Sound, RequestsBounded, NEW c \in Callers, NEW n \in Threads,
           NEW done \in BOOLEAN, thread[c][n].at # "free", NextAddress(c, n, done)
    PROVE  Contract!Next \/ UNCHANGED Contract!callVars
<1> DEFINE k == Requested(call[c], done)
<1>1. call[c] \in Call
  BY DEF Sound, AdapterTypeOK
<1>2. /\ k.at = call[c].at /\ k.requests = call[c].requests + 1
      /\ k.carried = (call[c].carried \/ done)
  BY <1>1 DEF Requested, Call
<1>3. CASE thread[c][n].ours
  <2>1. call' = [call EXCEPT ![c] = k]
    BY <1>3 DEF NextAddress
  <2> HIDE DEF k
  <2> QED
    BY <1>2, <1>3, <2>1, RequestStep DEF StateOf
<1>4. CASE ~thread[c][n].ours
  <2>1. call' = [call EXCEPT ![c] = call[c]]
    BY <1>4 DEF NextAddress
  <2> QED
    BY <2>1, Unseen
<1> QED
  BY <1>3, <1>4

LEMMA FinishRefines ==
    ASSUME Sound, RequestsBounded, NEW c \in Callers, NEW n \in Threads,
           NEW done \in BOOLEAN, NEW code \in StorageErrorCode \cup {"ok"},
           code = "ok" => done,
           thread[c][n].at # "free", Finish(c, n, code, done)
    PROVE  Contract!Next \/ UNCHANGED Contract!callVars
<1> DEFINE sent == Requested(call[c], done)
           k == Returned(sent, code)
<1>1. call[c] \in Call
  BY DEF Sound, AdapterTypeOK
<1>2. /\ sent \in Call /\ sent.at = call[c].at
      /\ code = "ok" => sent.carried
      /\ sent.listing => sent.attempt = 1
  BY <1>1, CallFits, RequestedTyped DEF Fits
<1>3. /\ sent.requests = call[c].requests + 1
      /\ sent.carried = (call[c].carried \/ done)
  BY <1>1 DEF Requested, Call
<1>4. CASE ~thread[c][n].ours
  <2>1. call' = [call EXCEPT ![c] = call[c]]
    BY <1>4 DEF Finish
  <2> QED
    BY <2>1, Unseen
<1>5. CASE thread[c][n].ours /\ call[c].on # n
  <2>1. call' = [call EXCEPT ![c] = sent]
    BY <1>5 DEF Finish
  <2> HIDE DEF sent
  <2> QED
    BY <1>2, <1>3, <1>5, <2>1, RequestStep DEF StateOf
<1>6. CASE thread[c][n].ours /\ call[c].on = n
  <2>1. call' = [call EXCEPT ![c] = k]
    BY <1>6 DEF Finish
  <2>2. StateOf(call[c]) = "waiting"
    BY <1>6, Bounds DEF Sound, CallsAreSound, StateOf
  <2> HIDE DEF sent
  <2>3. /\ k.at \in {"ok", "failed", "backoff"}
        /\ k.at = "ok" => k.carried
    BY <1>2, ReturnedTyped
  <2>4. k.requests = sent.requests /\ k.carried = sent.carried
    BY <1>2 DEF Returned, Call
  <2> HIDE DEF k
  <2>5. \/ StateOf(k) = StateOf(call[c])
        \/ StateOf(k) = "failed" \/ (StateOf(k) = "ok" /\ k.carried)
    BY <2>2, <2>3 DEF StateOf
  <2> QED
    BY <1>3, <1>6, <2>1, <2>2, <2>4, <2>5, RequestStep
<1> QED
  BY <1>4, <1>5, <1>6

LEMMA ExchangeRefines ==
    ASSUME Sound, RequestsBounded, NEW c \in Callers, NEW n \in Threads,
           Exchange(c, n) \/ SocketTimeout(c, n)
    PROVE  Contract!Next \/ UNCHANGED Contract!callVars
<1>1. thread[c][n].at # "free"
  BY DEF Exchange, SocketTimeout
<1>2. ASSUME NEW code \in StorageErrorCode \cup {"ok"}, NEW done \in BOOLEAN,
             code = "ok" => done, Finish(c, n, code, done)
      PROVE  Contract!Next \/ UNCHANGED Contract!callVars
  BY <1>1, <1>2, FinishRefines
<1>3. ASSUME NEW done \in BOOLEAN, NextAddress(c, n, done)
      PROVE  Contract!Next \/ UNCHANGED Contract!callVars
  BY <1>1, <1>3, NextAddressRefines
<1>4. ASSUME UNCHANGED call PROVE UNCHANGED Contract!callVars
  BY <1>4, ContractStutter DEF State, Carried, Sent
<1>5. CASE Exchange(c, n)
  BY <1>2, <1>3, <1>4, <1>5 DEF Exchange, StorageErrorCode
<1>6. CASE SocketTimeout(c, n)
  BY <1>2, <1>3, <1>6 DEF SocketTimeout, StorageErrorCode
<1> QED
  BY <1>5, <1>6

LEMMA StepsRefine ==
    ASSUME IInv, [Next]_vars
    PROVE  Contract!Next \/ UNCHANGED Contract!callVars
<1> Sound /\ RequestsBounded
  BY Parts
<1>1. ASSUME UNCHANGED call PROVE UNCHANGED Contract!callVars
  BY <1>1, ContractStutter DEF State, Carried, Sent
<1>2. CASE AdapterNext
  BY <1>2, TimeoutRefines, RetryRefines, EnterRefines, ExchangeRefines DEF AdapterNext
<1>3. ASSUME NEW r \in Runners,
             \/ Start(r) \/ PassEnds(r) \/ Unlock(r) \/ LoseConnection(r)
      PROVE  UNCHANGED call
  BY <1>3 DEF Start, PassEnds, Unlock, LoseConnection, adapterVars
<1>4. ASSUME NEW r \in Runners, CallStorage(r) \/ List(r) PROVE Contract!Next
  BY <1>4, BeginRefines DEF CallStorage, List, Runners
<1>5. ASSUME NEW r \in Runners, PassTimesOut(r) \/ PassFails(r) \/ Restart(r)
      PROVE  Contract!Next
  BY <1>5, LeaveRefines DEF PassTimesOut, PassFails, Abandon, Restart, Runners
<1>6. HeartbeatAges \/ UNCHANGED vars => UNCHANGED call
  BY DEF HeartbeatAges, adapterVars, vars
<1> QED
  BY <1>1, <1>2, <1>3, <1>4, <1>5, <1>6 DEF Next

(* The adapter keeps its promise to the handlers and to maintenance for    *)
(* any number of threads, attempts and addresses: a call that succeeds was *)
(* carried out by a request of its own, and all its requests, late ones of *)
(* attempts given up included, are at most attempts times addresses        *)
(* (storage.py, _run; s3_gateway.py, _open).                               *)
THEOREM Implementation == Spec => CallHolds
<1>1. Init => Contract!Init
  BY DEF Init, AdapterInit, Contract!Init, NoCall, Calling
<1>2. IInv /\ [Next]_vars => [Contract!Next]_(Contract!callVars)
  BY StepsRefine
<1> QED
  BY <1>1, <1>2, Invariant, PTL DEF Spec, Contract!Spec, CallHolds
=============================================================================
