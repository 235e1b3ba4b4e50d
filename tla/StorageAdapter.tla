--------------------------- MODULE StorageAdapter ---------------------------
(***************************************************************************)
(* A call to the object store: the retry loop of the adapter, the threads  *)
(* of the gateway and the addresses of the endpoint.                       *)
(*                                                                         *)
(* A request runs in a thread of the event loop's executor.  When the      *)
(* adapter gives up waiting, or its caller is cancelled, a request that    *)
(* has not got a thread is dropped, and one that has goes on unheard: it   *)
(* may still reach the store, and it tries the addresses that are left.    *)
(* A caller is a process here: what other calls of its process do to the   *)
(* threads looks to a call as threads that hang.  A page of a listing is   *)
(* requested in the same way but outside the retry loop: it has one        *)
(* attempt, and nobody but the thread ends it.                             *)
(***************************************************************************)
EXTENDS Integers, FiniteSets

CONSTANTS
    Callers,
    PoolSize,       \* threads of the executor of a process
    MaxAttempts,
    Addresses,      \* how many addresses the endpoint resolves to
    MaxFaults,      \* bound on what goes wrong
    None

ASSUME AdapterAssumption ==
    /\ PoolSize \in Nat \ {0} /\ MaxAttempts \in Nat \ {0} /\ Addresses \in Nat \ {0}
    /\ MaxFaults \in Nat
    /\ None \notin Callers

Threads == 1..PoolSize

VARIABLES
    call,       \* the call of each caller
    thread,     \* what each thread of each caller does
    faults

adapterVars == <<call, thread, faults>>

(* refused stands for every code that is not retried. *)
StorageErrorCode == {"refused", "TEMPORARY_UNAVAILABLE", "TIMEOUT"}

Retryable == {"TEMPORARY_UNAVAILABLE", "TIMEOUT"}

Call == [at : {"idle", "queued", "sent", "backoff", "ok", "failed"},
         attempt : 0..MaxAttempts, on : 0..PoolSize,
         listing : BOOLEAN, carried : BOOLEAN, requests : Nat]

(* ours: it works for the call its caller waits for, or for an earlier     *)
(* attempt of it                                                           *)
Thread == [at : {"free", "busy", "hung"}, address : 0..Addresses, ours : BOOLEAN]

NoCall == [at |-> "idle", attempt |-> 0, on |-> 0, listing |-> FALSE,
           carried |-> FALSE, requests |-> 0]

Free == [at |-> "free", address |-> 0, ours |-> FALSE]

AdapterTypeOK ==
    /\ call \in [Callers -> Call]
    /\ thread \in [Callers -> [Threads -> Thread]]
    /\ faults \in 0..MaxFaults

AdapterInit ==
    /\ call = [c \in Callers |-> NoCall]
    /\ thread = [c \in Callers |-> [n \in Threads |-> Free]]
    /\ faults = 0

Fault == faults < MaxFaults /\ faults' = faults + 1

Calling(c) == call[c].at \in {"queued", "sent", "backoff"}

(* The threads of a call that has ended work for nobody. *)
Disowned(c) ==
    [thread EXCEPT ![c] = [n \in Threads |-> [@[n] EXCEPT !.ours = FALSE]]]

(* _run, or the gateway's list_objects: the first attempt waits for a      *)
(* thread                                                                  *)
Begin(c, listing) ==
    /\ ~Calling(c)
    /\ call' = [call EXCEPT ![c] =
                  [NoCall EXCEPT !.at = "queued", !.attempt = 1, !.listing = listing]]
    /\ thread' = Disowned(c)
    /\ UNCHANGED faults

(* asyncio.to_thread *)
Enter(c, n) ==
    /\ call[c].at = "queued"
    /\ thread[c][n].at = "free"
    /\ call' = [call EXCEPT ![c].at = "sent", ![c].on = n]
    /\ thread' = [thread EXCEPT ![c][n] = [at |-> "busy", address |-> 1, ours |-> TRUE]]
    /\ UNCHANGED faults

(* Mutant: the last attempt is not recognised. *)
LastMissed(k) == k.listing \/ k.attempt > MaxAttempts

Last(k) == k.listing \/ k.attempt >= MaxAttempts

(* What becomes of a call when an attempt has ended with this code. *)
Returned(k, code) ==
    [k EXCEPT !.on = 0,
       !.at = CASE code = "ok" -> "ok"
                [] code \in Retryable /\ ~Last(k) -> "backoff"
                [] OTHER -> "failed"]

(* The store carries the request out or not; the call counts its own. *)
Requested(k, done) ==
    [k EXCEPT !.requests = @ + 1, !.carried = @ \/ done]

(* A request at the address the thread has come to ends the thread with    *)
(* this code, which the adapter hears if it is still waiting.              *)
Finish(c, n, code, done) ==
    /\ thread' = [thread EXCEPT ![c][n] = Free]
    /\ call' = [call EXCEPT ![c] =
                  IF ~thread[c][n].ours THEN @
                  ELSE IF @.on = n THEN Returned(Requested(@, done), code)
                  ELSE Requested(@, done)]

(* The connection fails or the answer is lost: the next address is tried   *)
(* with the same request.                                                  *)
NextAddress(c, n, done) ==
    /\ thread[c][n].address < Addresses
    /\ thread' = [thread EXCEPT ![c][n] =
                    [@ EXCEPT !.address = thread[c][n].address + 1, !.at = "busy"]]
    /\ call' = [call EXCEPT ![c] = IF thread[c][n].ours THEN Requested(@, done) ELSE @]

(* _open and _execute, for one address; an object may be missing, but the  *)
(* bucket is listed unless something is wrong.                             *)
Exchange(c, n) ==
    /\ thread[c][n].at = "busy"
    /\ \/ Finish(c, n, "ok", TRUE) /\ UNCHANGED faults
       \/ ~call[c].listing /\ Finish(c, n, "refused", FALSE) /\ UNCHANGED faults
       \/ /\ Fault
          /\ \E done \in BOOLEAN :
               \/ NextAddress(c, n, done)
               \/ Finish(c, n, "TEMPORARY_UNAVAILABLE", done)
               \/ Finish(c, n, "refused", done)     \* no answer one can parse
       \/ /\ Fault     \* the store does not answer
          /\ thread' = [thread EXCEPT ![c][n].at = "hung"]
          /\ UNCHANGED call

(* The timeout of the socket may end the wait: _open goes on to the next   *)
(* address, while a response whose body does not come ends the attempt.    *)
SocketTimeout(c, n) ==
    /\ thread[c][n].at = "hung"
    /\ \E done \in BOOLEAN :
         NextAddress(c, n, done) \/ Finish(c, n, "TEMPORARY_UNAVAILABLE", done)
    /\ UNCHANGED faults

(* A call that gets no thread because they all hang, or whose own hangs *)
Stuck(c) ==
    \/ call[c].at = "queued" /\ \A n \in Threads : thread[c][n].at = "hung"
    \/ call[c].at = "sent" /\ thread[c][call[c].on].at = "hung"

Overdue(c) ==
    \/ Stuck(c) /\ UNCHANGED faults
    \/ Fault

(* wait_for: the adapter gives up the attempt; nothing waits so for a page *)
(* of a listing.                                                           *)
Timeout(c) ==
    /\ call[c].at \in {"queued", "sent"} /\ ~call[c].listing
    /\ Overdue(c)
    /\ call' = [call EXCEPT ![c] = Returned(@, "TIMEOUT")]
    /\ UNCHANGED thread

Retry(c) ==
    /\ call[c].at = "backoff"
    /\ call' = [call EXCEPT ![c].at = "queued", ![c].attempt = @ + 1]
    /\ UNCHANGED <<thread, faults>>

(* The task that waits for the call is cancelled. *)
Abandon(c) ==
    /\ call' = [call EXCEPT ![c] = NoCall]
    /\ thread' = Disowned(c)

AdapterNext ==
    \E c \in Callers :
        \/ Timeout(c) \/ Retry(c)
        \/ \E n \in Threads : Enter(c, n) \/ Exchange(c, n) \/ SocketTimeout(c, n)

----------------------------------------------------------------------------
(* A call keeps what StorageCall promises: success is never reported of a  *)
(* request the store has not carried out, and retries and addresses        *)
(* together bound the requests, late ones of abandoned attempts included.  *)
Contract == INSTANCE StorageCall WITH
    Limit <- MaxAttempts * Addresses,
    state <- [c \in Callers |-> IF Calling(c) THEN "waiting" ELSE call[c].at],
    carried <- [c \in Callers |-> call[c].carried],
    sent <- [c \in Callers |-> call[c].requests]

(* The requests that threads may still send for the call: each thread of   *)
(* it goes through the addresses from the one it has come to.              *)
Ahead(th) ==
    {x \in Threads \X (1..Addresses) :
        th[x[1]].ours /\ th[x[1]].at # "free" /\ x[2] >= th[x[1]].address}

(* What the attempts so far allow: an attempt counts when it gets a thread. *)
Granted(k) == (IF k.at = "queued" THEN k.attempt - 1 ELSE k.attempt) * Addresses

Budget(k, th) ==
    /\ \A n \in Threads : th[n].at # "free" => th[n].address >= 1
    /\ k.at = "queued" => k.attempt >= 1
    /\ k.requests + Cardinality(Ahead(th)) <= Granted(k)

(* The requests of a call, those of threads nobody waits for any more      *)
(* included, stay within what its attempts allow.                          *)
RequestsBounded == \A c \in Callers : Budget(call[c], thread[c])
=============================================================================
