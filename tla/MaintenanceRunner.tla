-------------------------- MODULE MaintenanceRunner --------------------------
(***************************************************************************)
(* The maintenance workers: run_forever starts an iteration after every    *)
(* pause, an iteration makes a pass if it gets the advisory lock, which    *)
(* belongs to its database connection, and a pass is a number of calls to  *)
(* the object store under one timeout.  The calls for single objects are   *)
(* retried and their failures counted; the pages of the bucket that every  *)
(* pass lists are not, and a page that fails ends the pass.                *)
(***************************************************************************)
EXTENDS StorageAdapter

CONSTANTS
    MaxCalls        \* bound on the calls of a pass: its batches and pages

ASSUME RunnerAssumption == MaxCalls \in Nat

Runners == Callers

VARIABLES
    runner,     \* where each worker is
    left,       \* the calls its pass may still make before or after its first page
    lost,       \* the workers whose connection broke since they took the lock
    lock,       \* the worker whose connection holds the advisory lock
    heartbeat   \* the heartbeat file is recent

vars == <<call, thread, faults, runner, left, lost, lock, heartbeat>>

TypeOK ==
    /\ AdapterTypeOK
    /\ runner \in [Runners -> {"sleeping", "pass", "listing", "completed", "failed"}]
    /\ left \in [Runners -> 0..MaxCalls]
    /\ lost \subseteq Runners
    /\ lock \in Runners \cup {None}
    /\ heartbeat \in BOOLEAN

Init ==
    /\ AdapterInit
    /\ runner = [r \in Runners |-> "sleeping"]
    /\ left = [r \in Runners |-> 0]
    /\ lost = {}
    /\ lock = None
    /\ heartbeat = TRUE

runnerVars == <<runner, left, lost, lock, heartbeat>>

InPass(r) == runner[r] \in {"pass", "listing"}

Goes(r, to) == runner' = [runner EXCEPT ![r] = to]

(* Mutant: the lock is not looked at. *)
Ignored == TRUE

(* pg_try_advisory_lock *)
Acquired == lock = None

(* An iteration whose lock is held elsewhere is skipped and changes nothing. *)
Start(r) ==
    /\ runner[r] = "sleeping"
    /\ Acquired
    /\ lock' = r
    /\ lost' = lost \ {r}
    /\ Goes(r, "pass")
    /\ left' = [left EXCEPT ![r] = MaxCalls]
    /\ UNCHANGED <<adapterVars, heartbeat>>

(* A page that could not be got is raised out of run_once. *)
ListingFailed(r) == call[r].listing /\ call[r].at = "failed"

Spend(r) == left[r] > 0 /\ left' = [left EXCEPT ![r] = @ - 1]

(* abort_multipart, delete and head, the deletions of orphans between two  *)
(* pages of the listing included; what fails is counted, not raised.       *)
CallStorage(r) ==
    /\ InPass(r) /\ ~ListingFailed(r)
    /\ Begin(r, FALSE)
    /\ Spend(r)
    /\ UNCHANGED <<runner, lost, lock, heartbeat>>

(* The first page, or one more. *)
List(r) ==
    /\ InPass(r) /\ ~ListingFailed(r)
    /\ Begin(r, TRUE)
    /\ IF runner[r] = "listing" THEN Spend(r) ELSE UNCHANGED left
    /\ Goes(r, "listing")
    /\ UNCHANGED <<lost, lock, heartbeat>>

(* run_once returns, which it does only after a listing. *)
PassEnds(r) ==
    /\ runner[r] = "listing"
    /\ ~Calling(r) /\ ~ListingFailed(r)
    /\ Goes(r, "completed")
    /\ heartbeat' = TRUE
    /\ UNCHANGED <<adapterVars, left, lost, lock>>

(* The listing or the database fails: the error ends the pass. *)
PassFails(r) ==
    /\ InPass(r)
    /\ ~Calling(r)
    /\ \/ ListingFailed(r) /\ UNCHANGED faults
       \/ Fault
    /\ Abandon(r)
    /\ Goes(r, "failed")
    /\ UNCHANGED <<left, lost, lock, heartbeat>>

(* asyncio.timeout cancels the call the pass is waiting for: one that is   *)
(* stuck, or that has been tried before, when the time may well be over.   *)
PassTimesOut(r) ==
    /\ InPass(r)
    /\ \/ Overdue(r)
       \/ call[r].attempt > 1 /\ UNCHANGED faults
    /\ Abandon(r)
    /\ Goes(r, "failed")
    /\ UNCHANGED <<left, lost, lock, heartbeat>>

(* Mutant: only a completed iteration unlocks. *)
UnlockedOnSuccess(r) == IF r \in lost \/ runner[r] = "failed" THEN lock ELSE None

(* The lock went with the connection, and may be another's by now. *)
Unlocked(r) == IF r \in lost THEN lock ELSE None

(* Mutant: the loop ends with an iteration that fails. *)
LoopEnds(r) == IF runner[r] = "failed" THEN "stopped" ELSE "sleeping"

(* run_forever goes on after an iteration that failed. *)
LoopGoesOn(r) == "sleeping"

(* The finally clause, and the pause of run_forever. *)
Unlock(r) ==
    /\ runner[r] \in {"completed", "failed"}
    /\ lock' = Unlocked(r)
    /\ Goes(r, LoopGoesOn(r))
    /\ UNCHANGED <<adapterVars, left, lost, heartbeat>>

(* The connection breaks while it sits idle: nobody notices before the     *)
(* unlock, which then fails.                                               *)
LoseConnection(r) ==
    /\ lock = r
    /\ Fault
    /\ lock' = None
    /\ lost' = lost \cup {r}
    /\ UNCHANGED <<call, thread, runner, left, heartbeat>>

(* A worker is killed and starts again; its requests die with it. *)
Restart(r) ==
    /\ runner[r] # "sleeping"
    /\ Fault
    /\ call' = [call EXCEPT ![r] = NoCall]
    /\ thread' = [thread EXCEPT ![r] = [n \in Threads |-> Free]]
    /\ lock' = IF lock = r THEN None ELSE lock
    /\ Goes(r, "sleeping")
    /\ UNCHANGED <<left, lost, heartbeat>>

(* The healthcheck looks at the age of the file. *)
HeartbeatAges ==
    /\ heartbeat' = FALSE
    /\ UNCHANGED <<adapterVars, runner, left, lost, lock>>

Next ==
    \/ AdapterNext /\ UNCHANGED runnerVars
    \/ \E r \in Runners :
          \/ Start(r) \/ CallStorage(r) \/ List(r) \/ PassEnds(r) \/ PassFails(r)
          \/ PassTimesOut(r) \/ Unlock(r) \/ LoseConnection(r) \/ Restart(r)
    \/ HeartbeatAges

Spec == Init /\ [][Next]_vars

PassGoesOn(r) ==
    \/ CallStorage(r) \/ List(r) \/ PassEnds(r)
    \/ ListingFailed(r) /\ PassFails(r)

(* The loop and the passes go on, timers run out, and a thread that does   *)
(* not hang gets its answer.  Nothing is asked of one that hangs: only the *)
(* timeouts of the adapter and of the pass end the wait for it.            *)
Fairness ==
    \A r \in Runners :
        /\ WF_vars(Start(r)) /\ WF_vars(PassGoesOn(r)) /\ WF_vars(Unlock(r))
        /\ WF_vars(Stuck(r) /\ PassTimesOut(r))
        /\ WF_vars((Timeout(r) \/ Retry(r)) /\ UNCHANGED runnerVars)
        /\ WF_vars((\E n \in Threads : Enter(r, n) \/ Exchange(r, n))
                     /\ UNCHANGED runnerVars)

FairSpec == Spec /\ Fairness

----------------------------------------------------------------------------
(* Of the workers that make a pass, all but the one that has the lock have *)
(* lost their connection: whatever fails, times out or is killed, no two   *)
(* passes overlap while the database keeps its connections.                *)
PassesExclude ==
    \A r \in Runners : runner[r] # "sleeping" /\ r \notin lost => lock = r

(* The lock is held for the time of an iteration. *)
HeldByIteration == lock # None => lock \in Runners \ lost /\ runner[lock] # "sleeping"

(* Nobody waits for a call outside a pass, however the pass ended, and a   *)
(* listing is made for the pass that is under way: no pass begins with the *)
(* failed listing of another.                                              *)
CallsInPass ==
    \A r \in Runners :
        /\ Calling(r) => InPass(r)
        /\ (Calling(r) /\ call[r].listing) \/ ListingFailed(r) => runner[r] = "listing"

(* A call waits for a thread that works for it, has an attempt left when   *)
(* it backs off, and succeeds if the store has carried its request out; a  *)
(* listing has a single attempt.                                           *)
CallsAreSound ==
    \A c \in Callers :
        /\ call[c].at = "sent" =>
              /\ call[c].on \in Threads
              /\ thread[c][call[c].on].at # "free" /\ thread[c][call[c].on].ours
        /\ call[c].at # "sent" => call[c].on = 0
        /\ call[c].at = "backoff" => ~Last(call[c])
        /\ call[c].listing => call[c].attempt = 1
        /\ call[c].at = "ok" => call[c].carried

(* The inductive invariant. *)
IInv ==
    /\ TypeOK /\ PassesExclude /\ HeldByIteration /\ CallsInPass /\ CallsAreSound
    /\ RequestsBounded

(* The lock comes back, although the store may hang for good. *)
LockComesBack == \A r \in Runners : lock = r ~> lock # r

(* A thread that hangs goes back in the end: every operation of a socket   *)
(* has a timeout.                                                          *)
SomeThreadReturns ==
    \A r \in Runners : []<>(\E n \in Threads : thread[r][n].at # "hung")

(* Passes go on being completed as long as not every thread of a worker    *)
(* hangs for good: one that hangs, the failed listings and timeouts it     *)
(* causes, lost locks and restarts cost some passes, never all to come.    *)
HeartbeatReturns == SomeThreadReturns => []<>heartbeat

CallHolds == Contract!Spec
=============================================================================
