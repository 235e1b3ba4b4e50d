------------------------------ MODULE WebUpload ------------------------------
(***************************************************************************)
(* The upload controller of the web console, its buttons, and the upload   *)
(* sessions of the server as far as the controller can tell.               *)
(*                                                                         *)
(* start, resume and cancel are asynchronous: each click is a task of its  *)
(* own that runs from one awaited call to the next and shares the fields   *)
(* of the controller with the others.  Nothing stops a task but a failing  *)
(* call or the phase it finds when it looks.  An abort signal rejects the  *)
(* PUT that listens to it; a PUT that starts with a signal already aborted *)
(* goes through.                                                           *)
(***************************************************************************)
EXTENDS Integers, FiniteSets

CONSTANTS
    Tasks,          \* how many clicks may be under way
    Sessions,       \* upload sessions the server may make
    PartCount,
    MaxAttempts,    \* for a PUT, 3 in the code
    MaxStarts,      \* bound on the files chosen
    MaxClicks,      \* bound on the clicks on pause and on cancel
    MaxFaults,      \* bound on the calls that fail
    None

ASSUME PartCountAssumption == PartCount \in Nat \ {0}
ASSUME MaxAttemptsAssumption == MaxAttempts \in Nat \ {0}
ASSUME BoundsAssumption == MaxStarts \in Nat /\ MaxClicks \in Nat /\ MaxFaults \in Nat
ASSUME NoneAssumption == None \notin Sessions

Parts == 1..PartCount

UploadPhase == {"IDLE", "HASHING", "UPLOADING", "PAUSED", "COMPLETING",
                "COMPLETED", "FAILED", "CANCELLED"}

(* A complete becomes a publish with the first of its two transactions. *)
Calls == {"hash", "create", "get", "list", "sign", "put", "register",
          "complete", "publish", "cancel"}

(* open stands for PENDING_UPLOAD and UPLOADING *)
SessionStatus == {"none", "open", "COMPLETING", "COMPLETED", "ABORTED", "EXPIRED"}

Task == [at : {"idle"} \cup Calls, on : Sessions \cup {None}, part : 0..PartCount,
         tries : 0..MaxAttempts, parts : SUBSET Parts,
         got : {"waiting", "ok", "ended", "error"}, signal : {"live", "aborted", "deaf"}]

(* late: it has expired, whatever became of it afterwards *)
Upload == [status : SessionStatus, parts : SUBSET Parts, late : BOOLEAN]

VARIABLES
    phase, session, registered, artifact,   \* the fields of the controller
    aborted,    \* whether its abort controller has aborted
    task,       \* the calls that are awaited
    server,     \* the upload sessions
    cancelled,  \* a cancellation was shown and no file was started since
    starts, clicks, faults

vars == <<phase, session, registered, artifact, aborted, task, server, cancelled,
          starts, clicks, faults>>

(* Every variable has its type. *)
TypeOK ==
    /\ phase \in UploadPhase
    /\ session \in Sessions \cup {None}
    /\ registered \subseteq Parts
    /\ artifact \in Sessions \cup {None}
    /\ aborted \in BOOLEAN
    /\ task \in [Tasks -> Task]
    /\ server \in [Sessions -> Upload]
    /\ cancelled \in BOOLEAN
    /\ starts \in 0..MaxStarts /\ clicks \in 0..MaxClicks /\ faults \in 0..MaxFaults

Idle == [at |-> "idle", on |-> None, part |-> 0, tries |-> 0, parts |-> {},
         got |-> "waiting", signal |-> "live"]

Init ==
    /\ phase = "IDLE" /\ session = None /\ registered = {} /\ artifact = None
    /\ aborted = FALSE
    /\ task = [t \in Tasks |-> Idle]
    /\ server = [s \in Sessions |-> [status |-> "none", parts |-> {}, late |-> FALSE]]
    /\ cancelled = FALSE
    /\ starts = 0 /\ clicks = 0 /\ faults = 0

counts == <<starts, clicks, faults>>

(* abort(): whoever listens is rejected; hashing looks at it between chunks *)
Aborting ==
    [t \in Tasks |->
        IF task[t].signal # "live" THEN task[t]
        ELSE IF task[t].at = "put" /\ task[t].got = "waiting"
             THEN [task[t] EXCEPT !.got = "error", !.signal = "aborted"]
        ELSE IF task[t].at = "hash" THEN [task[t] EXCEPT !.signal = "aborted"]
        ELSE task[t]]

(* A new abort controller: what listens to the old one is not heard again. *)
Deafened ==
    [t \in Tasks |-> IF task[t].signal = "live" /\ task[t].at \in {"hash", "put"}
                       THEN [task[t] EXCEPT !.signal = "deaf"] ELSE task[t]]

Call(at, on) == [Idle EXCEPT !.at = at, !.on = on]

(* an attempt of a part starts with the signing of its URL *)
Signing(on, part, tries) ==
    [at |-> "sign", on |-> on, part |-> part, tries |-> tries, parts |-> {},
     got |-> "waiting", signal |-> "live"]

(* and goes on with the PUT, which listens to the signal or does not *)
Putting(call, signal) ==
    [call EXCEPT !.at = "put", !.got = "waiting", !.signal = signal]

----------------------------------------------------------------------------
(* The buttons. *)

Begin(t) ==
    /\ session' = None /\ registered' = {} /\ artifact' = None
    /\ aborted' = FALSE
    /\ phase' = "HASHING"
    /\ cancelled' = FALSE
    /\ task' = [Deafened EXCEPT ![t] = Call("hash", None)]

Start(t) ==
    /\ task[t].at = "idle"
    /\ phase \in {"IDLE", "FAILED", "CANCELLED", "COMPLETED"}
    /\ starts < MaxStarts
    /\ starts' = starts + 1
    /\ Begin(t)
    /\ UNCHANGED <<server, clicks, faults>>

Pause ==
    /\ phase = "UPLOADING"
    /\ clicks < MaxClicks
    /\ clicks' = clicks + 1
    /\ phase' = "PAUSED"
    /\ aborted' = TRUE
    /\ task' = Aborting
    /\ UNCHANGED <<session, registered, artifact, server, cancelled, starts, faults>>

(* The button stays enabled until the calls below have been answered. *)
Resume(t) ==
    /\ task[t].at = "idle"
    /\ phase \in {"PAUSED", "FAILED"}
    /\ \/ session = None /\ Begin(t)
       \/ /\ session # None
          /\ aborted' = FALSE
          /\ task' = [Deafened EXCEPT ![t] = Call("get", session)]
          /\ UNCHANGED <<phase, session, registered, artifact, cancelled>>
    /\ UNCHANGED <<server, counts>>

Cancel(t) ==
    /\ task[t].at = "idle"
    /\ phase \notin {"IDLE", "COMPLETED", "CANCELLED"}
    /\ clicks < MaxClicks
    /\ clicks' = clicks + 1
    /\ aborted' = TRUE
    /\ \/ /\ session # None
          /\ task' = [Aborting EXCEPT ![t] = Call("cancel", session)]
          /\ UNCHANGED <<phase, cancelled>>
       \/ /\ session = None
          /\ task' = Aborting
          /\ phase' = "CANCELLED"
          /\ cancelled' = TRUE
    /\ UNCHANGED <<session, registered, artifact, server, starts, faults>>

----------------------------------------------------------------------------
(* The other side of a call.                                               *)

Status(t) == IF task[t].on = None THEN "none" ELSE server[task[t].on].status

(* The calls that succeed. A session that expired after the first          *)
(* transaction of complete is published by the second all the same.        *)
Grants(t) ==
    CASE task[t].at \in {"hash", "put"} -> TRUE
      [] task[t].at \in {"get", "list"} -> task[t].on # None
      [] task[t].at \in {"sign", "register"} -> Status(t) = "open"
      [] task[t].at = "cancel" -> Status(t) \in {"open", "ABORTED"}
      [] task[t].at = "complete" ->
            \/ Status(t) = "COMPLETED"
            \/ /\ Status(t) \in {"open", "COMPLETING"}
               /\ task[t].parts = Parts /\ server[task[t].on].parts = Parts
      [] task[t].at = "publish" -> Status(t) \in {"COMPLETING", "COMPLETED", "EXPIRED"}
      [] OTHER -> FALSE

Effect(t) ==
    CASE task[t].at = "register" -> [server EXCEPT ![task[t].on].parts = @ \cup {task[t].part}]
      [] task[t].at = "complete" /\ Status(t) = "open" ->
            [server EXCEPT ![task[t].on].status = "COMPLETING"]
      [] task[t].at = "publish" -> [server EXCEPT ![task[t].on].status = "COMPLETED"]
      [] task[t].at = "cancel" -> [server EXCEPT ![task[t].on].status = "ABORTED"]
      [] OTHER -> server

Outcome(t) ==
    IF task[t].at = "get" /\ Status(t) \in {"ABORTED", "EXPIRED"} THEN "ended"
    ELSE IF task[t].at = "complete" THEN "waiting" ELSE "ok"

Then(t, next) == task' = [task EXCEPT ![t] = next]

Replied(t, got) == Then(t, [task[t] EXCEPT !.got = got])

(* What becomes of a call that is granted. *)
Granted(t) ==
    [task[t] EXCEPT !.got = Outcome(t),
        !.at = IF @ = "complete" THEN "publish" ELSE @,
        !.parts = IF task[t].at = "list" THEN server[task[t].on].parts ELSE @]

local == <<phase, session, registered, artifact, aborted, cancelled>>

Serve(t) ==
    /\ task[t].at \in Calls \ {"create"} /\ task[t].got = "waiting"
    /\ \/ /\ Grants(t)
          /\ server' = Effect(t)
          /\ Then(t, Granted(t))
       \/ /\ \/ ~Grants(t)
             \/ task[t].signal = "aborted"
             \/ task[t].at = "cancel" /\ Status(t) = "ABORTED"
          /\ Replied(t, "error")
          /\ UNCHANGED server
    /\ UNCHANGED <<local, counts>>

Create(t) ==
    /\ task[t].at = "create" /\ task[t].got = "waiting"
    /\ \E s \in Sessions :
          /\ server[s].status = "none"
          /\ server' = [server EXCEPT ![s].status = "open"]
          /\ Then(t, [task[t] EXCEPT !.got = "ok", !.on = s])
    /\ UNCHANGED <<local, counts>>

(* A call fails: it never arrived, or only its answer is lost.  So do a    *)
(* registration that meets another one of its part, and a completion whose *)
(* object is not what was declared: it is committed, and answered with 409.*)
Fault(t) ==
    /\ task[t].at \in Calls /\ task[t].got = "waiting"
    /\ faults < MaxFaults
    /\ faults' = faults + 1
    /\ Replied(t, "error")
    /\ \/ UNCHANGED server
       \/ Grants(t) /\ server' = Effect(t)
       \/ task[t].at = "create" /\ \E s \in Sessions :
             server[s].status = "none" /\ server' = [server EXCEPT ![s].status = "open"]
    /\ UNCHANGED <<local, starts, clicks>>

(* A session that is not completed in time expires, by maintenance or by a *)
(* cancel, which then answers that all is well.                            *)
Expire(s) ==
    /\ server[s].status \in {"open", "COMPLETING"}
    /\ server' = [server EXCEPT ![s].status = "EXPIRED", ![s].late = TRUE]
    /\ \/ UNCHANGED task
       \/ \E t \in Tasks : /\ task[t].at = "cancel" /\ task[t].on = s
                           /\ task[t].got = "waiting"
                           /\ Replied(t, "ok")
    /\ UNCHANGED <<local, counts>>

----------------------------------------------------------------------------
(* A task goes on with an answer. *)

(* failUnlessPaused *)
Fail(t) ==
    /\ phase' = IF phase \in {"PAUSED", "CANCELLED"} THEN phase ELSE "FAILED"
    /\ Then(t, Idle)
    /\ UNCHANGED <<session, registered, artifact, aborted, cancelled>>

(* The loop of uploadMissingParts from part n on: the next part that is    *)
(* not registered, or the completion with all that are.                    *)
Loop(t, n, sid, known) ==
    LET missing == {m \in Parts : m >= n /\ m \notin known} IN
    IF missing = {}
      THEN /\ phase' = "COMPLETING"
           /\ Then(t, [Call("complete", sid) EXCEPT !.parts = known])
      ELSE /\ phase' = "UPLOADING"
           /\ Then(t, Signing(sid, CHOOSE m \in missing : \A k \in missing : m <= k, 1))

AnswerHash(t) ==
    /\ task[t].at = "hash"
    /\ IF task[t].got = "error" THEN Fail(t)
       ELSE Then(t, Call("create", None)) /\ UNCHANGED local

AnswerCreate(t) ==
    /\ task[t].at = "create"
    /\ IF task[t].got = "error" THEN Fail(t)
       ELSE /\ session' = task[t].on
            /\ Loop(t, 1, task[t].on, registered)
            /\ UNCHANGED <<registered, artifact, aborted, cancelled>>

(* Mutant: a session that completes or has completed cannot be resumed. *)
ResumableOpen(t) == task[t].got = "ok" /\ server[task[t].on].status = "open"

(* The session is not EXPIRED, ABORTED or FAILED. *)
Resumable(t) == task[t].got = "ok"

AnswerGet(t) ==
    /\ task[t].at = "get"
    /\ IF ~Resumable(t) THEN Fail(t)
       ELSE /\ session' = task[t].on
            /\ Then(t, Call("list", task[t].on))
            /\ UNCHANGED <<phase, registered, artifact, aborted, cancelled>>

(* Mutant: what the server has is added to what the page believes. *)
ListKept(t) == registered \cup {1}

(* What the server has replaces what the page believes. *)
Listed(t) == task[t].parts

AnswerList(t) ==
    /\ task[t].at = "list"
    /\ IF task[t].got = "error" THEN Fail(t)
       ELSE /\ registered' = Listed(t)
            /\ Loop(t, 1, session, Listed(t))
            /\ UNCHANGED <<session, artifact, aborted, cancelled>>

(* Mutant: one attempt too many. *)
SpentLate(t) == task[t].tries > MaxAttempts

Spent(t) == task[t].tries = MaxAttempts

(* uploadPartWithRetry: signed anew for each attempt. *)
Retry(t) ==
    IF phase = "PAUSED" \/ aborted \/ Spent(t)
      THEN Fail(t)
      ELSE /\ Then(t, Signing(session, task[t].part, task[t].tries + 1))
           /\ UNCHANGED local

AnswerSign(t) ==
    /\ task[t].at = "sign"
    /\ IF task[t].got = "error" THEN Retry(t)
       ELSE /\ Then(t, Putting(task[t], IF aborted THEN "deaf" ELSE "live"))
            /\ UNCHANGED local

AnswerPut(t) ==
    /\ task[t].at = "put"
    /\ IF task[t].got = "error" THEN Retry(t)
       ELSE /\ Then(t, [Call("register", session) EXCEPT !.part = task[t].part])
            /\ UNCHANGED local

AnswerRegister(t) ==
    /\ task[t].at = "register"
    /\ IF task[t].got = "error" THEN Fail(t)
       ELSE /\ registered' = registered \cup {task[t].part}
            /\ \/ phase # "UPLOADING" /\ Then(t, Idle) /\ UNCHANGED phase
               \/ phase = "UPLOADING" /\ Loop(t, task[t].part + 1, session, registered')
            /\ UNCHANGED <<session, artifact, aborted, cancelled>>

AnswerComplete(t) ==
    /\ task[t].at \in {"complete", "publish"}
    /\ IF task[t].got = "error" THEN Fail(t)
       ELSE /\ artifact' = task[t].on
            /\ phase' = "COMPLETED"
            /\ Then(t, Idle)
            /\ UNCHANGED <<session, registered, aborted, cancelled>>

(* Mutant: the cancellation is shown whatever the server says. *)
CancelShownAnyway(t) == TRUE

CancelAccepted(t) == task[t].got = "ok"

AnswerCancel(t) ==
    /\ task[t].at = "cancel"
    /\ phase' = IF CancelAccepted(t) THEN "CANCELLED" ELSE "FAILED"
    /\ cancelled' = (cancelled \/ CancelAccepted(t))
    /\ Then(t, Idle)
    /\ UNCHANGED <<session, registered, artifact, aborted>>

Answer(t) ==
    /\ task[t].got # "waiting"
    /\ \/ AnswerHash(t) \/ AnswerCreate(t) \/ AnswerGet(t) \/ AnswerList(t)
       \/ AnswerSign(t) \/ AnswerPut(t) \/ AnswerRegister(t)
       \/ AnswerComplete(t) \/ AnswerCancel(t)
    /\ UNCHANGED <<server, counts>>

Next ==
    \/ Pause
    \/ \E t \in Tasks : Start(t) \/ Resume(t) \/ Cancel(t)
    \/ \E t \in Tasks : Serve(t) \/ Create(t) \/ Fault(t) \/ Answer(t)
    \/ \E s \in Sessions : Expire(s)

Spec == Init /\ [][Next]_vars

(* Calls are answered or time out, and whoever wants the file uploaded     *)
(* presses the button again.                                               *)
Fairness ==
    /\ \A t \in Tasks : WF_vars(Serve(t) \/ Create(t)) /\ WF_vars(Answer(t))
    /\ WF_vars(\E t \in Tasks : Resume(t))

FairSpec == Spec /\ Fairness

----------------------------------------------------------------------------
(* An upload that is shown as completed is completed on the server. *)
CompletedIsSo ==
    phase = "COMPLETED" => artifact # None /\ server[artifact].status = "COMPLETED"

(* What the page shows in the end is so: besides, none that is shown as    *)
(* cancelled goes on, unless it had expired.                               *)
TruthfulPhase ==
    /\ CompletedIsSo
    /\ phase = "CANCELLED" /\ session # None =>
          server[session].status \in {"ABORTED", "EXPIRED"} \/ server[session].late

(* A completion names no part that the server has not registered, however  *)
(* loops of paused and resumed uploads and listings overlap.               *)
ManifestKnown ==
    \A t \in Tasks : task[t].at \in {"complete", "publish"} =>
        task[t].on # None /\ task[t].parts \subseteq server[task[t].on].parts

(* No task is under way. *)
Quiet == \A t \in Tasks : task[t].at = "idle"

(* Nobody chooses a file while a click on an earlier one is under way.     *)
OneFileAtATime == [][starts' # starts => Quiet]_vars

(* The upload is aborted, or was late before anything else became of it.   *)
Over(upload) == upload.status = "ABORTED" \/ upload.late

(* What the answer to a call says is so in the given uploads.              *)
AnswerHolds(call, uploads) ==
    /\ call.got = "ended" => call.at = "get"
    /\ call.at \in {"sign", "put", "register"} => call.part \in Parts
    /\ call.at = "publish" => call.on # None
    /\ call.got = "ok" =>
          /\ call.at # "complete"
          /\ call.at \in {"create", "list", "register", "cancel"} => call.on # None
          /\ call.at = "list" => call.parts \subseteq uploads[call.on].parts
          /\ call.at = "register" => call.part \in uploads[call.on].parts
          /\ call.at = "publish" => uploads[call.on].status = "COMPLETED"
          /\ call.at = "cancel" => Over(uploads[call.on])

(* Answers are still so when their tasks get to read them, however late:   *)
(* what they speak of is final or only grows.                              *)
AnswersHold ==
    /\ \A s \in Sessions : server[s].status = "EXPIRED" => server[s].late
    /\ artifact # None => server[artifact].status = "COMPLETED"
    /\ phase = "COMPLETED" => artifact # None
    /\ \A t \in Tasks : AnswerHolds(task[t], server)

(* Before the session is made one task at most is under way, and a page    *)
(* that has failed has none.                                               *)
OnlyMaker ==
    session = None =>
        /\ registered = {}
        /\ phase \in {"IDLE", "HASHING", "FAILED", "CANCELLED"}
        /\ phase \in {"IDLE", "FAILED"} => Quiet
        /\ \A t \in Tasks : task[t].at \in {"idle", "hash", "create"}
        /\ \A t, u \in Tasks : task[t].at # "idle" /\ task[u].at # "idle" => t = u

(* The call is about the session, and completes it with parts it has. *)
BelongsTo(call, s, upload) ==
    /\ call.at \notin {"hash", "create"}
    /\ call.at # "idle" => call.on = s
    /\ call.at \in {"complete", "publish"} => call.parts \subseteq upload.parts

(* Afterwards every task is about this session, and the page believes and  *)
(* sends no more than the session has.                                     *)
OneSession ==
    session # None =>
        /\ registered \subseteq server[session].parts
        /\ phase = "CANCELLED" => Over(server[session])
        /\ phase # "IDLE"
        /\ \A t \in Tasks : BelongsTo(task[t], session, server[session])

(* The inductive invariant of one file at a time.                          *)
IInv == TypeOK /\ AnswersHold /\ OnlyMaker /\ OneSession

(* Whoever resumes after every pause and failure gets the file uploaded,   *)
(* unless the upload is cancelled or its session expires.                  *)
ResumeCompletes ==
    phase = "HASHING" ~>
        \/ artifact # None
        \/ phase = "CANCELLED"
        \/ session # None /\ server[session].status \in {"ABORTED", "EXPIRED"}

(* What M2-08 says (7): a cancellation stops the upload.  One that finds   *)
(* no session yet does not stop the task that is about to make it.         *)
CancelStopsUpload == cancelled => phase # "COMPLETED"
==============================================================================
