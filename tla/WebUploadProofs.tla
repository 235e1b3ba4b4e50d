-------------------------- MODULE WebUploadProofs --------------------------
(***************************************************************************)
(* Theorems about WebUpload, for any number of clicks under way, sessions, *)
(* parts, attempts and failures: answers still hold when they are read,    *)
(* and as long as files are uploaded one at a time, the page shows in the  *)
(* end what is so and completes an upload with parts that it has.          *)
(***************************************************************************)
EXTENDS WebUpload, WellFoundedInduction, TLAPS

USE PartCountAssumption, MaxAttemptsAssumption, BoundsAssumption, NoneAssumption

(* What holds of any number of files. *)
Sound == TypeOK /\ AnswersHold

(* What became of a call of another task, at most: its abort signal.       *)
Rejected(old, new) ==
    /\ new.at = old.at /\ new.on = old.on /\ new.part = old.part
    /\ new.parts = old.parts
    /\ new.got = old.got \/ new.got = "error"

(* What the server never takes back. *)
Grown(old, new) ==
    \A s \in Sessions :
        /\ old[s].parts \subseteq new[s].parts
        /\ old[s].status = "COMPLETED" => new[s].status = "COMPLETED"
        /\ Over(old[s]) => Over(new[s])
        /\ new[s].status = "EXPIRED" => new[s].late

----------------------------------------------------------------------------
(* Calls and their answers. *)

LEMMA IdleMade ==
    /\ Idle \in Task
    /\ Idle.at = "idle" /\ Idle.got = "waiting" /\ Idle.parts = {} /\ Idle.part = 0
BY DEF Idle, Task

(* A call that has just been made. *)
LEMMA Made ==
    ASSUME NEW at \in {"idle"} \cup Calls, NEW on \in Sessions \cup {None}
    PROVE  /\ Call(at, on) \in Task
           /\ Call(at, on).at = at /\ Call(at, on).on = on
           /\ Call(at, on).got = "waiting" /\ Call(at, on).parts = {}
BY IdleMade DEF Call, Task

LEMMA SigningMade ==
    ASSUME NEW on \in Sessions \cup {None}, NEW part \in Parts, NEW tries \in 0..MaxAttempts
    PROVE  /\ Signing(on, part, tries) \in Task
           /\ Signing(on, part, tries).at = "sign"
           /\ Signing(on, part, tries).on = on
           /\ Signing(on, part, tries).part = part
           /\ Signing(on, part, tries).got = "waiting"
           /\ Signing(on, part, tries).parts = {}
BY DEF Signing, Task, Calls, Parts

(* A task that has its URL sends the part. *)
LEMMA PutMade ==
    ASSUME NEW old \in Task, NEW signal \in {"deaf", "live"}
    PROVE  /\ Putting(old, signal) \in Task
           /\ Putting(old, signal).at = "put" /\ Putting(old, signal).got = "waiting"
           /\ Putting(old, signal).on = old.on /\ Putting(old, signal).part = old.part
<1> DEFINE sent == [old EXCEPT !.at = "put"]
           waits == [sent EXCEPT !.got = "waiting"]
           call == [waits EXCEPT !.signal = signal]
<1>1. sent \in Task /\ sent.at = "put" /\ sent.on = old.on /\ sent.part = old.part
  BY DEF Task, Calls
<1> HIDE DEF sent
<1>2. /\ waits \in Task /\ waits.at = "put" /\ waits.got = "waiting"
      /\ waits.on = old.on /\ waits.part = old.part
  BY <1>1 DEF Task
<1> HIDE DEF waits
<1>3. /\ call \in Task /\ call.at = "put" /\ call.got = "waiting"
      /\ call.on = old.on /\ call.part = old.part
  BY <1>2 DEF Task
<1>4. call = Putting(old, signal)
  BY DEF sent, waits, Putting
<1> HIDE DEF call
<1> QED
  BY <1>3, <1>4

(* Answers remain true while the server only grows. *)
LEMMA StillHolds ==
    ASSUME NEW call \in Task, NEW old, NEW new, Grown(old, new),
           AnswerHolds(call, old)
    PROVE  AnswerHolds(call, new)
<1>1. call.on # None => call.on \in Sessions
  BY DEF Task
<1> QED
  BY <1>1 DEF AnswerHolds, Grown

LEMMA RejectedHolds ==
    ASSUME NEW old \in Task, NEW new \in Task, NEW uploads, Rejected(old, new),
           AnswerHolds(old, uploads)
    PROVE  AnswerHolds(new, uploads)
BY DEF Rejected, AnswerHolds

(* Aborting and listening anew only reject calls. *)
LEMMA OthersRejected ==
    ASSUME TypeOK
    PROVE  /\ Aborting \in [Tasks -> Task] /\ Deafened \in [Tasks -> Task]
           /\ \A t \in Tasks : Rejected(task[t], Aborting[t])
           /\ \A t \in Tasks : Rejected(task[t], Deafened[t])
<1>1. ASSUME NEW t \in Tasks
      PROVE  /\ Aborting[t] \in Task /\ Rejected(task[t], Aborting[t])
             /\ Deafened[t] \in Task /\ Rejected(task[t], Deafened[t])
  <2>1. task[t] \in Task
    BY DEF TypeOK
  <2>2. /\ Aborting[t] \in {task[t], [task[t] EXCEPT !.got = "error", !.signal = "aborted"],
                            [task[t] EXCEPT !.signal = "aborted"]}
        /\ Deafened[t] \in {task[t], [task[t] EXCEPT !.signal = "deaf"]}
    BY DEF Aborting, Deafened
  <2>3. \A call \in {task[t], [task[t] EXCEPT !.got = "error", !.signal = "aborted"],
                     [task[t] EXCEPT !.signal = "aborted"], [task[t] EXCEPT !.signal = "deaf"]} :
          call \in Task /\ Rejected(task[t], call)
    BY <2>1 DEF Task, Rejected
  <2> QED
    BY <2>2, <2>3
<1> QED
  BY <1>1 DEF Aborting, Deafened

(* The server grows with every call that it grants. *)
LEMMA EffectGrows ==
    ASSUME Sound, NEW t \in Tasks, Grants(t)
    PROVE  Effect(t) \in [Sessions -> Upload] /\ Grown(server, Effect(t))
<1> DEFINE call == task[t]
<1>1. call \in Task /\ AnswerHolds(call, server)
  BY DEF Sound, TypeOK, AnswersHold
<1>2. server \in [Sessions -> Upload] /\ \A s \in Sessions : server[s].status = "EXPIRED" => server[s].late
  BY DEF Sound, TypeOK, AnswersHold
<1>3. CASE call.at = "register"
  <2>1. call.on \in Sessions /\ server[call.on].status = "open" /\ call.part \in Parts
    BY <1>1, <1>3 DEF Grants, Status, Task, AnswerHolds
  <2>2. Effect(t) = [server EXCEPT ![call.on].parts = @ \cup {call.part}]
    BY <1>3 DEF Effect
  <2> QED
    BY <1>2, <2>1, <2>2 DEF Grown, Upload, Over
<1>4. CASE call.at = "complete" /\ Status(t) = "open"
  <2>1. call.on \in Sessions /\ server[call.on].status = "open"
    BY <1>1, <1>4 DEF Status, Task
  <2>2. Effect(t) = [server EXCEPT ![call.on].status = "COMPLETING"]
    BY <1>4 DEF Effect
  <2> QED
    BY <1>2, <2>1, <2>2 DEF Grown, Upload, Over, SessionStatus
<1>5. CASE call.at = "publish"
  <2>1. call.on \in Sessions /\ server[call.on].status \in {"COMPLETING", "COMPLETED", "EXPIRED"}
    BY <1>1, <1>5 DEF Grants, Status, Task
  <2>2. Effect(t) = [server EXCEPT ![call.on].status = "COMPLETED"]
    BY <1>5 DEF Effect
  <2> QED
    BY <1>2, <2>1, <2>2 DEF Grown, Upload, Over, SessionStatus
<1>6. CASE call.at = "cancel"
  <2>1. call.on \in Sessions /\ server[call.on].status \in {"open", "ABORTED"}
    BY <1>1, <1>6 DEF Grants, Status, Task
  <2>2. Effect(t) = [server EXCEPT ![call.on].status = "ABORTED"]
    BY <1>6 DEF Effect
  <2> QED
    BY <1>2, <2>1, <2>2 DEF Grown, Upload, Over, SessionStatus
<1>7. CASE /\ call.at \notin {"register", "publish", "cancel"}
           /\ ~(call.at = "complete" /\ Status(t) = "open")
  <2>1. Effect(t) = server
    BY <1>7 DEF Effect
  <2> QED
    BY <1>2, <2>1 DEF Grown
<1> QED
  BY <1>3, <1>4, <1>5, <1>6, <1>7

(* The first missing part exists. *)
LEMMA FirstMissing ==
    ASSUME NEW S \in SUBSET Parts, S # {}
    PROVE  (CHOOSE m \in S : \A k \in S : m <= k) \in S
<1>1. S \subseteq Nat
  BY DEF Parts
<1> DEFINE R == {ss \in Nat \X Nat : ss[1] < ss[2]}
<1>2. IsWellFoundedOn(R, Nat)
  BY NatLessThanWellFounded, Zenon DEF OpToRel
<1>3. \E m \in S : \A k \in S : ~ (<<k, m>> \in R)
  <2> HIDE DEF R
  <2> QED
    BY <1>1, <1>2, WFMin
<1>4. \A k, m \in Nat : k < m => <<k, m>> \in R
  OBVIOUS
<1> HIDE DEF R
<1>5. PICK m \in S : \A k \in S : ~ (<<k, m>> \in R)
  BY <1>3
<1>6. ASSUME NEW k \in S PROVE m <= k
  <2>1. k \in Nat /\ m \in Nat /\ ~ (<<k, m>> \in R)
    BY <1>1, <1>5
  <2>2. ~ (k < m)
    BY <1>4, <2>1
  <2> QED
    BY <2>1, <2>2
<1>7. \E i \in S : \A k \in S : i <= k
  BY <1>6
<1> QED
  BY <1>7

(* The loop goes on with a part that is not known or completes with those  *)
(* that are.                                                               *)
LEMMA LoopGoesOn ==
    ASSUME NEW t \in Tasks, NEW n \in Nat, NEW sid \in Sessions \cup {None},
           NEW known \in SUBSET Parts, Loop(t, n, sid, known)
    PROVE  /\ phase' \in {"UPLOADING", "COMPLETING"}
           /\ \E call \in Task : /\ Then(t, call)
                                 /\ call.at \in {"sign", "complete"}
                                 /\ call.on = sid /\ call.got = "waiting"
                                 /\ call.at = "sign" => call.part \in Parts
                                 /\ call.parts \subseteq known
<1> DEFINE missing == {m \in Parts : m >= n /\ m \notin known}
           first == CHOOSE m \in missing : \A k \in missing : m <= k
<1>1. CASE missing = {}
  <2> DEFINE call == [Call("complete", sid) EXCEPT !.parts = known]
  <2>1. phase' = "COMPLETING" /\ Then(t, call)
    BY <1>1 DEF Loop
  <2>2. /\ call \in Task /\ call.at = "complete" /\ call.on = sid
        /\ call.got = "waiting" /\ call.parts = known
    BY Made DEF Task, Calls
  <2> HIDE DEF call
  <2> QED
    BY <2>1, <2>2
<1>2. CASE missing # {}
  <2> DEFINE call == Signing(sid, first, 1)
  <2>1. phase' = "UPLOADING" /\ Then(t, call)
    BY <1>2 DEF Loop
  <2>2. first \in missing
    BY <1>2, FirstMissing
  <2> HIDE DEF first
  <2>3. first \in Parts /\ 1 \in 0..MaxAttempts
    BY <2>2
  <2>4. /\ call \in Task /\ call.at = "sign" /\ call.on = sid
        /\ call.got = "waiting" /\ call.parts = {} /\ call.part = first
    BY <2>3, SigningMade
  <2> HIDE DEF call
  <2> QED
    BY <2>1, <2>3, <2>4
<1> QED
  BY <1>1, <1>2

----------------------------------------------------------------------------
(* Answers hold after every step, whatever the user does. *)

(* What a step has to keep: calls are rejected or hold themselves.         *)
LEMMA SoundStep ==
    ASSUME Sound,
           task' \in [Tasks -> Task], server' \in [Sessions -> Upload],
           Grown(server, server'),
           \A t \in Tasks : \/ Rejected(task[t], task'[t])
                            \/ AnswerHolds(task'[t], server'),
           phase' \in UploadPhase, session' \in Sessions \cup {None},
           registered' \subseteq Parts, artifact' \in Sessions \cup {None},
           aborted' \in BOOLEAN, cancelled' \in BOOLEAN,
           starts' \in 0..MaxStarts, clicks' \in 0..MaxClicks, faults' \in 0..MaxFaults,
           artifact' # None => server'[artifact'].status = "COMPLETED",
           phase' = "COMPLETED" => artifact' # None
    PROVE  Sound'
<1>1. TypeOK'
  BY DEF TypeOK
<1>2. \A s \in Sessions : server'[s].status = "EXPIRED" => server'[s].late
  BY DEF Grown
<1>3. ASSUME NEW t \in Tasks PROVE AnswerHolds(task'[t], server')
  <2>1. CASE Rejected(task[t], task'[t])
    <3>1. task[t] \in Task /\ task'[t] \in Task /\ AnswerHolds(task[t], server)
      BY DEF Sound, TypeOK, AnswersHold
    <3>2. AnswerHolds(task[t], server')
      BY <3>1, StillHolds
    <3> QED
      BY <2>1, <3>1, <3>2, RejectedHolds
  <2> QED
    BY <2>1
<1> QED
  BY <1>1, <1>2, <1>3 DEF Sound, AnswersHold

LEMMA ServerSame ==
    ASSUME Sound
    PROVE  Grown(server, server)
BY DEF Sound, AnswersHold, Grown

(* A task goes on with an answer: the server does not change.              *)
LEMMA AnsweredSound ==
    ASSUME Sound, NEW t \in Tasks, NEW call \in Task, Then(t, call),
           AnswerHolds(call, server),
           UNCHANGED <<server, counts, aborted>>,
           phase' \in UploadPhase, session' \in Sessions \cup {None},
           registered' \subseteq Parts, cancelled' \in BOOLEAN,
           artifact' \in Sessions \cup {None},
           artifact' # None => server[artifact'].status = "COMPLETED",
           phase' = "COMPLETED" => artifact' # None
    PROVE  Sound'
<1>1. /\ task' \in [Tasks -> Task]
      /\ \A u \in Tasks : task'[u] = IF u = t THEN call ELSE task[u]
  BY DEF Sound, TypeOK, Then
<1>2. \A u \in Tasks : Rejected(task[u], task'[u]) \/ AnswerHolds(task'[u], server')
  BY <1>1 DEF Rejected
<1>3. /\ server' \in [Sessions -> Upload] /\ Grown(server, server') /\ aborted' \in BOOLEAN
      /\ starts' \in 0..MaxStarts /\ clicks' \in 0..MaxClicks /\ faults' \in 0..MaxFaults
  BY ServerSame DEF Sound, TypeOK, counts
<1>4. artifact' # None => server'[artifact'].status = "COMPLETED"
  OBVIOUS
<1> QED
  BY <1>1, <1>2, <1>3, <1>4, SoundStep

(* What is known of the task and of the page that gets an answer.          *)
LEMMA Known ==
    ASSUME Sound, NEW t \in Tasks
    PROVE  /\ task[t] \in Task /\ AnswerHolds(task[t], server)
           /\ task[t].on \in Sessions \cup {None} /\ task[t].parts \subseteq Parts
           /\ phase \in UploadPhase /\ session \in Sessions \cup {None}
           /\ registered \subseteq Parts /\ cancelled \in BOOLEAN
           /\ artifact \in Sessions \cup {None}
           /\ artifact # None => server[artifact].status = "COMPLETED"
           /\ phase = "COMPLETED" => artifact # None
BY DEF Sound, TypeOK, AnswersHold, Task

LEMMA IdleHolds == \A uploads : AnswerHolds(Idle, uploads)
BY IdleMade DEF AnswerHolds

LEMMA MadeHolds ==
    ASSUME NEW at \in {"idle"} \cup Calls, NEW on \in Sessions \cup {None},
           at \notin {"sign", "put", "register"}, at = "publish" => on # None, NEW uploads
    PROVE  AnswerHolds(Call(at, on), uploads)
BY Made DEF AnswerHolds

LEMMA FailSound ==
    ASSUME Sound, NEW t \in Tasks, Fail(t), UNCHANGED <<server, counts>>
    PROVE  Sound'
<1>1. /\ phase' \in UploadPhase /\ Then(t, Idle)
      /\ phase' = "COMPLETED" => phase = "COMPLETED"
      /\ UNCHANGED <<session, registered, artifact, aborted, cancelled>>
  BY Known DEF Fail, UploadPhase
<1> QED
  BY <1>1, Known, IdleMade, IdleHolds, AnsweredSound

LEMMA LoopSound ==
    ASSUME Sound, NEW t \in Tasks, NEW n \in Nat, NEW sid \in Sessions \cup {None},
           NEW known \in SUBSET Parts, Loop(t, n, sid, known),
           UNCHANGED <<server, counts, aborted, artifact, cancelled>>,
           session' \in Sessions \cup {None}, registered' \subseteq Parts
    PROVE  Sound'
<1>1. PICK call \in Task : /\ Then(t, call)
                            /\ call.at \in {"sign", "complete"}
                            /\ (call.at = "sign" => call.part \in Parts)
                            /\ call.got = "waiting"
  BY LoopGoesOn
<1>2. phase' \in {"UPLOADING", "COMPLETING"}
  BY LoopGoesOn
<1>3. AnswerHolds(call, server)
  <2>1. call.got = "waiting" /\ call.at # "publish"
    BY <1>1
  <2>2. call.at \in {"sign", "put", "register"} => call.part \in Parts
    BY <1>1
  <2> QED
    BY <2>1, <2>2 DEF AnswerHolds
<1>4. phase' \in UploadPhase /\ phase' # "COMPLETED"
  BY <1>2 DEF UploadPhase
<1> QED
  <2>1. /\ artifact' \in Sessions \cup {None} /\ cancelled' \in BOOLEAN
        /\ artifact' # None => server[artifact'].status = "COMPLETED"
    BY Known
  <2>2. Then(t, call) /\ UNCHANGED <<server, counts, aborted>>
    BY <1>1
  <2> QED
    BY <1>3, <1>4, <2>1, <2>2, AnsweredSound

(* The answers, one by one. *)
LEMMA RetrySound ==
    ASSUME Sound, NEW t \in Tasks, task[t].at \in {"sign", "put"}, Retry(t),
           UNCHANGED <<server, counts>>
    PROVE  Sound'
<1>1. CASE Fail(t)
  BY <1>1, FailSound
<1>2. CASE /\ ~Spent(t) /\ UNCHANGED local
           /\ Then(t, Signing(session, task[t].part, task[t].tries + 1))
  <2>1. task[t].part \in Parts /\ task[t].tries + 1 \in 0..MaxAttempts
    BY <1>2, Known DEF AnswerHolds, Spent, Task
  <2>2. PICK call \in Task : /\ call = Signing(session, task[t].part, task[t].tries + 1)
                            /\ call.at = "sign" /\ call.got = "waiting" /\ call.part \in Parts
    BY <2>1, Known, SigningMade
  <2>3. AnswerHolds(call, server)
    BY <2>2 DEF AnswerHolds
  <2> QED
    BY <1>2, <2>2, <2>3, Known, AnsweredSound DEF local
<1> QED
  BY <1>1, <1>2 DEF Retry

LEMMA AnswerHashSound ==
    ASSUME Sound, NEW t \in Tasks, AnswerHash(t), UNCHANGED <<server, counts>>
    PROVE  Sound'
<1>1. CASE Fail(t)
  BY <1>1, FailSound
<1>2. CASE Then(t, Call("create", None)) /\ UNCHANGED local
  <2>1. /\ Call("create", None) \in Task
        /\ AnswerHolds(Call("create", None), server)
    BY Made, MadeHolds DEF Calls
  <2> QED
    BY <1>2, <2>1, Known, AnsweredSound DEF local
<1> QED
  BY <1>1, <1>2 DEF AnswerHash

LEMMA AnswerCreateSound ==
    ASSUME Sound, NEW t \in Tasks, AnswerCreate(t), UNCHANGED <<server, counts>>
    PROVE  Sound'
<1>1. CASE Fail(t)
  BY <1>1, FailSound
<1>2. CASE /\ session' = task[t].on
           /\ Loop(t, 1, task[t].on, registered)
           /\ UNCHANGED <<registered, artifact, aborted, cancelled>>
  BY <1>2, Known, LoopSound
<1> QED
  BY <1>1, <1>2 DEF AnswerCreate

LEMMA AnswerGetSound ==
    ASSUME Sound, NEW t \in Tasks, AnswerGet(t), UNCHANGED <<server, counts>>
    PROVE  Sound'
<1>1. CASE Fail(t)
  BY <1>1, FailSound
<1>2. CASE /\ session' = task[t].on
           /\ Then(t, Call("list", task[t].on))
           /\ UNCHANGED <<phase, registered, artifact, aborted, cancelled>>
  <2>1. /\ Call("list", task[t].on) \in Task
        /\ AnswerHolds(Call("list", task[t].on), server)
    BY Known, Made, MadeHolds DEF Calls
  <2> QED
    BY <1>2, <2>1, Known, AnsweredSound
<1> QED
  BY <1>1, <1>2 DEF AnswerGet

LEMMA AnswerListSound ==
    ASSUME Sound, NEW t \in Tasks, AnswerList(t), UNCHANGED <<server, counts>>
    PROVE  Sound'
<1>1. CASE Fail(t)
  BY <1>1, FailSound
<1>2. CASE /\ registered' = Listed(t)
           /\ Loop(t, 1, session, Listed(t))
           /\ UNCHANGED <<session, artifact, aborted, cancelled>>
  <2>1. Listed(t) \in SUBSET Parts
    BY Known DEF Listed
  <2> QED
    BY <1>2, <2>1, Known, LoopSound
<1> QED
  BY <1>1, <1>2 DEF AnswerList

LEMMA AnswerSignSound ==
    ASSUME Sound, NEW t \in Tasks, AnswerSign(t), UNCHANGED <<server, counts>>
    PROVE  Sound'
<1>1. CASE task[t].at = "sign" /\ Retry(t)
  BY <1>1, RetrySound
<1>2. CASE /\ task[t].at = "sign" /\ UNCHANGED local
           /\ Then(t, Putting(task[t], IF aborted THEN "deaf" ELSE "live"))
  <2>1. PICK old \in Task : old = task[t] /\ old.part \in Parts
    BY <1>2, Known DEF AnswerHolds
  <2>2. PICK signal \in {"deaf", "live"} : signal = IF aborted THEN "deaf" ELSE "live"
    OBVIOUS
  <2>3. PICK call \in Task :
          /\ call = Putting(old, signal)
          /\ call.at = "put" /\ call.got = "waiting" /\ call.part = old.part
    BY PutMade
  <2>4. Then(t, call) /\ AnswerHolds(call, server)
    BY <1>2, <2>1, <2>2, <2>3 DEF AnswerHolds
  <2> QED
    BY <1>2, <2>4, Known, AnsweredSound DEF local
<1> QED
  BY <1>1, <1>2 DEF AnswerSign

LEMMA AnswerPutSound ==
    ASSUME Sound, NEW t \in Tasks, AnswerPut(t), UNCHANGED <<server, counts>>
    PROVE  Sound'
<1>1. CASE task[t].at = "put" /\ Retry(t)
  BY <1>1, RetrySound
<1>2. CASE /\ task[t].at = "put" /\ UNCHANGED local
           /\ Then(t, [Call("register", session) EXCEPT !.part = task[t].part])
  <2>1. PICK call : call = [Call("register", session) EXCEPT !.part = task[t].part]
    OBVIOUS
  <2>2. task[t].part \in Parts
    BY <1>2, Known DEF AnswerHolds
  <2>3. call \in Task /\ call.got = "waiting" /\ call.part \in Parts /\ call.at = "register"
    BY <2>1, <2>2, Known, Made DEF Task, Calls, Parts
  <2>4. AnswerHolds(call, server)
    BY <2>3 DEF AnswerHolds
  <2> QED
    BY <1>2, <2>1, <2>3, <2>4, Known, AnsweredSound DEF local
<1> QED
  BY <1>1, <1>2 DEF AnswerPut

LEMMA AnswerRegisterSound ==
    ASSUME Sound, NEW t \in Tasks, AnswerRegister(t), UNCHANGED <<server, counts>>
    PROVE  Sound'
<1>1. CASE Fail(t)
  BY <1>1, FailSound
<1>2. CASE /\ task[t].at = "register"
           /\ registered' = registered \cup {task[t].part}
           /\ \/ phase # "UPLOADING" /\ Then(t, Idle) /\ UNCHANGED phase
              \/ phase = "UPLOADING" /\ Loop(t, task[t].part + 1, session, registered')
           /\ UNCHANGED <<session, artifact, aborted, cancelled>>
  <2>1. task[t].part \in Parts /\ registered' \in SUBSET Parts /\ task[t].part + 1 \in Nat
    BY <1>2, Known DEF AnswerHolds, Parts
  <2>2. CASE Then(t, Idle) /\ UNCHANGED phase
    BY <1>2, <2>1, <2>2, Known, IdleMade, IdleHolds, AnsweredSound
  <2>3. CASE Loop(t, task[t].part + 1, session, registered')
    BY <1>2, <2>1, <2>3, Known, LoopSound
  <2> QED
    BY <1>2, <2>2, <2>3
<1> QED
  BY <1>1, <1>2 DEF AnswerRegister

LEMMA AnswerCompleteSound ==
    ASSUME Sound, NEW t \in Tasks, task[t].got # "waiting", AnswerComplete(t),
           UNCHANGED <<server, counts>>
    PROVE  Sound'
<1>1. CASE Fail(t)
  BY <1>1, FailSound
<1>2. CASE /\ task[t].at \in {"complete", "publish"} /\ task[t].got # "error"
           /\ artifact' = task[t].on /\ phase' = "COMPLETED" /\ Then(t, Idle)
           /\ UNCHANGED <<session, registered, aborted, cancelled>>
  <2>1. task[t].got \in {"waiting", "ok", "ended", "error"}
    BY Known DEF Task
  <2>2. task[t].got = "ok"
    BY <1>2, <2>1, Known DEF AnswerHolds
  <2>3. task[t].on # None /\ server[task[t].on].status = "COMPLETED"
    BY <1>2, <2>2, Known DEF AnswerHolds
  <2> QED
    BY <1>2, <2>3, Known, IdleMade, IdleHolds, AnsweredSound DEF UploadPhase
<1> QED
  BY <1>1, <1>2 DEF AnswerComplete

LEMMA AnswerCancelSound ==
    ASSUME Sound, NEW t \in Tasks, AnswerCancel(t), UNCHANGED <<server, counts>>
    PROVE  Sound'
<1>1. /\ phase' \in {"CANCELLED", "FAILED"} /\ cancelled' \in BOOLEAN /\ Then(t, Idle)
      /\ UNCHANGED <<session, registered, artifact, aborted>>
  BY Known DEF AnswerCancel, CancelAccepted
<1> QED
  BY <1>1, Known, IdleMade, IdleHolds, AnsweredSound DEF UploadPhase

LEMMA AnswerSound ==
    ASSUME Sound, NEW t \in Tasks, Answer(t)
    PROVE  Sound'
<1>1. task[t].got # "waiting" /\ UNCHANGED <<server, counts>>
  BY DEF Answer
<1> QED
  BY <1>1, AnswerHashSound, AnswerCreateSound, AnswerGetSound, AnswerListSound,
     AnswerSignSound, AnswerPutSound, AnswerRegisterSound, AnswerCompleteSound,
     AnswerCancelSound DEF Answer

(* The server gives an answer that holds, or an error. *)
LEMMA ServedSound ==
    ASSUME Sound, NEW t \in Tasks, NEW call \in Task, Then(t, call),
           server' \in [Sessions -> Upload], Grown(server, server'),
           AnswerHolds(call, server'), UNCHANGED <<local, counts>>
    PROVE  Sound'
<1>1. /\ task' \in [Tasks -> Task]
      /\ \A u \in Tasks : task'[u] = IF u = t THEN call ELSE task[u]
  BY DEF Sound, TypeOK, Then
<1>2. \A u \in Tasks : Rejected(task[u], task'[u]) \/ AnswerHolds(task'[u], server')
  BY <1>1 DEF Rejected
<1>3. /\ phase' \in UploadPhase /\ session' \in Sessions \cup {None} /\ registered' \subseteq Parts
      /\ artifact' \in Sessions \cup {None} /\ aborted' \in BOOLEAN /\ cancelled' \in BOOLEAN
      /\ starts' \in 0..MaxStarts /\ clicks' \in 0..MaxClicks /\ faults' \in 0..MaxFaults
      /\ phase' = "COMPLETED" => artifact' # None
  BY DEF Sound, TypeOK, AnswersHold, local, counts
<1>4. artifact' # None => server'[artifact'].status = "COMPLETED"
  BY DEF Sound, TypeOK, AnswersHold, local, Grown
<1> QED
  BY <1>1, <1>2, <1>3, <1>4, SoundStep

(* What a task is told of a call that is granted is so. *)
LEMMA GrantedHolds ==
    ASSUME Sound, NEW t \in Tasks, Grants(t), task[t].got = "waiting"
    PROVE  /\ Granted(t) \in Task
           /\ Granted(t).on = task[t].on
           /\ Granted(t).at = IF task[t].at = "complete" THEN "publish" ELSE task[t].at
           /\ (task[t].at # "list" => Granted(t).parts = task[t].parts)
           /\ AnswerHolds(Granted(t), Effect(t))
<1> DEFINE old == task[t]
           at == IF old.at = "complete" THEN "publish" ELSE old.at
           parts == IF old.at = "list" THEN server[old.on].parts ELSE old.parts
           call == [at |-> at, on |-> old.on, part |-> old.part, tries |-> old.tries,
                    parts |-> parts, got |-> Outcome(t), signal |-> old.signal]
<1>1. old \in Task /\ AnswerHolds(old, server) /\ server \in [Sessions -> Upload]
  BY Known DEF Sound, TypeOK
<1>2. old.at # "create" /\ (old.at \notin {"hash", "put"} => old.on \in Sessions)
  BY <1>1 DEF Grants, Task, Status
<1>3. parts \subseteq Parts
  BY <1>1, <1>2 DEF Task, Upload
<1>4. /\ Outcome(t) \in {"ok", "ended", "waiting"}
      /\ Outcome(t) = "ended" => old.at = "get"
      /\ Outcome(t) = "ok" => old.at # "complete"
  BY DEF Outcome
<1>5. call \in Task
  <2> HIDE DEF parts
  <2> QED
    BY <1>1, <1>3, <1>4 DEF Task, Calls
<1>6. Granted(t) = call
  <2>1. PICK was : was = old
    OBVIOUS
  <2>2. was = [at |-> was.at, on |-> was.on, part |-> was.part, tries |-> was.tries,
               parts |-> was.parts, got |-> was.got, signal |-> was.signal]
    BY <1>1, <2>1 DEF Task
  <2>3. Granted(t) = [was EXCEPT !.got = Outcome(t),
                         !.at = IF @ = "complete" THEN "publish" ELSE @,
                         !.parts = IF was.at = "list" THEN server[was.on].parts ELSE @]
    BY <2>1 DEF Granted
  <2> QED
    BY <2>1, <2>2, <2>3
<1>7. AnswerHolds(call, Effect(t))
  <2>1. call.got = "ended" => call.at = "get"
    BY <1>4
  <2>2. call.at \in {"sign", "put", "register"} => call.part \in Parts
    BY <1>1 DEF AnswerHolds
  <2>3. call.at = "publish" => call.on # None
    BY <1>2
  <2>4. ASSUME call.got = "ok" PROVE /\ call.at # "complete" /\ call.at = old.at
                                    /\ call.at \in {"create", "list", "register", "cancel"}
                                          => call.on # None
    BY <1>2, <1>4, <2>4
  <2>5. CASE old.at \notin {"list", "register", "publish", "cancel", "complete"}
    BY <2>1, <2>2, <2>3, <2>4, <2>5 DEF AnswerHolds
  <2>6. CASE old.at = "list"
    <3>1. Effect(t) = server
      BY <2>6 DEF Effect
    <3> QED
      BY <2>1, <2>2, <2>3, <2>4, <2>6, <3>1 DEF AnswerHolds
  <2>7. CASE old.at = "register"
    <3>1. old.part \in Effect(t)[old.on].parts
      BY <1>1, <1>2, <2>7 DEF Effect, Upload
    <3> QED
      BY <2>1, <2>2, <2>3, <2>4, <2>7, <3>1 DEF AnswerHolds
  <2>8. CASE old.at = "publish"
    <3>1. Effect(t)[old.on].status = "COMPLETED"
      BY <1>1, <1>2, <2>8 DEF Effect, Upload
    <3> QED
      BY <2>1, <2>2, <2>3, <2>4, <2>8, <3>1 DEF AnswerHolds
  <2>9. CASE old.at = "cancel"
    <3>1. Over(Effect(t)[old.on])
      BY <1>1, <1>2, <2>9 DEF Effect, Upload, Over
    <3> QED
      BY <2>1, <2>2, <2>3, <2>4, <2>9, <3>1 DEF AnswerHolds
  <2>10. CASE old.at = "complete"
    <3>1. call.got = "waiting" /\ call.at = "publish"
      BY <2>10 DEF Outcome
    <3> QED
      BY <1>2, <2>10, <3>1 DEF AnswerHolds
  <2> QED
    BY <2>5, <2>6, <2>7, <2>8, <2>9, <2>10
<1>8. /\ call.on = old.on /\ call.at = at
      /\ (old.at # "list" => call.parts = old.parts)
  OBVIOUS
<1> HIDE DEF call
<1> QED
  BY <1>5, <1>6, <1>7, <1>8

(* A call that fails holds what it held. *)
LEMMA ErrorHolds ==
    ASSUME Sound, NEW t \in Tasks
    PROVE  \E call \in Task : /\ call = [task[t] EXCEPT !.got = "error"]
                              /\ Rejected(task[t], call)
<1>1. PICK old \in Task : old = task[t]
  BY Known
<1>2. PICK call : call = [old EXCEPT !.got = "error"]
  OBVIOUS
<1>3. call \in Task /\ Rejected(old, call)
  BY <1>1, <1>2 DEF Task, Rejected
<1> QED
  BY <1>1, <1>2, <1>3

LEMMA RejectedSound ==
    ASSUME Sound, NEW t \in Tasks, Replied(t, "error"),
           server' \in [Sessions -> Upload], Grown(server, server'), UNCHANGED local,
           starts' \in 0..MaxStarts, clicks' \in 0..MaxClicks, faults' \in 0..MaxFaults
    PROVE  Sound'
<1>1. PICK call \in Task : /\ call = [task[t] EXCEPT !.got = "error"]
                          /\ Rejected(task[t], call)
  BY ErrorHolds
<1>2. /\ task' \in [Tasks -> Task]
      /\ \A u \in Tasks : task'[u] = IF u = t THEN call ELSE task[u]
  BY <1>1 DEF Sound, TypeOK, Replied, Then
<1>3. \A u \in Tasks : Rejected(task[u], task'[u])
  BY <1>1, <1>2 DEF Rejected
<1>4. /\ phase' \in UploadPhase /\ session' \in Sessions \cup {None} /\ registered' \subseteq Parts
      /\ artifact' \in Sessions \cup {None} /\ aborted' \in BOOLEAN /\ cancelled' \in BOOLEAN
      /\ phase' = "COMPLETED" => artifact' # None
  BY DEF Sound, TypeOK, AnswersHold, local
<1>5. artifact' # None => server'[artifact'].status = "COMPLETED"
  BY DEF Sound, TypeOK, AnswersHold, local, Grown
<1> QED
  BY <1>2, <1>3, <1>4, <1>5, SoundStep

LEMMA ServeSound ==
    ASSUME Sound, NEW t \in Tasks, Serve(t)
    PROVE  Sound'
<1>1. CASE Grants(t) /\ server' = Effect(t) /\ Then(t, Granted(t))
  <2>1. task[t].got = "waiting" /\ UNCHANGED <<local, counts>>
    BY DEF Serve
  <2>2. PICK call \in Task : call = Granted(t) /\ AnswerHolds(call, Effect(t))
    BY <1>1, <2>1, GrantedHolds
  <2>3. Effect(t) \in [Sessions -> Upload] /\ Grown(server, Effect(t))
    BY <1>1, EffectGrows
  <2> QED
    BY <1>1, <2>1, <2>2, <2>3, ServedSound
<1>2. CASE Replied(t, "error") /\ UNCHANGED server
  BY <1>2, ServerSame, RejectedSound DEF Serve, Sound, TypeOK, counts
<1> QED
  BY <1>1, <1>2 DEF Serve

(* A session is made for a row that was not in use. *)
LEMMA OpenedGrows ==
    ASSUME Sound, NEW s \in Sessions, server[s].status = "none",
           server' = [server EXCEPT ![s].status = "open"]
    PROVE  server' \in [Sessions -> Upload] /\ Grown(server, server')
BY DEF Sound, TypeOK, AnswersHold, Upload, Grown, Over, SessionStatus

LEMMA CreateSound ==
    ASSUME Sound, NEW t \in Tasks, Create(t)
    PROVE  Sound'
<1>1. PICK s \in Sessions : /\ server[s].status = "none"
                           /\ server' = [server EXCEPT ![s].status = "open"]
                           /\ Then(t, [task[t] EXCEPT !.got = "ok", !.on = s])
  BY DEF Create
<1>2. PICK old \in Task : old = task[t] /\ old.at = "create"
  BY Known DEF Create
<1>3. PICK call : call = [old EXCEPT !.got = "ok", !.on = s]
  OBVIOUS
<1>4. call \in Task /\ call.at = "create" /\ call.on = s /\ call.got = "ok"
  BY <1>2, <1>3 DEF Task
<1>5. AnswerHolds(call, server')
  BY <1>4 DEF AnswerHolds
<1> QED
  BY <1>1, <1>2, <1>3, <1>4, <1>5, OpenedGrows, ServedSound DEF Create

LEMMA FaultSound ==
    ASSUME Sound, NEW t \in Tasks, Fault(t)
    PROVE  Sound'
<1>1. /\ faults' \in 0..MaxFaults /\ starts' \in 0..MaxStarts /\ clicks' \in 0..MaxClicks
      /\ Replied(t, "error") /\ UNCHANGED local
  BY DEF Fault, Sound, TypeOK
<1>2. server' \in [Sessions -> Upload] /\ Grown(server, server')
  <2>1. CASE UNCHANGED server
    BY <2>1, ServerSame DEF Sound, TypeOK
  <2>2. CASE Grants(t) /\ server' = Effect(t)
    BY <2>2, EffectGrows
  <2>3. CASE \E s \in Sessions :
               server[s].status = "none" /\ server' = [server EXCEPT ![s].status = "open"]
    BY <2>3, OpenedGrows
  <2> QED
    BY <2>1, <2>2, <2>3 DEF Fault
<1> QED
  BY <1>1, <1>2, RejectedSound

LEMMA ExpiredGrows ==
    ASSUME Sound, NEW s \in Sessions, Expire(s)
    PROVE  /\ server' \in [Sessions -> Upload] /\ Grown(server, server')
           /\ Over(server'[s])
<1>1. /\ server[s].status \in {"open", "COMPLETING"}
      /\ server' = [server EXCEPT ![s].status = "EXPIRED", ![s].late = TRUE]
      /\ UNCHANGED <<local, counts>>
  BY DEF Expire
<1>2. PICK upload \in Upload : /\ upload = [server[s] EXCEPT !.status = "EXPIRED", !.late = TRUE]
                              /\ upload.parts = server[s].parts
                              /\ upload.status = "EXPIRED" /\ upload.late
  <2>1. PICK old \in Upload : old = server[s]
    BY DEF Sound, TypeOK
  <2>2. PICK upload : upload = [old EXCEPT !.status = "EXPIRED", !.late = TRUE]
    OBVIOUS
  <2>3. upload \in Upload /\ upload.parts = old.parts /\ upload.status = "EXPIRED" /\ upload.late
    BY <2>1, <2>2 DEF Upload, SessionStatus
  <2> QED
    BY <2>1, <2>2, <2>3
<1>3. /\ server' \in [Sessions -> Upload]
      /\ \A r \in Sessions : server'[r] = IF r = s THEN upload ELSE server[r]
  BY <1>1, <1>2 DEF Sound, TypeOK
<1>4. Grown(server, server')
  BY <1>1, <1>2, <1>3 DEF Grown, Over, Sound, AnswersHold
<1>5. Over(server'[s])
  BY <1>2, <1>3 DEF Over
<1> QED
  BY <1>3, <1>4, <1>5

LEMMA ExpireSound ==
    ASSUME Sound, NEW s \in Sessions, Expire(s)
    PROVE  Sound'
<1>1. UNCHANGED <<local, counts>>
  BY DEF Expire
<1>2. /\ server' \in [Sessions -> Upload] /\ Grown(server, server')
      /\ Over(server'[s])
  BY ExpiredGrows
<1>3. /\ task' \in [Tasks -> Task]
      /\ \A t \in Tasks : Rejected(task[t], task'[t]) \/ AnswerHolds(task'[t], server')
  <2>1. CASE UNCHANGED task
    BY <2>1 DEF Sound, TypeOK, Rejected
  <2>2. ASSUME NEW t \in Tasks, task[t].at = "cancel", task[t].on = s, Replied(t, "ok")
        PROVE  <1>3
    <3>1. PICK old \in Task : old = task[t]
      BY Known
    <3>2. PICK call : call = [old EXCEPT !.got = "ok"]
      OBVIOUS
    <3>3. call \in Task /\ call.at = "cancel" /\ call.on = s /\ call.got = "ok"
      BY <2>2, <3>1, <3>2 DEF Task
    <3>4. AnswerHolds(call, server')
      BY <1>2, <3>3 DEF AnswerHolds
    <3>5. /\ task' \in [Tasks -> Task]
          /\ \A u \in Tasks : task'[u] = IF u = t THEN call ELSE task[u]
      BY <2>2, <3>1, <3>2, <3>3 DEF Sound, TypeOK, Replied, Then
    <3> QED
      BY <3>4, <3>5 DEF Rejected
  <2> QED
    BY <2>1, <2>2 DEF Expire
<1>4. /\ phase' \in UploadPhase /\ session' \in Sessions \cup {None} /\ registered' \subseteq Parts
      /\ artifact' \in Sessions \cup {None} /\ aborted' \in BOOLEAN /\ cancelled' \in BOOLEAN
      /\ starts' \in 0..MaxStarts /\ clicks' \in 0..MaxClicks /\ faults' \in 0..MaxFaults
      /\ phase' = "COMPLETED" => artifact' # None
  BY <1>1 DEF Sound, TypeOK, AnswersHold, local, counts
<1>5. artifact' # None => server'[artifact'].status = "COMPLETED"
  BY <1>1, <1>2 DEF Sound, TypeOK, AnswersHold, local, Grown
<1> QED
  BY <1>2, <1>3, <1>4, <1>5, SoundStep

(* The buttons. *)
LEMMA CountsTyped ==
    ASSUME Sound
    PROVE  starts \in 0..MaxStarts /\ clicks \in 0..MaxClicks /\ faults \in 0..MaxFaults
BY DEF Sound, TypeOK

LEMMA ClickedSound ==
    ASSUME Sound, NEW others \in [Tasks -> Task], \A u \in Tasks : Rejected(task[u], others[u]),
           NEW t \in Tasks, NEW call \in Task, AnswerHolds(call, server),
           task' = [others EXCEPT ![t] = call], UNCHANGED server,
           starts' \in 0..MaxStarts, clicks' \in 0..MaxClicks, faults' \in 0..MaxFaults,
           phase' \in UploadPhase, session' \in Sessions \cup {None}, registered' \subseteq Parts,
           aborted' \in BOOLEAN, cancelled' \in BOOLEAN,
           artifact' \in {None, artifact}, phase' = "COMPLETED" => artifact' # None
    PROVE  Sound'
<1>1. /\ task' \in [Tasks -> Task]
      /\ \A u \in Tasks : task'[u] = IF u = t THEN call ELSE others[u]
  OBVIOUS
<1>2. \A u \in Tasks : Rejected(task[u], task'[u]) \/ AnswerHolds(task'[u], server')
  BY <1>1
<1>3. /\ server' \in [Sessions -> Upload] /\ Grown(server, server')
      /\ artifact' \in Sessions \cup {None}
      /\ artifact' # None => server'[artifact'].status = "COMPLETED"
  BY ServerSame DEF Sound, TypeOK, AnswersHold
<1> QED
  BY <1>1, <1>2, <1>3, SoundStep

LEMMA BeginSound ==
    ASSUME Sound, NEW t \in Tasks, Begin(t), UNCHANGED server,
           starts' \in 0..MaxStarts, clicks' \in 0..MaxClicks, faults' \in 0..MaxFaults
    PROVE  Sound'
<1>1. /\ Call("hash", None) \in Task /\ AnswerHolds(Call("hash", None), server)
      /\ Deafened \in [Tasks -> Task] /\ \A u \in Tasks : Rejected(task[u], Deafened[u])
  BY Made, MadeHolds, OthersRejected DEF Calls, Sound
<1>2. /\ phase' = "HASHING" /\ session' = None /\ registered' = {} /\ artifact' = None
      /\ aborted' = FALSE /\ cancelled' = FALSE
      /\ task' = [Deafened EXCEPT ![t] = Call("hash", None)]
  BY DEF Begin
<1>3. phase' \in UploadPhase /\ phase' # "COMPLETED"
  BY <1>2 DEF UploadPhase
<1> QED
  BY <1>1, <1>2, <1>3, ClickedSound

LEMMA StartSound ==
    ASSUME Sound, NEW t \in Tasks, Start(t)
    PROVE  Sound'
<1>1. /\ starts' \in 0..MaxStarts /\ clicks' \in 0..MaxClicks /\ faults' \in 0..MaxFaults
      /\ Begin(t) /\ UNCHANGED server
  BY CountsTyped DEF Start
<1> QED
  BY <1>1, BeginSound

LEMMA PauseSound ==
    ASSUME Sound, Pause
    PROVE  Sound'
<1>1. /\ Aborting \in [Tasks -> Task] /\ \A u \in Tasks : Rejected(task[u], Aborting[u])
  BY OthersRejected DEF Sound
<1>2. /\ task' = Aborting /\ phase' \in UploadPhase /\ phase' # "COMPLETED" /\ aborted' \in BOOLEAN
      /\ UNCHANGED <<session, registered, artifact, server, cancelled>>
      /\ starts' \in 0..MaxStarts /\ clicks' \in 0..MaxClicks /\ faults' \in 0..MaxFaults
  BY CountsTyped DEF Pause, UploadPhase
<1>3. \A u \in Tasks : Rejected(task[u], task'[u])
  BY <1>1, <1>2
<1>4. /\ server' \in [Sessions -> Upload] /\ Grown(server, server')
      /\ session' \in Sessions \cup {None} /\ registered' \subseteq Parts /\ cancelled' \in BOOLEAN
      /\ artifact' \in Sessions \cup {None}
      /\ artifact' # None => server'[artifact'].status = "COMPLETED"
  BY <1>2, ServerSame DEF Sound, TypeOK, AnswersHold
<1>5. task' \in [Tasks -> Task]
  BY <1>1, <1>2
<1> QED
  BY <1>2, <1>3, <1>4, <1>5, SoundStep

LEMMA ResumeSound ==
    ASSUME Sound, NEW t \in Tasks, Resume(t)
    PROVE  Sound'
<1>1. /\ UNCHANGED <<server, counts>>
      /\ starts' \in 0..MaxStarts /\ clicks' \in 0..MaxClicks /\ faults' \in 0..MaxFaults
  BY CountsTyped DEF Resume, counts
<1>2. CASE Begin(t)
  BY <1>1, <1>2, BeginSound
<1>3. CASE /\ aborted' = FALSE
           /\ task' = [Deafened EXCEPT ![t] = Call("get", session)]
           /\ UNCHANGED <<phase, session, registered, artifact, cancelled>>
  <2>1. /\ Call("get", session) \in Task /\ AnswerHolds(Call("get", session), server)
        /\ Deafened \in [Tasks -> Task] /\ \A u \in Tasks : Rejected(task[u], Deafened[u])
    BY Known, Made, MadeHolds, OthersRejected DEF Calls, Sound
  <2> QED
    BY <1>1, <1>3, <2>1, Known, ClickedSound
<1> QED
  BY <1>2, <1>3 DEF Resume

LEMMA CancelSound ==
    ASSUME Sound, NEW t \in Tasks, Cancel(t)
    PROVE  Sound'
<1>1. /\ starts' \in 0..MaxStarts /\ clicks' \in 0..MaxClicks /\ faults' \in 0..MaxFaults
      /\ aborted' \in BOOLEAN /\ phase # "COMPLETED"
      /\ UNCHANGED <<session, registered, artifact, server>>
  BY CountsTyped DEF Cancel
<1>2. /\ Aborting \in [Tasks -> Task] /\ \A u \in Tasks : Rejected(task[u], Aborting[u])
  BY OthersRejected DEF Sound
<1>3. CASE /\ task' = [Aborting EXCEPT ![t] = Call("cancel", session)]
           /\ UNCHANGED <<phase, cancelled>>
  <2>1. /\ Call("cancel", session) \in Task /\ AnswerHolds(Call("cancel", session), server)
    BY Known, Made, MadeHolds DEF Calls
  <2> QED
    BY <1>1, <1>2, <1>3, <2>1, Known, ClickedSound
<1>4. CASE task' = Aborting /\ phase' = "CANCELLED" /\ cancelled' = TRUE
  <2>1. \A u \in Tasks : Rejected(task[u], task'[u])
    BY <1>2, <1>4
  <2>2. /\ server' \in [Sessions -> Upload] /\ Grown(server, server')
        /\ session' \in Sessions \cup {None} /\ registered' \subseteq Parts /\ cancelled' \in BOOLEAN
        /\ artifact' \in Sessions \cup {None}
        /\ artifact' # None => server'[artifact'].status = "COMPLETED"
        /\ phase' \in UploadPhase /\ phase' # "COMPLETED"
    BY <1>1, <1>4, ServerSame DEF Sound, TypeOK, AnswersHold, UploadPhase
  <2> QED
    BY <1>1, <1>2, <1>4, <2>1, <2>2, SoundStep
<1> QED
  BY <1>3, <1>4 DEF Cancel

LEMMA InitSound == Init => Sound
<1> SUFFICES ASSUME Init PROVE Sound
  OBVIOUS
<1>1. \A t \in Tasks : task[t] = Idle
  BY DEF Init
<1>2. TypeOK
  <2>1. task \in [Tasks -> Task]
    BY <1>1, IdleMade DEF Init
  <2>2. server \in [Sessions -> Upload]
    BY DEF Init, Upload, SessionStatus
  <2>3. starts \in 0..MaxStarts /\ clicks \in 0..MaxClicks /\ faults \in 0..MaxFaults
    BY DEF Init
  <2>4. phase \in UploadPhase /\ session \in Sessions \cup {None} /\ registered \subseteq Parts
    BY DEF Init, UploadPhase
  <2>5. artifact \in Sessions \cup {None} /\ aborted \in BOOLEAN /\ cancelled \in BOOLEAN
    BY DEF Init
  <2> QED
    BY <2>1, <2>2, <2>3, <2>4, <2>5 DEF TypeOK
<1>3. AnswersHold
  BY <1>1, IdleHolds DEF Init, AnswersHold
<1> QED
  BY <1>2, <1>3 DEF Sound

LEMMA SoundInductive == Sound /\ [Next]_vars => Sound'
<1> SUFFICES ASSUME Sound, [Next]_vars PROVE Sound'
  OBVIOUS
<1>1. CASE Pause
  BY <1>1, PauseSound
<1>2. ASSUME NEW t \in Tasks, Start(t) \/ Resume(t) \/ Cancel(t) PROVE Sound'
  BY <1>2, StartSound, ResumeSound, CancelSound
<1>3. ASSUME NEW t \in Tasks, Serve(t) \/ Create(t) \/ Fault(t) \/ Answer(t) PROVE Sound'
  BY <1>3, ServeSound, CreateSound, FaultSound, AnswerSound
<1>4. ASSUME NEW s \in Sessions, Expire(s) PROVE Sound'
  BY <1>4, ExpireSound
<1>5. CASE UNCHANGED vars
  BY <1>5 DEF vars, Sound, TypeOK, AnswersHold
<1> QED
  BY <1>1, <1>2, <1>3, <1>4, <1>5 DEF Next

(* Whatever the user does, with any number of files, clicks and failures,  *)
(* every variable keeps its type.                                          *)
THEOREM TypeCorrectness == Spec => []TypeOK
<1>1. Sound => TypeOK
  BY DEF Sound
<1> QED
  BY <1>1, InitSound, SoundInductive, PTL DEF Spec

(* Whatever the user does, the page shows no upload as completed that the  *)
(* server has not completed: artifact is what complete answered.           *)
THEOREM CompletionShown == Spec => []CompletedIsSo
<1>1. Sound => CompletedIsSo
  BY DEF Sound, AnswersHold, CompletedIsSo
<1> QED
  BY <1>1, InitSound, SoundInductive, PTL DEF Spec

----------------------------------------------------------------------------
(* One file at a time. *)

(* The session stays, and what the tasks go on with is about it.           *)
LEMMA SessionStays ==
    ASSUME IInv, session # None, UNCHANGED session, Grown(server, server'),
           registered' \subseteq server'[session].parts,
           phase' # "IDLE", phase' = "CANCELLED" => Over(server'[session]),
           \A t \in Tasks : \/ Rejected(task[t], task'[t])
                            \/ BelongsTo(task'[t], session, server'[session])
    PROVE  OnlyMaker' /\ OneSession'
<1>1. session \in Sessions /\ server[session].parts \subseteq server'[session].parts
  BY DEF IInv, TypeOK, Grown
<1>2. ASSUME NEW t \in Tasks PROVE BelongsTo(task'[t], session, server'[session])
  <2>1. BelongsTo(task[t], session, server[session])
    BY DEF IInv, OneSession
  <2>2. CASE Rejected(task[t], task'[t])
    BY <1>1, <2>1, <2>2 DEF Rejected, BelongsTo
  <2> QED
    BY <2>2
<1> QED
  BY <1>2 DEF OnlyMaker, OneSession

(* There is still no session, and no task that was not there.              *)
LEMMA NoSessionYet ==
    ASSUME IInv, session = None, UNCHANGED <<session, registered>>,
           phase' \in {"IDLE", "HASHING", "FAILED", "CANCELLED"},
           phase' \in {"IDLE", "FAILED"} => \A t \in Tasks : task'[t].at = "idle",
           \A t \in Tasks : /\ task'[t].at \in {"idle", "hash", "create"}
                            /\ task[t].at = "idle" => task'[t].at = "idle"
    PROVE  OnlyMaker' /\ OneSession'
<1>1. registered' = {}
  BY DEF IInv, OnlyMaker
<1>2. \A t, u \in Tasks : task'[t].at # "idle" /\ task'[u].at # "idle" => t = u
  BY DEF IInv, OnlyMaker
<1> QED
  BY <1>1, <1>2 DEF OnlyMaker, OneSession, Quiet

(* What is known of a task that is under way. *)
LEMMA UnderWay ==
    ASSUME IInv, NEW t \in Tasks, task[t].at # "idle"
    PROVE  /\ Sound
           /\ session # None =>
                 /\ session \in Sessions /\ task[t].on = session
                 /\ task[t].at \notin {"hash", "create"}
                 /\ registered \subseteq server[session].parts /\ phase # "IDLE"
                 /\ phase = "CANCELLED" => Over(server[session])
                 /\ task[t].at \in {"complete", "publish"} =>
                       task[t].parts \subseteq server[session].parts
           /\ session = None =>
                 /\ registered = {} /\ task[t].at \in {"hash", "create"}
                 /\ phase \in {"HASHING", "CANCELLED"}
                 /\ \A u \in Tasks \ {t} : task[u].at = "idle"
BY DEF IInv, Sound, TypeOK, OneSession, BelongsTo, OnlyMaker, Quiet

(* A task of the session goes on with an answer. *)
LEMMA AnsweredHere ==
    ASSUME IInv, session # None, NEW t \in Tasks, NEW call \in Task, Then(t, call),
           UNCHANGED <<server, session>>,
           BelongsTo(call, session, server[session]),
           registered' \subseteq server[session].parts,
           phase' # "IDLE", phase' = "CANCELLED" => Over(server[session])
    PROVE  OnlyMaker' /\ OneSession'
<1>1. \A u \in Tasks : task'[u] = IF u = t THEN call ELSE task[u]
  BY DEF IInv, TypeOK, Then
<1>2. \A u \in Tasks : \/ Rejected(task[u], task'[u])
                       \/ BelongsTo(task'[u], session, server'[session])
  BY <1>1 DEF Rejected
<1>3. Grown(server, server')
  BY ServerSame DEF IInv, Sound
<1> QED
  BY <1>2, <1>3, SessionStays

LEMMA FailHere ==
    ASSUME IInv, NEW t \in Tasks, task[t].at # "idle", Fail(t), UNCHANGED server
    PROVE  OnlyMaker' /\ OneSession'
<1>1. /\ Then(t, Idle) /\ UNCHANGED <<session, registered>>
      /\ phase' = IF phase \in {"PAUSED", "CANCELLED"} THEN phase ELSE "FAILED"
  BY DEF Fail
<1>2. CASE session # None
  <2>1. BelongsTo(Idle, session, server[session])
    BY IdleMade DEF BelongsTo
  <2>2. /\ registered' \subseteq server[session].parts
        /\ phase' # "IDLE" /\ (phase' = "CANCELLED" => Over(server[session]))
    BY <1>1, <1>2, UnderWay
  <2> QED
    BY <1>1, <1>2, <2>1, <2>2, IdleMade, AnsweredHere
<1>3. CASE session = None
  <2>1. \A u \in Tasks : task'[u] = IF u = t THEN Idle ELSE task[u]
    BY <1>1 DEF IInv, TypeOK, Then
  <2>2. \A u \in Tasks : task'[u].at = "idle"
    BY <1>3, <2>1, UnderWay, IdleMade
  <2>3. phase' \in {"FAILED", "CANCELLED"}
    BY <1>1, <1>3, UnderWay
  <2> QED
    BY <1>1, <1>3, <2>2, <2>3, NoSessionYet
<1> QED
  BY <1>2, <1>3

LEMMA LoopHere ==
    ASSUME IInv, session # None, NEW t \in Tasks, NEW n \in Nat, NEW known \in SUBSET Parts,
           Loop(t, n, session, known), UNCHANGED <<server, session>>,
           known \subseteq server[session].parts, registered' \subseteq server[session].parts
    PROVE  OnlyMaker' /\ OneSession'
<1>1. session \in Sessions \cup {None}
  BY DEF IInv, TypeOK
<1>2. PICK call \in Task : /\ Then(t, call)
                          /\ call.at \in {"sign", "complete"}
                          /\ call.on = session
                          /\ call.parts \subseteq known
  BY <1>1, LoopGoesOn
<1>3. phase' \in {"UPLOADING", "COMPLETING"}
  BY <1>1, LoopGoesOn
<1>4. BelongsTo(call, session, server[session])
  BY <1>2 DEF BelongsTo
<1> QED
  BY <1>2, <1>3, <1>4, AnsweredHere

LEMMA RetryHere ==
    ASSUME IInv, NEW t \in Tasks, task[t].at \in {"sign", "put"}, Retry(t), UNCHANGED server
    PROVE  OnlyMaker' /\ OneSession'
<1>1. CASE Fail(t)
  BY <1>1, FailHere
<1>2. CASE /\ ~Spent(t) /\ UNCHANGED local
           /\ Then(t, Signing(session, task[t].part, task[t].tries + 1))
  <2>1. session # None /\ Sound
    BY UnderWay
  <2>2. task[t].part \in Parts /\ task[t].tries + 1 \in 0..MaxAttempts
    BY <1>2, <2>1, Known DEF AnswerHolds, Spent, Task
  <2>3. PICK call \in Task : /\ call = Signing(session, task[t].part, task[t].tries + 1)
                            /\ call.at = "sign" /\ call.on = session
    BY <2>1, <2>2, Known, SigningMade
  <2>4. BelongsTo(call, session, server[session])
    BY <2>3 DEF BelongsTo
  <2>5. /\ registered' \subseteq server[session].parts
        /\ phase' # "IDLE" /\ (phase' = "CANCELLED" => Over(server[session]))
    BY <1>2, <2>1, UnderWay DEF local
  <2> QED
    BY <1>2, <2>1, <2>3, <2>4, <2>5, AnsweredHere DEF local
<1> QED
  BY <1>1, <1>2 DEF Retry

(* The answers, one by one. *)
LEMMA AnswerHashHere ==
    ASSUME IInv, NEW t \in Tasks, AnswerHash(t), UNCHANGED server
    PROVE  OnlyMaker' /\ OneSession'
<1>1. task[t].at = "hash" /\ task[t].at # "idle"
  BY DEF AnswerHash
<1>2. CASE Fail(t)
  BY <1>1, <1>2, FailHere
<1>3. CASE Then(t, Call("create", None)) /\ UNCHANGED local
  <2>1. /\ session = None /\ phase \in {"HASHING", "CANCELLED"}
        /\ \A u \in Tasks \ {t} : task[u].at = "idle"
    BY <1>1, UnderWay
  <2>2. Call("create", None).at = "create"
    BY Made DEF Calls
  <2>3. \A u \in Tasks : task'[u] = IF u = t THEN Call("create", None) ELSE task[u]
    BY <1>3 DEF IInv, TypeOK, Then
  <2>4. \A u \in Tasks : /\ task'[u].at \in {"idle", "hash", "create"}
                         /\ task[u].at = "idle" => task'[u].at = "idle"
    BY <1>1, <2>1, <2>2, <2>3
  <2> QED
    BY <1>3, <2>1, <2>4, NoSessionYet DEF local
<1> QED
  BY <1>2, <1>3 DEF AnswerHash

LEMMA AnswerCreateHere ==
    ASSUME IInv, NEW t \in Tasks, task[t].got # "waiting", AnswerCreate(t), UNCHANGED server
    PROVE  OnlyMaker' /\ OneSession'
<1>1. task[t].at = "create" /\ task[t].at # "idle"
  BY DEF AnswerCreate
<1>2. CASE Fail(t)
  BY <1>1, <1>2, FailHere
<1>3. CASE /\ task[t].got # "error"
           /\ session' = task[t].on
           /\ Loop(t, 1, task[t].on, registered)
           /\ UNCHANGED <<registered, artifact, aborted, cancelled>>
  <2>1. /\ Sound /\ session = None /\ registered = {}
        /\ \A u \in Tasks \ {t} : task[u].at = "idle"
    BY <1>1, UnderWay
  <2>2. task[t].got = "ok"
    BY <1>1, <1>3, <2>1, Known DEF Task, AnswerHolds
  <2>3. task[t].on \in Sessions
    BY <1>1, <2>1, <2>2, Known DEF AnswerHolds
  <2>4. PICK call \in Task : /\ Then(t, call)
                            /\ call.at \in {"sign", "complete"}
                            /\ call.on = task[t].on
                            /\ call.parts \subseteq registered
    BY <1>3, <2>1, <2>3, LoopGoesOn
  <2>5. phase' \in {"UPLOADING", "COMPLETING"}
    BY <1>3, <2>1, <2>3, LoopGoesOn
  <2>6. \A u \in Tasks : task'[u] = IF u = t THEN call ELSE task[u]
    BY <2>4 DEF IInv, TypeOK, Then
  <2>7. \A u \in Tasks : BelongsTo(task'[u], session', server'[session'])
    BY <1>3, <2>1, <2>4, <2>6 DEF BelongsTo
  <2>8. session' # None /\ registered' = {}
    BY <1>3, <2>1, <2>3
  <2> QED
    BY <2>5, <2>7, <2>8 DEF OnlyMaker, OneSession
<1> QED
  BY <1>2, <1>3 DEF AnswerCreate

LEMMA AnswerGetHere ==
    ASSUME IInv, NEW t \in Tasks, AnswerGet(t), UNCHANGED server
    PROVE  OnlyMaker' /\ OneSession'
<1>1. task[t].at = "get" /\ task[t].at # "idle"
  BY DEF AnswerGet
<1>2. CASE Fail(t)
  BY <1>1, <1>2, FailHere
<1>3. CASE /\ session' = task[t].on
           /\ Then(t, Call("list", task[t].on))
           /\ UNCHANGED <<phase, registered, artifact, aborted, cancelled>>
  <2>1. /\ Sound /\ session # None /\ task[t].on = session /\ session \in Sessions
        /\ registered \subseteq server[session].parts
        /\ phase # "IDLE" /\ (phase = "CANCELLED" => Over(server[session]))
    BY <1>1, UnderWay
  <2>2. /\ Call("list", session) \in Task
        /\ BelongsTo(Call("list", session), session, server[session])
    BY <2>1, Made DEF Calls, BelongsTo
  <2> QED
    BY <1>3, <2>1, <2>2, AnsweredHere
<1> QED
  BY <1>2, <1>3 DEF AnswerGet

LEMMA AnswerListHere ==
    ASSUME IInv, NEW t \in Tasks, task[t].got # "waiting", AnswerList(t), UNCHANGED server
    PROVE  OnlyMaker' /\ OneSession'
<1>1. task[t].at = "list" /\ task[t].at # "idle"
  BY DEF AnswerList
<1>2. CASE Fail(t)
  BY <1>1, <1>2, FailHere
<1>3. CASE /\ task[t].got # "error"
           /\ registered' = Listed(t)
           /\ Loop(t, 1, session, Listed(t))
           /\ UNCHANGED <<session, artifact, aborted, cancelled>>
  <2>1. Sound /\ session # None /\ task[t].on = session
    BY <1>1, UnderWay
  <2>2. task[t].got = "ok"
    BY <1>1, <1>3, <2>1, Known DEF Task, AnswerHolds
  <2>3. Listed(t) \in SUBSET Parts /\ Listed(t) \subseteq server[session].parts
    BY <1>1, <2>1, <2>2, Known DEF AnswerHolds, Listed
  <2> QED
    BY <1>3, <2>1, <2>3, LoopHere
<1> QED
  BY <1>2, <1>3 DEF AnswerList

LEMMA AnswerSignHere ==
    ASSUME IInv, NEW t \in Tasks, AnswerSign(t), UNCHANGED server
    PROVE  OnlyMaker' /\ OneSession'
<1>1. task[t].at = "sign" /\ task[t].at # "idle"
  BY DEF AnswerSign
<1>2. CASE Retry(t)
  BY <1>1, <1>2, RetryHere
<1>3. CASE /\ UNCHANGED local
           /\ Then(t, Putting(task[t], IF aborted THEN "deaf" ELSE "live"))
  <2>1. /\ Sound /\ session # None /\ task[t].on = session
        /\ registered \subseteq server[session].parts
        /\ phase # "IDLE" /\ (phase = "CANCELLED" => Over(server[session]))
    BY <1>1, UnderWay
  <2>2. PICK old \in Task : old = task[t]
    BY <2>1, Known
  <2>3. PICK signal \in {"deaf", "live"} : signal = IF aborted THEN "deaf" ELSE "live"
    OBVIOUS
  <2>4. PICK call \in Task :
          /\ call = Putting(old, signal)
          /\ call.at = "put" /\ call.on = old.on
    BY PutMade
  <2>5. BelongsTo(call, session, server[session])
    BY <2>1, <2>2, <2>4 DEF BelongsTo
  <2>6. Then(t, call) /\ UNCHANGED <<session, phase, registered>>
    BY <1>3, <2>2, <2>3, <2>4 DEF local
  <2> QED
    BY <2>1, <2>4, <2>5, <2>6, AnsweredHere
<1> QED
  BY <1>2, <1>3 DEF AnswerSign

LEMMA AnswerPutHere ==
    ASSUME IInv, NEW t \in Tasks, AnswerPut(t), UNCHANGED server
    PROVE  OnlyMaker' /\ OneSession'
<1>1. task[t].at = "put" /\ task[t].at # "idle"
  BY DEF AnswerPut
<1>2. CASE Retry(t)
  BY <1>1, <1>2, RetryHere
<1>3. CASE /\ UNCHANGED local
           /\ Then(t, [Call("register", session) EXCEPT !.part = task[t].part])
  <2>1. /\ Sound /\ session # None
        /\ registered \subseteq server[session].parts
        /\ phase # "IDLE" /\ (phase = "CANCELLED" => Over(server[session]))
    BY <1>1, UnderWay
  <2>2. PICK call : call = [Call("register", session) EXCEPT !.part = task[t].part]
    OBVIOUS
  <2>3. task[t].part \in Parts
    BY <1>1, <2>1, Known DEF AnswerHolds
  <2>4. call \in Task /\ call.on = session /\ call.at = "register"
    BY <2>1, <2>2, <2>3, Known, Made DEF Task, Calls, Parts
  <2>5. BelongsTo(call, session, server[session])
    BY <2>4 DEF BelongsTo
  <2> QED
    BY <1>3, <2>1, <2>2, <2>4, <2>5, AnsweredHere DEF local
<1> QED
  BY <1>2, <1>3 DEF AnswerPut

LEMMA AnswerRegisterHere ==
    ASSUME IInv, NEW t \in Tasks, task[t].got # "waiting", AnswerRegister(t), UNCHANGED server
    PROVE  OnlyMaker' /\ OneSession'
<1>1. task[t].at = "register" /\ task[t].at # "idle"
  BY DEF AnswerRegister
<1>2. CASE Fail(t)
  BY <1>1, <1>2, FailHere
<1>3. CASE /\ task[t].got # "error"
           /\ registered' = registered \cup {task[t].part}
           /\ \/ phase # "UPLOADING" /\ Then(t, Idle) /\ UNCHANGED phase
              \/ phase = "UPLOADING" /\ Loop(t, task[t].part + 1, session, registered')
           /\ UNCHANGED <<session, artifact, aborted, cancelled>>
  <2>1. /\ Sound /\ session # None /\ task[t].on = session
        /\ registered \subseteq server[session].parts
        /\ phase # "IDLE" /\ (phase = "CANCELLED" => Over(server[session]))
    BY <1>1, UnderWay
  <2>2. task[t].got = "ok"
    BY <1>1, <1>3, <2>1, Known DEF Task, AnswerHolds
  <2>3. task[t].part \in Parts /\ task[t].part \in server[session].parts
    BY <1>1, <2>1, <2>2, Known DEF AnswerHolds
  <2>4. /\ registered' \in SUBSET Parts /\ task[t].part + 1 \in Nat
        /\ registered' \subseteq server[session].parts
    BY <1>3, <2>1, <2>3, Known DEF Parts
  <2>5. CASE Then(t, Idle) /\ UNCHANGED phase
    <3>1. BelongsTo(Idle, session, server[session])
      BY IdleMade DEF BelongsTo
    <3> QED
      BY <1>3, <2>1, <2>4, <2>5, <3>1, IdleMade, AnsweredHere
  <2>6. CASE Loop(t, task[t].part + 1, session, registered')
    <3>1. PICK known \in SUBSET Parts : known = registered'
      BY <2>4
    <3>2. Loop(t, task[t].part + 1, session, known)
      BY <2>6, <3>1
    <3> QED
      BY <1>3, <2>1, <2>4, <3>1, <3>2, LoopHere
  <2> QED
    BY <1>3, <2>5, <2>6
<1> QED
  BY <1>2, <1>3 DEF AnswerRegister

LEMMA AnswerCompleteHere ==
    ASSUME IInv, NEW t \in Tasks, AnswerComplete(t), UNCHANGED server
    PROVE  OnlyMaker' /\ OneSession'
<1>1. task[t].at \in {"complete", "publish"} /\ task[t].at # "idle"
  BY DEF AnswerComplete
<1>2. CASE Fail(t)
  BY <1>1, <1>2, FailHere
<1>3. CASE /\ artifact' = task[t].on /\ phase' = "COMPLETED" /\ Then(t, Idle)
           /\ UNCHANGED <<session, registered, aborted, cancelled>>
  <2>1. session # None /\ registered \subseteq server[session].parts
    BY <1>1, UnderWay
  <2>2. BelongsTo(Idle, session, server[session])
    BY IdleMade DEF BelongsTo
  <2> QED
    BY <1>3, <2>1, <2>2, IdleMade, AnsweredHere
<1> QED
  BY <1>2, <1>3 DEF AnswerComplete

LEMMA AnswerCancelHere ==
    ASSUME IInv, NEW t \in Tasks, AnswerCancel(t), UNCHANGED server
    PROVE  OnlyMaker' /\ OneSession'
<1>1. /\ task[t].at = "cancel" /\ task[t].at # "idle" /\ Then(t, Idle)
      /\ phase' = IF task[t].got = "ok" THEN "CANCELLED" ELSE "FAILED"
      /\ UNCHANGED <<session, registered>>
  BY DEF AnswerCancel, CancelAccepted
<1>2. /\ Sound /\ session # None /\ task[t].on = session
      /\ registered \subseteq server[session].parts
  BY <1>1, UnderWay
<1>3. phase' = "CANCELLED" => Over(server[session])
  BY <1>1, <1>2, Known DEF AnswerHolds
<1>4. BelongsTo(Idle, session, server[session]) /\ phase' # "IDLE"
  BY <1>1, IdleMade DEF BelongsTo
<1> QED
  BY <1>1, <1>2, <1>3, <1>4, IdleMade, AnsweredHere

LEMMA AnswerHere ==
    ASSUME IInv, NEW t \in Tasks, Answer(t)
    PROVE  OnlyMaker' /\ OneSession'
<1>1. task[t].got # "waiting" /\ UNCHANGED server
  BY DEF Answer
<1> QED
  BY <1>1, AnswerHashHere, AnswerCreateHere, AnswerGetHere, AnswerListHere,
     AnswerSignHere, AnswerPutHere, AnswerRegisterHere, AnswerCompleteHere,
     AnswerCancelHere DEF Answer

(* The server handles a call: the fields of the page stay.                 *)
LEMMA ServerHere ==
    ASSUME IInv, session # None, Grown(server, server'), UNCHANGED local,
           \A t \in Tasks : \/ Rejected(task[t], task'[t])
                            \/ BelongsTo(task'[t], session, server'[session])
    PROVE  OnlyMaker' /\ OneSession'
<1>1. session \in Sessions /\ registered \subseteq server[session].parts
  BY DEF IInv, TypeOK, OneSession
<1>2. /\ registered' \subseteq server'[session].parts
      /\ phase' # "IDLE" /\ (phase' = "CANCELLED" => Over(server'[session]))
  BY <1>1 DEF IInv, OneSession, local, Grown
<1> QED
  BY <1>2, SessionStays DEF local

LEMMA ServerBefore ==
    ASSUME IInv, session = None, UNCHANGED local,
           \A t \in Tasks : task'[t].at = task[t].at
    PROVE  OnlyMaker' /\ OneSession'
BY NoSessionYet DEF IInv, OnlyMaker, Quiet, local

LEMMA RejectedHere ==
    ASSUME IInv, NEW t \in Tasks, Replied(t, "error"), Grown(server, server'), UNCHANGED local
    PROVE  OnlyMaker' /\ OneSession'
<1>1. PICK call \in Task : /\ call = [task[t] EXCEPT !.got = "error"]
                          /\ Rejected(task[t], call)
  BY ErrorHolds DEF IInv, Sound
<1>2. \A u \in Tasks : task'[u] = IF u = t THEN call ELSE task[u]
  BY <1>1 DEF IInv, TypeOK, Replied, Then
<1>3. \A u \in Tasks : Rejected(task[u], task'[u])
  BY <1>1, <1>2 DEF Rejected
<1> QED
  BY <1>3, ServerHere, ServerBefore DEF Rejected

LEMMA ServeHere ==
    ASSUME IInv, NEW t \in Tasks, Serve(t)
    PROVE  OnlyMaker' /\ OneSession'
<1>1. /\ Sound /\ task[t].at # "idle" /\ task[t].got = "waiting"
      /\ UNCHANGED <<local, counts>>
  BY DEF IInv, Sound, Serve, Calls
<1>2. CASE Grants(t) /\ server' = Effect(t) /\ Then(t, Granted(t))
  <2>1. PICK call \in Task :
          /\ call = Granted(t) /\ call.on = task[t].on
          /\ call.at = IF task[t].at = "complete" THEN "publish" ELSE task[t].at
          /\ (task[t].at # "list" => call.parts = task[t].parts)
    BY <1>1, <1>2, GrantedHolds
  <2>2. Grown(server, server')
    BY <1>1, <1>2, EffectGrows
  <2>3. \A u \in Tasks : task'[u] = IF u = t THEN call ELSE task[u]
    BY <1>2, <2>1 DEF IInv, TypeOK, Then
  <2>4. CASE session # None
    <3>1. BelongsTo(call, session, server'[session])
      BY <1>1, <2>1, <2>2, <2>4, UnderWay DEF BelongsTo, Grown
    <3>2. \A u \in Tasks : \/ Rejected(task[u], task'[u])
                           \/ BelongsTo(task'[u], session, server'[session])
      BY <2>3, <3>1 DEF Rejected
    <3> QED
      BY <1>1, <2>2, <2>4, <3>2, ServerHere
  <2>5. CASE session = None
    <3>1. \A u \in Tasks : task'[u].at = task[u].at
      BY <1>1, <2>1, <2>3, <2>5, UnderWay
    <3> QED
      BY <1>1, <2>5, <3>1, ServerBefore
  <2> QED
    BY <2>4, <2>5
<1>3. CASE Replied(t, "error") /\ UNCHANGED server
  BY <1>1, <1>3, ServerSame, RejectedHere
<1> QED
  BY <1>2, <1>3 DEF Serve

LEMMA CreateHere ==
    ASSUME IInv, NEW t \in Tasks, Create(t)
    PROVE  OnlyMaker' /\ OneSession'
<1>1. task[t].at = "create" /\ task[t].at # "idle" /\ UNCHANGED local
  BY DEF Create
<1>2. session = None /\ Sound
  BY <1>1, UnderWay
<1>3. PICK s \in Sessions : Then(t, [task[t] EXCEPT !.got = "ok", !.on = s])
  BY DEF Create
<1>4. PICK old \in Task : old = task[t]
  BY <1>2, Known
<1>5. PICK call : call = [old EXCEPT !.got = "ok", !.on = s]
  OBVIOUS
<1>6. call.at = old.at
  BY <1>4, <1>5 DEF Task
<1>7. \A u \in Tasks : task'[u] = IF u = t THEN call ELSE task[u]
  BY <1>3, <1>4, <1>5 DEF IInv, TypeOK, Then
<1>8. \A u \in Tasks : task'[u].at = task[u].at
  BY <1>4, <1>6, <1>7
<1> QED
  BY <1>1, <1>2, <1>8, ServerBefore

LEMMA FaultHere ==
    ASSUME IInv, NEW t \in Tasks, Fault(t)
    PROVE  OnlyMaker' /\ OneSession'
<1>1. Sound /\ Replied(t, "error") /\ UNCHANGED local
  BY DEF Fault, IInv, Sound
<1>2. Grown(server, server')
  BY <1>1, ServerSame, EffectGrows, OpenedGrows DEF Fault
<1> QED
  BY <1>1, <1>2, RejectedHere

LEMMA ExpireHere ==
    ASSUME IInv, NEW s \in Sessions, Expire(s), Grown(server, server')
    PROVE  OnlyMaker' /\ OneSession'
<1>1. UNCHANGED local /\ Sound
  BY DEF Expire, IInv, Sound
<1>2. CASE UNCHANGED task
  BY <1>1, <1>2, ServerHere, ServerBefore DEF Rejected
<1>3. ASSUME NEW t \in Tasks, task[t].at = "cancel", Replied(t, "ok")
      PROVE  OnlyMaker' /\ OneSession'
  <2>1. /\ session # None /\ task[t].on = session
        /\ task[t].at # "idle" /\ task[t].at \notin {"hash", "create", "complete", "publish"}
    BY <1>3, UnderWay
  <2>2. PICK old \in Task : old = task[t]
    BY <1>1, Known
  <2>3. PICK call : call = [old EXCEPT !.got = "ok"]
    OBVIOUS
  <2>4. call.at = old.at /\ call.on = old.on
    BY <2>2, <2>3 DEF Task
  <2>5. BelongsTo(call, session, server'[session])
    BY <2>1, <2>2, <2>4 DEF BelongsTo
  <2>6. \A u \in Tasks : task'[u] = IF u = t THEN call ELSE task[u]
    BY <1>3, <2>2, <2>3 DEF IInv, TypeOK, Replied, Then
  <2>7. \A u \in Tasks : \/ Rejected(task[u], task'[u])
                         \/ BelongsTo(task'[u], session, server'[session])
    BY <2>5, <2>6 DEF Rejected
  <2> QED
    BY <1>1, <2>1, <2>7, ServerHere
<1> QED
  BY <1>2, <1>3 DEF Expire

(* The buttons. *)
LEMMA BeginHere ==
    ASSUME IInv, Quiet, NEW t \in Tasks, Begin(t)
    PROVE  OnlyMaker' /\ OneSession'
<1>1. /\ phase' = "HASHING" /\ session' = None /\ registered' = {}
      /\ task' = [Deafened EXCEPT ![t] = Call("hash", None)]
  BY DEF Begin
<1>2. /\ Deafened \in [Tasks -> Task] /\ \A u \in Tasks : Deafened[u].at = "idle"
  BY OthersRejected DEF IInv, Quiet, Rejected
<1>3. Call("hash", None).at = "hash"
  BY Made DEF Calls
<1>4. \A u \in Tasks : task'[u].at = IF u = t THEN "hash" ELSE "idle"
  BY <1>1, <1>2, <1>3
<1> QED
  BY <1>1, <1>4 DEF OnlyMaker, OneSession

LEMMA PauseHere ==
    ASSUME IInv, Pause
    PROVE  OnlyMaker' /\ OneSession'
<1>1. session # None /\ registered \subseteq server[session].parts
  BY DEF IInv, OnlyMaker, OneSession, Pause
<1>2. \A u \in Tasks : Rejected(task[u], task'[u])
  BY OthersRejected DEF IInv, Pause
<1>3. Grown(server, server') /\ UNCHANGED <<session, registered, server>> /\ phase' = "PAUSED"
  BY ServerSame DEF Pause, IInv, Sound
<1> QED
  BY <1>1, <1>2, <1>3, SessionStays

LEMMA ResumeHere ==
    ASSUME IInv, NEW t \in Tasks, Resume(t)
    PROVE  OnlyMaker' /\ OneSession'
<1>1. CASE session = None /\ Begin(t)
  <2>1. Quiet
    BY <1>1 DEF Resume, IInv, OnlyMaker
  <2> QED
    BY <1>1, <2>1, BeginHere
<1>2. CASE /\ session # None
           /\ task' = [Deafened EXCEPT ![t] = Call("get", session)]
           /\ UNCHANGED <<phase, session, registered, artifact, cancelled>>
  <2>1. session \in Sessions /\ server' = server /\ Grown(server, server')
    BY <1>2, ServerSame DEF Resume, IInv, TypeOK, Sound
  <2>2. BelongsTo(Call("get", session), session, server[session])
    BY <2>1, Made DEF Calls, BelongsTo
  <2>3. /\ Deafened \in [Tasks -> Task] /\ \A u \in Tasks : Rejected(task[u], Deafened[u])
    BY OthersRejected DEF IInv
  <2>4. \A u \in Tasks : \/ Rejected(task[u], task'[u])
                         \/ BelongsTo(task'[u], session, server'[session])
    BY <1>2, <2>1, <2>2, <2>3
  <2>5. /\ registered' \subseteq server'[session].parts
        /\ phase' # "IDLE" /\ (phase' = "CANCELLED" => Over(server'[session]))
    BY <1>2, <2>1 DEF IInv, OneSession
  <2> QED
    BY <1>2, <2>1, <2>4, <2>5, SessionStays
<1> QED
  BY <1>1, <1>2 DEF Resume

LEMMA CancelHere ==
    ASSUME IInv, NEW t \in Tasks, Cancel(t)
    PROVE  OnlyMaker' /\ OneSession'
<1>1. /\ Aborting \in [Tasks -> Task] /\ \A u \in Tasks : Rejected(task[u], Aborting[u])
      /\ server' = server /\ Grown(server, server') /\ UNCHANGED <<session, registered>>
  BY OthersRejected, ServerSame DEF IInv, Sound, Cancel
<1>2. CASE /\ session # None
           /\ task' = [Aborting EXCEPT ![t] = Call("cancel", session)]
           /\ UNCHANGED <<phase, cancelled>>
  <2>1. session \in Sessions
    BY <1>2 DEF IInv, TypeOK
  <2>2. BelongsTo(Call("cancel", session), session, server[session])
    BY <2>1, Made DEF Calls, BelongsTo
  <2>3. \A u \in Tasks : \/ Rejected(task[u], task'[u])
                         \/ BelongsTo(task'[u], session, server'[session])
    BY <1>1, <1>2, <2>2
  <2>4. /\ registered' \subseteq server'[session].parts
        /\ phase' # "IDLE" /\ (phase' = "CANCELLED" => Over(server'[session]))
    BY <1>1, <1>2 DEF IInv, OneSession
  <2> QED
    BY <1>1, <1>2, <2>3, <2>4, SessionStays
<1>3. CASE session = None /\ task' = Aborting /\ phase' = "CANCELLED"
  <2>1. \A u \in Tasks : task'[u].at = task[u].at
    BY <1>1, <1>3 DEF Rejected
  <2> QED
    BY <1>1, <1>3, <2>1, NoSessionYet DEF IInv, OnlyMaker
<1> QED
  BY <1>2, <1>3 DEF Cancel

LEMMA OneFileInitially == Init => IInv
<1> SUFFICES ASSUME Init PROVE IInv
  OBVIOUS
<1>1. Sound
  BY InitSound
<1>2. \A t \in Tasks : task[t].at = "idle"
  BY IdleMade DEF Init
<1>3. OnlyMaker /\ OneSession
  BY <1>2 DEF Init, OnlyMaker, OneSession, Quiet
<1> QED
  BY <1>1, <1>3 DEF IInv, Sound

LEMMA OneFileInductive == IInv /\ [Next]_vars /\ [starts' # starts => Quiet]_vars => IInv'
<1> SUFFICES ASSUME IInv, [Next]_vars, [starts' # starts => Quiet]_vars PROVE IInv'
  OBVIOUS
<1>1. Sound /\ Sound'
  BY SoundInductive DEF IInv, Sound
<1>2. OnlyMaker' /\ OneSession'
  <2>1. CASE Pause
    BY <2>1, PauseHere
  <2>2. ASSUME NEW t \in Tasks, Start(t) PROVE OnlyMaker' /\ OneSession'
    <3>1. starts' # starts
      BY <2>2, CountsTyped, <1>1 DEF Start
    <3>2. Quiet
      BY <3>1 DEF vars
    <3> QED
      BY <2>2, <3>2, BeginHere DEF Start
  <2>3. ASSUME NEW t \in Tasks, Resume(t) \/ Cancel(t) PROVE OnlyMaker' /\ OneSession'
    BY <2>3, ResumeHere, CancelHere
  <2>4. ASSUME NEW t \in Tasks, Serve(t) \/ Create(t) \/ Fault(t) \/ Answer(t)
        PROVE  OnlyMaker' /\ OneSession'
    BY <2>4, ServeHere, CreateHere, FaultHere, AnswerHere
  <2>5. ASSUME NEW s \in Sessions, Expire(s) PROVE OnlyMaker' /\ OneSession'
    BY <1>1, <2>5, ExpiredGrows, ExpireHere
  <2>6. CASE UNCHANGED vars
    BY <2>6 DEF vars, IInv, OnlyMaker, OneSession, Quiet
  <2> QED
    BY <2>1, <2>2, <2>3, <2>4, <2>5, <2>6 DEF Next
<1> QED
  BY <1>1, <1>2 DEF IInv, Sound

(* IInv holds throughout as long as a file is only chosen when no click on *)
(* an earlier one is under way.                                            *)
THEOREM OneFile == Spec /\ OneFileAtATime => []IInv
BY OneFileInitially, OneFileInductive, PTL DEF Spec, OneFileAtATime

(* Then uploadMissingParts completes with no part that the session has not *)
(* got, however loops of paused and resumed uploads, listings and          *)
(* cancellations overlap.                                                  *)
THEOREM ManifestSafety == Spec /\ OneFileAtATime => []ManifestKnown
<1>1. IInv => ManifestKnown
  BY DEF IInv, AnswersHold, AnswerHolds, OnlyMaker, OneSession, BelongsTo, ManifestKnown
<1> QED
  BY <1>1, OneFile, PTL

(* And the page never shows a cancelled upload that goes on: cancel tells  *)
(* of the session of the page.                                             *)
THEOREM PhaseSafety == Spec /\ OneFileAtATime => []TruthfulPhase
<1>1. IInv => TruthfulPhase
  BY DEF IInv, AnswersHold, OneSession, Over, CompletedIsSo, TruthfulPhase
<1> QED
  BY <1>1, OneFile, PTL

----------------------------------------------------------------------------
(* Before the first file nothing is under way. *)
Untouched == starts = 0 => phase = "IDLE" /\ Quiet

LEMMA UntouchedKept == Sound /\ Untouched /\ [Next]_vars => Untouched'
<1> SUFFICES ASSUME Sound, Untouched, [Next]_vars, starts' = 0
             PROVE  phase' = "IDLE" /\ Quiet'
  BY DEF Untouched
<1>1. ASSUME NEW t \in Tasks, Start(t) PROVE FALSE
  BY <1>1, CountsTyped DEF Start
<1>2. CASE UNCHANGED vars
  BY <1>2 DEF vars, Untouched, Quiet
<1>3. CASE Pause
  BY <1>3 DEF Pause, Untouched
<1>4. ASSUME NEW t \in Tasks, Resume(t) \/ Cancel(t) PROVE FALSE
  BY <1>4 DEF Resume, Cancel, Untouched, counts
<1>5. ASSUME NEW t \in Tasks, Serve(t) \/ Create(t) \/ Fault(t) \/ Answer(t) PROVE FALSE
  <2>1. starts = 0 /\ task[t].at = "idle"
    BY <1>5 DEF Serve, Create, Fault, Answer, counts, Untouched, Quiet
  <2>2. task[t].at # "idle"
    BY <1>5 DEF Serve, Create, Fault, Answer, Calls, AnswerHash, AnswerCreate, AnswerGet,
                AnswerList, AnswerSign, AnswerPut, AnswerRegister, AnswerComplete, AnswerCancel
  <2> QED
    BY <2>1, <2>2
<1>6. ASSUME NEW s \in Sessions, Expire(s) PROVE phase' = "IDLE" /\ Quiet'
  BY <1>6 DEF Expire, Untouched, Quiet, local, counts
<1> QED
  BY <1>1, <1>2, <1>3, <1>4, <1>5, <1>6 DEF Next

(* The first file is chosen when nothing is under way: with one file the   *)
(* premise of the theorems above holds, and so do they.                    *)
THEOREM FirstFile == ASSUME MaxStarts = 1
                     PROVE  Spec => [](ManifestKnown /\ TruthfulPhase)
<1>1. Init => Untouched
  BY IdleMade DEF Init, Untouched, Quiet
<1>2. Sound /\ Untouched /\ [Next]_vars => [starts' # starts => Quiet]_vars
  <2> SUFFICES ASSUME Sound, Untouched, [Next]_vars, starts' # starts PROVE Quiet
    OBVIOUS
  <2>1. PICK t \in Tasks : Start(t)
    BY DEF Next, vars, Pause, Resume, Cancel, Serve, Create, Fault, Answer, Expire, counts
  <2>2. starts = 0
    BY <2>1, CountsTyped DEF Start
  <2> QED
    BY <2>2 DEF Untouched
<1>3. Spec => OneFileAtATime
  BY <1>1, <1>2, InitSound, SoundInductive, UntouchedKept, PTL DEF Spec, OneFileAtATime
<1> QED
  BY <1>3, ManifestSafety, PhaseSafety, PTL
============================================================================
