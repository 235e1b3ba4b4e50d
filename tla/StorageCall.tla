---------------------------- MODULE StorageCall ----------------------------
(***************************************************************************)
(* What the handlers and the maintenance worker may assume of a call to    *)
(* the object store: one that succeeds has been carried out by a request   *)
(* of its own, one that fails or is abandoned may have been, and no call   *)
(* sends more than Limit requests.                                         *)
(***************************************************************************)
EXTENDS Integers

CONSTANTS Callers, Limit

VARIABLES
    state,      \* of the call of each caller
    carried,    \* the store has carried it out
    sent        \* requests it has sent

callVars == <<state, carried, sent>>

Init ==
    /\ state = [c \in Callers |-> "idle"]
    /\ carried = [c \in Callers |-> FALSE]
    /\ sent = [c \in Callers |-> 0]

Begin(c) ==
    /\ state[c] # "waiting"
    /\ state' = [state EXCEPT ![c] = "waiting"]
    /\ carried' = [carried EXCEPT ![c] = FALSE]
    /\ sent' = [sent EXCEPT ![c] = 0]

(* A request goes out, be it late, and the store may carry it out. *)
Request(c) ==
    /\ sent[c] < Limit
    /\ sent' = [sent EXCEPT ![c] = @ + 1]
    /\ \E done \in BOOLEAN : carried' = [carried EXCEPT ![c] = @ \/ done]

(* The answer may come with the last request. *)
Answer(c) ==
    /\ state[c] = "waiting"
    /\ \/ state' = [state EXCEPT ![c] = "ok"] /\ carried'[c]
       \/ state' = [state EXCEPT ![c] = "failed"]

Leave(c) ==
    /\ state' = [state EXCEPT ![c] = "idle"]
    /\ carried' = [carried EXCEPT ![c] = FALSE]
    /\ sent' = [sent EXCEPT ![c] = 0]

Next ==
    \E c \in Callers :
        \/ Begin(c)
        \/ Request(c) /\ (Answer(c) \/ UNCHANGED state)
        \/ UNCHANGED <<carried, sent>> /\ Answer(c)
        \/ Leave(c)

Spec == Init /\ [][Next]_callVars
============================================================================
