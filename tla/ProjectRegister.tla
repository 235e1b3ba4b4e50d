--------------------------- MODULE ProjectRegister ---------------------------
(***************************************************************************)
(* What the API promises of a project (M1-07): a register that is replaced *)
(* by comparing versions.  A client that knows version n may replace       *)
(* version n, which makes version n + 1, or retire the register for ever.  *)
(***************************************************************************)
EXTENDS Integers

CONSTANTS Clients, Contents, None

VARIABLES
    content,    \* None until it is made
    version,
    retired,
    known       \* the latest version each client was told of, 0 if none

vars == <<content, version, retired, known>>

Init ==
    /\ content = None /\ version = 0 /\ retired = FALSE
    /\ known = [c \in Clients |-> 0]

Make ==
    /\ version = 0
    /\ version' = 1
    /\ content' \in Contents
    /\ UNCHANGED <<retired, known>>

Learn(c) ==
    /\ version > 0
    /\ known' = [known EXCEPT ![c] = version]
    /\ UNCHANGED <<content, version, retired>>

Replace(c) ==
    /\ version > 0 /\ ~retired
    /\ known[c] = version
    /\ version' = version + 1
    /\ content' \in Contents
    /\ retired' \in BOOLEAN
    /\ UNCHANGED known

Next == Make \/ \E c \in Clients : Learn(c) \/ Replace(c)

Spec == Init /\ [][Next]_vars
==============================================================================
