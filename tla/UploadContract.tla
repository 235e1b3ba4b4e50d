--------------------------- MODULE UploadContract ---------------------------
(***************************************************************************)
(* What an upload session promises to the rest of the platform: it holds   *)
(* its reservation while it is open, gives it back with its outcome, and   *)
(* publishes at most one artifact, never after a cancellation.  The code   *)
(* lets a publication overtake an expiry, and so does the contract.        *)
(***************************************************************************)
EXTENDS Integers

CONSTANTS ExpectedSize, None

VARIABLES
    outcome,    \* "open", or how the session ended
    reserved,   \* bytes held against the organization's quota
    verdict     \* status of the published artifact, None before

contractVars == <<outcome, reserved, verdict>>

Init ==
    /\ outcome = "open"
    /\ reserved = ExpectedSize
    /\ verdict = None

Cancel ==
    /\ outcome = "open"
    /\ outcome' = "cancelled"
    /\ reserved' = 0
    /\ UNCHANGED verdict

Expire ==
    /\ outcome = "open"
    /\ outcome' = "expired"
    /\ reserved' = 0
    /\ UNCHANGED verdict

Publish ==
    /\ outcome \in {"open", "expired"}
    /\ verdict = None
    /\ outcome' = "published"
    /\ reserved' = 0
    /\ verdict' \in {"AVAILABLE", "QUARANTINED"}

Next == Cancel \/ Expire \/ Publish

Spec == Init /\ [][Next]_contractVars
============================================================================
