------------------------- MODULE MCProjectLifecycle -------------------------
(* A small instance of ProjectLifecycle for TLC. *)
EXTENDS ProjectLifecycle

(* An administrator of the organisation and a plain member of it. *)
MCCodes == {"shop", "mall", "used"}
MCUsers == {"ann", "bob"}
MCOrganizationRole == [u \in MCUsers |-> IF u = "ann" THEN "ADMIN" ELSE "MEMBER"]

(* The project is made under either of two codes, one of them taken, and   *)
(* the plain member is added to it, promoted and removed.                  *)
MCCalls ==
    [kind : {"create"}, code : {"shop", "used"}] \cup [kind : {"update"}, code : Codes]
    \cup StatusCall
    \cup [kind : {"add", "role"}, member : {"bob"}, role : {"ADMIN"}]
    \cup [kind : {"role"}, member : {"bob"}, role : {"VIEWER"}]
    \cup [kind : {"remove"}, member : {"bob"}]
=============================================================================
