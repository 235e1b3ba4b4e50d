---------------------- MODULE MCOrganizationMembership ----------------------
(* A small instance of OrganizationMembership for TLC. *)
EXTENDS OrganizationMembership

(* Two users share an address, so one invite has two takers. *)
MCUsers == {"ann", "bob", "cid"}
MCEmailOf == [u \in MCUsers |-> IF u = "ann" THEN "ann" ELSE "team"]
MCAccepters == {"bob", "cid"}

(* Everyone may try everything that concerns the team; roles go up and down. *)
MCCalls ==
    [kind : {"invite"}, actor : {"ann", "bob"}, email : {"team"}, role : InvitableRole]
    \cup [kind : {"revoke"}, actor : {"ann", "bob"}, email : {"team"}]
    \cup [kind : {"role"}, actor : {"ann", "bob"}, member : {"ann", "bob"},
          role : {"OWNER", "MEMBER"}]
    \cup [kind : {"remove"}, actor : {"ann", "bob"}, member : {"ann", "bob"}]
============================================================================
