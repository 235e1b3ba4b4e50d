-------------------------- MODULE MCUploadSession --------------------------
(* Small instances of UploadSession for TLC. *)
EXTENDS UploadSession, TLC

(* Every part has the size of the file: any one part completes it, and a   *)
(* second one makes the list too long.                                     *)
MCPartSize == [p \in PartNumbers |-> ExpectedSize]

(* Requests run the same handlers and identifiers carry no order.          *)
Symmetry == Permutations(Requests) \cup Permutations(UploadIds)
============================================================================
