------------------------- MODULE MCUploadAdmission -------------------------
(* A small instance of UploadAdmission for TLC. *)
EXTENDS UploadAdmission

Call(a, p, k, b) == [actor |-> a, project |-> p, key |-> k, body |-> b]

(* One user asks twice with one key, with the same payload or another, and *)
(* once with another key; another user asks for the same, or for too much. *)
(* Two small sessions fit, three do not; nothing fits beside a large one.  *)
MCCalls == {Call("ada", "vision", "k", "small"), Call("ada", "vision", "k", "large"),
            Call("ada", "vision", "j", "small"),
            Call("bob", "vision", "k", "small"), Call("bob", "vision", "k", "huge")}
MCSizeOf == [small |-> 1, large |-> 2, huge |-> 3]
MCProjects == {"vision"}
============================================================================
