--------------------------- MODULE MCClientProgram ---------------------------
(* Model-checking instance of ClientProgram. *)
EXTENDS ClientProgram
=============================================================================
