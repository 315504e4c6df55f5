-------------------------- MODULE MCAsyncKVOffload --------------------------
(* The small instances of AsyncKVOffload that TLC checks: every constant is *)
(* a number, given in the .cfg files.                                       *)
EXTENDS AsyncKVOffload
=============================================================================
