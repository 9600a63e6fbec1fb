------------------------------- MODULE MCClip -------------------------------
(* Values for model checking Clip. *)
EXTENDS Clip

TwoSizes == {0, 2}
Noticed  == {"open", "memory", "write", "crash"}
=============================================================================
