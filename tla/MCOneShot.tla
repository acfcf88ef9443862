------------------------------- MODULE MCOneShot -------------------------------
(* Sizes for model checking OneShot: an observation is larger than the rest. *)
EXTENDS OneShotProperties

ItemBytes == [bootstrap |-> 1, decision |-> 1, correction |-> 1, observation |-> 3]
=============================================================================
