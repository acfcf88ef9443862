----------------------------- MODULE DecisionChain -----------------------------
(***************************************************************************)
(* What the kernel promises about paid model decisions, whichever lane     *)
(* makes them (SPEC.md sections 16.2 and 17): decisions are taken one      *)
(* after another; one is armed durably before the provider may be asked,   *)
(* and from then on it is uncertain until it is known to ask for work, or  *)
(* to leave none (not submitted, or nothing in it to act on); a decided    *)
(* one is never asked again and never changes; the next is armed only when *)
(* the work of the one before it is done.                                  *)
(***************************************************************************)
EXTENDS Naturals

VARIABLES depth, stage

Init == depth = 0 /\ stage = "open"

Arm    == stage = "open" /\ stage' = "uncertain" /\ depth' = depth + 1
Decide == stage = "uncertain" /\ stage' = "decided" /\ UNCHANGED depth
Void   == stage = "uncertain" /\ stage' = "open" /\ UNCHANGED depth
Carry  == stage = "decided" /\ stage' = "open" /\ UNCHANGED depth

Next == Arm \/ Decide \/ Void \/ Carry

Spec == Init /\ [][Next]_<<depth, stage>>
=============================================================================
