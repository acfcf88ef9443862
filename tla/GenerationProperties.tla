-------------------------- MODULE GenerationProperties --------------------------
(***************************************************************************)
(* The correctness properties of run_generation, over Generation.          *)
(***************************************************************************)
EXTENDS Generation

CallsOf(n) == {decision[n].calls[i] : i \in DOMAIN decision[n].calls}

(* The dependent work of child n is done: its truth is durable, its        *)
(* continuation is the one it proposed and the host kept, and every tool   *)
(* has an outcome.                                                         *)
Carried(n) ==
    /\ Sealed(n)
    /\ decision[n].calls # <<>> /\ Sound(decision[n], n)
    /\ resolved[n] = "kept"
    /\ {n} \X CallsOf(n) \subseteq effects

(* No child is armed before the work its predecessor asked for is done,    *)
(* whatever crashed in between (generation.py:225-239; adr 0008), and      *)
(* max_turns bounds the whole chain, however often it is resumed: nothing  *)
(* is armed beyond it and the tools of the last child never run (221-224). *)
SuccessorEarned ==
    /\ \A n \in Ordinal : n > 1 /\ child[n] # "new" => Carried(n - 1)
    /\ MaxTurns # 0 =>
          /\ \A n \in Ordinal : n > MaxTurns => child[n] = "new"
          /\ \A n \in Ordinal, c \in Call : <<n, c>> \in effects => n < MaxTurns

(* Only the tools of a committed, undisputed and kept continuation run,    *)
(* and they run in its order ("a product rejection cannot [...] authorize  *)
(* another paid call", SPEC.md:262-263; the check of 350-359).             *)
EffectsInOrder ==
    \A n \in Ordinal : \A c \in Call : <<n, c>> \in effects =>
        /\ Sealed(n) /\ Sound(decision[n], n) /\ resolved[n] = "kept"
        /\ \E i \in DOMAIN decision[n].calls :
              /\ decision[n].calls[i] = c
              /\ \A j \in 1..i : <<n, decision[n].calls[j]>> \in effects

(* A tool runs only after the observer acknowledged the terminal that      *)
(* asked for it, or in a run resumed from that decision ("awaits           *)
(* acknowledgment before executing any dependent tool", adr 0008).         *)
AcknowledgedFirst == [][effects' # effects => turn \in seenBy \/ turn = reopened]_vars

(* Once the signal is set no tool, reopening or arming is started: every   *)
(* await on the way is followed by a check (218-250, 301).                 *)
CancelHeeded ==
    [][cancelled /\ at' \in {"execute", "open", "arming"} => at' = at /\ results' = results]_vars

(* A run that returns has hidden no uncertainty: no child is left armed,   *)
(* and the ordinal it reports is the newest that was asked (218-273).      *)
ReturnIsExact ==
    at = "rest" /\ result \in Stopped \cup {"completed"} =>
        \A n \in Ordinal : child[n] = IF n <= lastOrdinal THEN "sealed" ELSE "new"

(* The chain of children implements the promise about paid decisions.      *)
Depth == Cardinality({n \in Ordinal : child[n] # "new"})

Stage == IF Depth = 0 THEN "open"
         ELSE IF ~Sealed(Depth) THEN "uncertain"
         ELSE IF Carried(Depth) THEN "open" ELSE "decided"

Chain == INSTANCE DecisionChain WITH depth <- Depth, stage <- Stage

ChainSpec == Chain!Spec
=============================================================================
