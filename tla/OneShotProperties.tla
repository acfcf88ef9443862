--------------------------- MODULE OneShotProperties ---------------------------
(***************************************************************************)
(* The correctness properties of run_one_shot, over OneShot.               *)
(***************************************************************************)
EXTENDS OneShot

(* An attempt reaches the provider at most once, whatever crashes, fails   *)
(* or is run again, and max_provider_turns bounds the paid turns of the    *)
(* whole operation, over all its runs ("recover paid decisions from their  *)
(* original record, never by regenerating a similar choice", SPEC.md       *)
(* section 17; kernel.py:274-299, 412).                                    *)
PaidOnce ==
    /\ \A k \in Ordinal : submitted[k] <= 1
    /\ Cardinality({k \in Ordinal : submitted[k] > 0 \/ rec[k] = "completed"}) <= MaxTurns

(* The history that follows an attempt: a completed decision and what      *)
(* answered it join the one it was asked with, a refused one leaves it.    *)
Continued(k) ==
    IF k = 0 THEN <<Boot>>
    ELSE IF rec[k] = "completed"
         THEN Append(Append(request[k].canonical, Text(k)), After(k, reply[k]))
         ELSE request[k].canonical

(* Whether the session is continued or opened afresh for a replayed or     *)
(* retried decision, it is shown exactly the canonical history, each part  *)
(* once and in order: the bootstrap, then every completed decision and its *)
(* answer; and that is what the journal holds of every attempt (398-405,   *)
(* 433-436, 492-497; decisions.py:46-48: "recovery does not require native *)
(* history").                                                              *)
ContextExact ==
    at = "submit" =>
        /\ view \o pending = request[ordinal].canonical
        /\ \A k \in 1..ordinal : request[k].canonical = Continued(k - 1)

(* No turn is submitted to a session whose context is larger than          *)
(* max_new_context_bytes, in recovered runs as in fresh ones, or after the *)
(* run has learnt of more tokens than max_provider_input_tokens (425-437,  *)
(* 519, 786-791, 804-816).                                                 *)
LimitsKept ==
    at = "submit" =>
        /\ Size(view \o pending) <= MaxBytes
        /\ bill.told = bill.asked => bill.told <= MaxTokens

(* What a run reports of its cost, however it ends: the tokens of all its  *)
(* turns when each of them said its usage, nothing when one did not, and   *)
(* every turn counted that may have been paid; one that failed before it   *)
(* was submitted may be counted as well (185-199, 331-336, 607-641).       *)
AccountsExact ==
    at = "close" /\ result # "raised" =>
        /\ tokens = IF bill.told = bill.asked /\ bill.asked > 0 THEN bill.told ELSE Unknown
        /\ turns \in {bill.asked, bill.asked + 1}
        /\ result \in {"completed", "protocol_error", "budget_exhausted"} => turns = bill.asked

(* Only committed decisions are acted on: a tool runs for a recorded tool  *)
(* decision, at a recorder position no other decision has, the same in     *)
(* every run; a completed run returns what the newest decision finished    *)
(* with; and an outcome other than uncertainty, a defect or an exception   *)
(* leaves no armed decision behind ("commit original evidence -> decode    *)
(* whole step -> dispatch", SPEC.md:207-208; 296-299, 571-575, 607-638).   *)
ActsOnRecord ==
    /\ \A p \in positions : rec[p[1]] = "completed" /\ reply[p[1]] = "tool"
    /\ \A p, q \in positions : (p[1] = q[1]) <=> (p[2] = q[2])
    /\ result = "completed" => rec[Latest] = "completed" /\ reply[Latest] = "finish"
    /\ Durable /\ at = "rest" /\ result \in Stops \ {"uncertain", "configuration_error"}
           => ~\E k \in Ordinal : rec[k] = "armed"

(* Once cancelled a run opens no session, decides on no tool, and enters   *)
(* submit only with a revoked turn (341-345, 410, 552, 710-711;            *)
(* provider.py:209).  A tool it begins was already decided on: the         *)
(* cancellation landed in the owner check that is awaited between the      *)
(* decision and the dispatch, and is not asked about again (363-364,       *)
(* 564-565); the dispatcher is given the signal.                           *)
CancelHeeded ==
    [][cancelled /\ at' # at =>
          /\ at' \notin {"read_owner", "open", "tool_owner"}
          /\ at' = "read" => at = "read_owner"
          /\ at' = "dispatch" => at = "tool_owner"
          /\ at' = "submit" => revoked']_vars

(* The durable decisions of one operation implement the promise about paid *)
(* decisions: a tool's decision is carried out when it was dispatched, a   *)
(* malformed or refused one leaves nothing to do, a final one stays.       *)
Carried(k) == \/ rec[k] = "refused" \/ reply[k] = "invalid"
              \/ \E p \in positions : p[1] = k

Chain == INSTANCE DecisionChain WITH
             depth <- IF Durable THEN Latest ELSE 0,
             stage <- IF ~Durable \/ Latest = 0 THEN "open"
                      ELSE IF rec[Latest] = "armed" THEN "uncertain"
                      ELSE IF Carried(Latest) THEN "open" ELSE "decided"

ChainSpec == Chain!Spec

(* A cancelled run ends, although its provider may stay silent for ever.   *)
CancelledEnds == cancelled ~> at = "rest"

(* "isolated outcomes remain OneShotCompleted or OneShotStopped"           *)
(* (SPEC.md:222-223): no run ends with an exception when no port failed.   *)
OutcomeTyped == result # "raised"
=============================================================================
