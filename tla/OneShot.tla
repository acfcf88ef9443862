-------------------------------- MODULE OneShot --------------------------------
(***************************************************************************)
(* run_one_shot (kernel.py:203-857): a structured model loop, run again    *)
(* and again by a host after stops, errors and crashes.  With durable      *)
(* decisions every paid turn is journalled and a run takes up what an      *)
(* earlier one left; transient decisions keep nothing, and every run is an *)
(* operation of its own.                                                   *)
(*                                                                         *)
(* `at' names the await the coroutine is suspended in; the places of       *)
(* Running lie between two awaits and nothing else moves there.  Context   *)
(* is a sequence of items: the bootstrap, the text of a decision, and what *)
(* answered it (an observation or a correction), each of a fixed size.     *)
(* Input and output tokens are counted alike; a turn's usage is one token  *)
(* or unknown.                                                             *)
(***************************************************************************)
EXTENDS Integers, Sequences, FiniteSets

CONSTANTS
    MaxTurns,      \* limits.max_provider_turns
    MaxRepairs,    \* limits.max_protocol_repairs
    MaxTokens,     \* limits.max_provider_input_tokens
    MaxBytes,      \* limits.max_new_context_bytes
    Bytes,         \* the size of an item of each kind
    MaxRefusals,   \* bound: attempts the provider may refuse before the host gives up
    InitialRead,   \* an initial read is requested
    Policies,      \* which decisions a host may choose: "durable", "transient"
    Env            \* what may go wrong around the loop

EnvLabels == {"cancel", "crash", "port_fault", "misuse", "exhaust"}

ASSUME OneShotAssumption ==
    /\ MaxTurns \in Nat \ {0} /\ MaxRepairs \in Nat /\ MaxRefusals \in Nat
    /\ MaxTokens \in Nat \ {0} /\ MaxBytes \in Nat
    /\ Bytes \in [{"bootstrap", "decision", "observation", "correction"} -> Nat]
    /\ Bytes["bootstrap"] <= MaxBytes      \* any other operation ends at 313-315
    /\ Policies \subseteq {"durable", "transient"}
    /\ InitialRead \in BOOLEAN /\ Env \subseteq EnvLabels

Ordinal == 1..(MaxTurns + MaxRefusals + 1)
Reply   == {"tool", "finish", "invalid", "failed", "cancelled"}
(* A provider_error is a quota_exhausted as well. *)
Stops   == {"cancelled", "budget_exhausted", "protocol_error", "provider_error",
            "configuration_error", "uncertain"}
Faults  == {"setup", "runtime", "defect", "unresolved", "other"}

Item     == (DOMAIN Bytes) \X Nat
Boot     == <<"bootstrap", 0>>
Text(k)  == <<"decision", k>>
After(k, r) == <<IF r = "invalid" THEN "correction" ELSE "observation", k>>

Count(items, kind) == Cardinality({i \in DOMAIN items : items[i][1] = kind})

Size(items) ==
    Bytes["bootstrap"] * Count(items, "bootstrap") + Bytes["decision"] * Count(items, "decision")
    + Bytes["observation"] * Count(items, "observation")
    + Bytes["correction"] * Count(items, "correction")

Unknown == -1    \* a count of tokens that is None

VARIABLES
    policy,      \* the decisions the host has chosen
    \* the journal of this scope, per ordinal; of the run itself when transient
    rec,         \* "none", "armed", "completed" or "refused"
    reply,       \* the terminal of a completed decision
    request,     \* model_step_ordinal_before, protocol_repairs, canonical_content
    \* the world
    submitted,   \* how often the attempt of an ordinal reached the provider
    positions,   \* <<ordinal, step>> the dispatcher was given
    view,        \* what the live session has seen
    bill,        \* of this run's turns: how many may have been paid, how many said their usage
    \* the run
    at, cancelled, result,
    replay,      \* a completed decision is to be replayed
    ordinal,     \* state.model_decision_ordinal
    step,        \* state.model_step_ordinal
    repairs,
    canonical, pending, prefix,   \* canonical_content, pending_content and its canonical prefix
    visible,     \* state.visible_bytes
    turns,       \* state.provider_turns
    tokens,      \* state.input_tokens
    partial,     \* state.input_usage_incomplete
    metered,     \* previous_lease_usage
    meter,       \* the lease's _Usage: turns, tokens, complete
    lease,       \* a provider session is open
    armedRequest,
    revoked,     \* turn.revoke() has been called
    answer,      \* the terminal at hand
    error        \* the exception that is on its way out

journal == <<rec, reply, request>>
world   == <<submitted, positions, view, bill>>
context == <<canonical, pending, prefix, visible>>
counts  == <<replay, ordinal, step, repairs>>
usage   == <<tokens, partial, metered>>
paid    == <<turns, meter>>
turn    == <<armedRequest, revoked, answer, error>>
store   == <<policy, journal, submitted, positions>>       \* outlives a run
run     == <<view, bill, counts, context, usage, paid, lease, turn>>
vars    == <<policy, journal, world, at, cancelled, result, counts, context, usage, paid, lease,
             turn>>

Running == {"head", "prepare", "answer"}
Awaits  == {"latest", "owner", "read_owner", "read", "open", "turn_owner", "arm", "submit",
            "events", "interrupt", "draining", "accept", "turnclose", "refuse", "usage",
            "tool_owner", "dispatch", "except", "account", "close"}

(* Without a journal its calls are not made, and nothing is awaited.       *)
Durable   == policy = "durable"
Suspended == at \in Awaits /\ (Durable \/ at \notin {"latest", "arm", "accept", "refuse"})

Requests == [step : Nat, repairs : Nat, canonical : Seq(Item)]

Meter == [turns : Nat, tokens : Nat, complete : BOOLEAN]

TypeOK ==
    /\ policy \in Policies
    /\ rec \in [Ordinal -> {"none", "armed", "completed", "refused"}]
    /\ reply \in [Ordinal -> Reply \cup {"none"}]
    /\ request \in [Ordinal -> Requests]
    /\ submitted \in [Ordinal -> Nat]
    /\ positions \subseteq Ordinal \X Nat
    /\ view \in Seq(Item)
    /\ bill \in [asked : Nat, told : Nat]
    /\ visible \in Nat /\ turns \in Nat /\ tokens \in Nat \cup {Unknown}
    /\ partial \in BOOLEAN /\ metered \in Nat \cup {Unknown} /\ meter \in Meter
    /\ at \in Awaits \cup Running \cup {"rest"}
    /\ cancelled \in BOOLEAN /\ replay \in BOOLEAN /\ lease \in BOOLEAN
    /\ armedRequest \in BOOLEAN /\ revoked \in BOOLEAN
    /\ result \in Stops \cup {"none", "completed", "raised", "crashed"}
    /\ ordinal \in 0..(MaxTurns + MaxRefusals + 1)
    /\ step \in 0..MaxTurns /\ repairs \in 0..MaxRepairs
    /\ canonical \in Seq(Item) /\ pending \in Seq(Item) /\ prefix \in 0..Len(pending)
    /\ answer \in Reply \cup {"none"}
    /\ error \in Faults \cup {"none"}

NoBill  == [asked |-> 0, told |-> 0]
NoMeter == [turns |-> 0, tokens |-> 0, complete |-> TRUE]

NoRequest == [step |-> 0, repairs |-> 0, canonical |-> <<>>]

Init ==
    /\ policy \in Policies
    /\ rec = [k \in Ordinal |-> "none"]
    /\ reply = [k \in Ordinal |-> "none"]
    /\ request = [k \in Ordinal |-> NoRequest]
    /\ submitted = [k \in Ordinal |-> 0]
    /\ positions = {}
    /\ at = "rest" /\ result = "none" /\ cancelled = FALSE
    /\ replay = FALSE /\ ordinal = 0 /\ step = 0 /\ repairs = 0
    /\ canonical = <<>> /\ pending = <<>> /\ prefix = 0
    /\ visible = 0 /\ turns = 0 /\ tokens = Unknown /\ partial = FALSE
    /\ metered = Unknown /\ meter = NoMeter /\ bill = NoBill
    /\ lease = FALSE /\ view = <<>>
    /\ armedRequest = FALSE /\ revoked = FALSE /\ answer = "none" /\ error = "none"

-----------------------------------------------------------------------------
(* How the coroutine moves on, stops and ends. *)

Go(place) == at' = place /\ UNCHANGED <<cancelled, result>>

(* It has returned or raised, and its session is gone. *)
Finish(how) ==
    /\ at' = "rest" /\ result' = how /\ cancelled' = FALSE
    /\ replay' = FALSE /\ ordinal' = 0 /\ step' = 0 /\ repairs' = 0
    /\ canonical' = <<>> /\ pending' = <<>> /\ prefix' = 0 /\ visible' = 0
    /\ turns' = 0 /\ tokens' = Unknown /\ partial' = FALSE /\ metered' = Unknown
    /\ meter' = NoMeter /\ bill' = NoBill
    /\ lease' = FALSE /\ view' = <<>>
    /\ armedRequest' = FALSE /\ revoked' = FALSE /\ answer' = "none" /\ error' = "none"

(* It leaves the try block; finally accounts for the session and closes it. *)
Stop(how) ==
    IF lease THEN at' = "account" /\ result' = how /\ UNCHANGED <<cancelled, run>>
    ELSE Finish(how)

(* The except clauses of the try block. *)
Mapped(fault) ==
    CASE fault = "setup"      -> IF armedRequest THEN "uncertain" ELSE "configuration_error"
      [] fault = "runtime"    -> IF armedRequest THEN "uncertain"
                                 ELSE IF cancelled THEN "cancelled" ELSE "provider_error"
      [] fault = "unresolved" -> "uncertain"
      [] fault = "defect"     -> "configuration_error"
      [] fault = "other"      -> "raised"

(* An exception reaches the except clauses, which first ask for the usage. *)
Throw(fault) ==
    IF lease /\ fault # "other"
    THEN /\ at' = "except" /\ error' = fault
         /\ UNCHANGED <<cancelled, result, view, bill, counts, context, usage, paid, lease,
                        armedRequest, revoked, answer>>
    ELSE Stop(Mapped(fault))

Seen == {k \in Ordinal : rec[k] # "none"}

(* journal.latest *)
Latest == IF Seen = {} THEN 0 ELSE CHOOSE k \in Seen : \A j \in Seen : j <= k

(* The request a run takes up: the recorded one, or a fresh bootstrap. *)
Saved == IF Latest = 0 THEN [step |-> 0, repairs |-> 0, canonical |-> <<Boot>>]
         ELSE request[Latest]

-----------------------------------------------------------------------------
(* What the session has cost: the lease's _Usage, and _RunState.add_usage. *)

(* Mutant: a turn that says nothing of its usage is left out of the count. *)
RecordedKnown(report) ==
    [turns    |-> meter.turns + 1,
     tokens   |-> IF report # Unknown THEN meter.tokens + report ELSE meter.tokens,
     complete |-> TRUE]

Recorded(report) ==
    [turns    |-> meter.turns + 1,
     tokens   |-> IF report # Unknown /\ meter.complete THEN meter.tokens + report
                  ELSE meter.tokens,
     complete |-> meter.complete /\ report # Unknown]

LeaseUsage == IF meter.turns = 0 \/ ~meter.complete THEN Unknown ELSE meter.tokens

Known(count) == IF count = Unknown THEN 0 ELSE count

(* account_lease_usage, once provider.accumulated_usage has answered.  A    *)
(* session's usage never decreases, so _add_delta raises nothing here.     *)
Account ==
    /\ partial' = (partial \/ (LeaseUsage = Unknown /\ turns > 0))
    /\ tokens' = IF partial' THEN Unknown
                 ELSE IF LeaseUsage = Unknown THEN tokens
                 ELSE Known(tokens) + LeaseUsage - Known(metered)
    /\ metered' = LeaseUsage

(* The token part of _kernel_budget_exhausted. *)
TokensSpent == tokens # Unknown /\ tokens > MaxTokens

-----------------------------------------------------------------------------
(* The host and the token. *)

Start ==
    /\ at = "rest"
    /\ Cardinality({k \in Ordinal : rec[k] = "refused"}) <= MaxRefusals
    /\ at' = "latest" /\ result' = "none"
    /\ cancelled' \in (IF "cancel" \in Env THEN BOOLEAN ELSE {FALSE})
    /\ IF Durable THEN UNCHANGED <<journal, submitted, positions>>
       ELSE /\ rec' = [k \in Ordinal |-> "none"]
            /\ reply' = [k \in Ordinal |-> "none"]
            /\ request' = [k \in Ordinal |-> NoRequest]
            /\ submitted' = [k \in Ordinal |-> 0]
            /\ positions' = {}
    /\ UNCHANGED <<policy, run>>

Cancel ==
    /\ "cancel" \in Env
    /\ Suspended
    /\ ~cancelled
    /\ cancelled' = TRUE
    /\ UNCHANGED <<store, at, result, run>>

-----------------------------------------------------------------------------
(* Recovery: what the journal says decides what this run may do. *)

(* Mutant: an uncertain decision is asked again. *)
UncertainNever == FALSE

Uncertain == Latest # 0 /\ rec[Latest] = "armed"

Decided == Latest # 0 /\ rec[Latest] = "completed"

(* Mutant: a recorded decision is not replayed but taken anew. *)
ReplaysNever == FALSE

Replays == Decided

LatestReturns ==
    /\ at = "latest"
    /\ IF Uncertain THEN Finish("uncertain")
       ELSE \/ "misuse" \in Env /\ Finish("configuration_error")
            \/ /\ replay' = Replays
               /\ ordinal' = IF Decided THEN Latest - 1 ELSE Latest
               /\ step' = Saved.step
               /\ repairs' = Saved.repairs
               /\ Go("owner")
               /\ UNCHANGED <<view, bill, context, usage, paid, lease, turn>>
    /\ UNCHANGED store

(* The bootstrap, or the recorded canonical content, whose bytes are       *)
(* counted when a session is opened for it.                                *)
Bootstrap ==
    /\ canonical' = Saved.canonical
    /\ pending' = canonical'
    /\ prefix' = Len(canonical')
    /\ visible' = IF Latest = 0 THEN Size(<<Boot>>) ELSE 0
    /\ Go("head")
    /\ UNCHANGED <<view, bill, counts, usage, paid, lease, turn>>

(* The tool budget may be refused. *)
OwnerReturns ==
    /\ at = "owner"
    /\ \/ IF cancelled THEN Finish("cancelled")
          ELSE IF InitialRead /\ Latest = 0
               THEN Go("read_owner") /\ UNCHANGED run
               ELSE Bootstrap
       \/ "misuse" \in Env /\ Finish("configuration_error")
    /\ UNCHANGED store

ReadOwnerReturns ==
    /\ at = "read_owner"
    /\ Go("read")
    /\ UNCHANGED <<store, run>>

(* The initial read's dispatch answers; a suspension is a defect. *)
ReadReturns ==
    /\ at = "read"
    /\ \/ IF cancelled THEN Finish("cancelled") ELSE Bootstrap
       \/ "misuse" \in Env /\ Finish("configuration_error")
    /\ UNCHANGED store

-----------------------------------------------------------------------------
(* One pass of the loop. *)

TurnsSpent == step + repairs >= MaxTurns

(* Mutant: the replayed decision's text is left out of the session's view. *)
ReplayedBare ==
    /\ canonical' = Append(canonical, Text(ordinal'))
    /\ pending' = canonical
    /\ prefix' = Len(pending')

(* A replayed decision joins the content a fresh session must be shown. *)
Replayed ==
    /\ canonical' = Append(canonical, Text(ordinal'))
    /\ pending' = canonical'
    /\ prefix' = Len(pending')

(* The bytes of the recovered content, once. *)
Uncounted == IF lease \/ Latest = 0 THEN 0 ELSE Size(SubSeq(pending, 1, prefix))

LoopHead ==
    /\ at = "head"
    /\ IF cancelled THEN Stop("cancelled")
       ELSE \/ /\ TurnsSpent \/ "exhaust" \in Env
               /\ Stop("budget_exhausted")
            \/ /\ ~TurnsSpent /\ replay
               /\ replay' = FALSE
               /\ ordinal' = ordinal + 1
               /\ Replayed
               /\ answer' = reply[ordinal']
               /\ Go("answer")
               /\ UNCHANGED <<view, bill, step, repairs, visible, usage, paid, lease,
                              armedRequest, revoked, error>>
            \/ /\ ~TurnsSpent /\ ~replay
               /\ visible' = visible + Uncounted
               /\ Go(IF lease THEN "prepare" ELSE "open")
               /\ UNCHANGED <<view, bill, counts, canonical, pending, prefix, usage, paid, lease,
                              turn>>
    /\ UNCHANGED store

OpenReturns ==
    /\ at = "open"
    /\ lease' = TRUE
    /\ Go("prepare")
    /\ UNCHANGED <<store, view, bill, counts, context, usage, paid, turn>>

(* Pending content that is not in the canonical content yet joins it. *)
Extended == canonical \o SubSeq(pending, prefix + 1, Len(pending))

(* Mutant: only the bytes of this run's projections are bounded. *)
FitsVisible(items) == visible <= MaxBytes

(* _require_decision_context *)
Fits(items) == visible <= MaxBytes /\ Size(items) <= MaxBytes

Prepare ==
    /\ at = "prepare"
    /\ canonical' = Extended
    /\ prefix' = 0
    /\ IF Fits(canonical')
       THEN Go("turn_owner") /\ UNCHANGED <<error>>
       ELSE at' = "except" /\ error' = "defect" /\ UNCHANGED <<cancelled, result>>
    /\ UNCHANGED <<store, view, bill, counts, pending, visible, usage, paid, lease,
                   armedRequest, revoked, answer>>

(* The turn is prepared, revoked at once when already cancelled. *)
TurnOwnerReturns ==
    /\ at = "turn_owner"
    /\ armedRequest' = Durable
    /\ ordinal' = ordinal + 1
    /\ turns' = turns + 1
    /\ revoked' = cancelled
    /\ answer' = "none"
    /\ Go("arm")
    /\ UNCHANGED <<store, view, bill, replay, step, repairs, context, usage, meter, lease, error>>

Armed ==
    /\ rec' = [rec EXCEPT ![ordinal] = "armed"]
    /\ request' = [request EXCEPT ![ordinal] =
                      [step |-> step, repairs |-> repairs, canonical |-> canonical]]
    /\ UNCHANGED reply

(* Mutant: a cancellation that came while arming is not looked at. *)
RevokedEarlier == revoked

RevokedNow == revoked \/ cancelled

ArmReturns ==
    /\ at = "arm"
    /\ Armed
    /\ revoked' = RevokedNow
    /\ Go("submit")
    /\ UNCHANGED <<policy, world, counts, context, usage, paid, lease, armedRequest, answer,
                   error>>

-----------------------------------------------------------------------------
(* The observed turn. *)

(* Its finally: what was seen of the usage goes to the lease, then the     *)
(* turn is closed.                                                         *)
Closing(fault, report) ==
    /\ at' = "turnclose" /\ error' = fault /\ UNCHANGED <<cancelled, result>>
    /\ meter' = Recorded(report)
    /\ bill' = [asked |-> bill.asked + 1,
                told  |-> IF report = Unknown THEN bill.told ELSE bill.told + 1]

Reports == {Unknown, 1}

Reached ==
    /\ submitted' = [submitted EXCEPT ![ordinal] = @ + 1]
    /\ view' = view \o pending

(* turn.submit(): accepted, refused with proof, or unresolved. *)
SubmitReturns ==
    /\ at = "submit"
    /\ \/ ~revoked /\ Reached /\ Go("events") /\ UNCHANGED <<error, meter, bill>>
       \/ /\ at' = "turnclose" /\ error' = "none" /\ UNCHANGED <<cancelled, result>>
          /\ UNCHANGED <<submitted, view, meter, bill>>
       \/ /\ "misuse" \in Env /\ ~revoked
          /\ Reached \/ UNCHANGED <<submitted, view>>
          /\ Closing("unresolved", Unknown)
    /\ UNCHANGED <<policy, journal, positions, counts, context, usage, turns, lease, armedRequest,
                   revoked, answer>>

(* Events without a terminal change nothing.  A terminal of this attempt   *)
(* is accepted.                                                            *)
TerminalArrives ==
    /\ at \in {"events", "draining"}
    /\ answer' \in Reply
    /\ Go("accept")
    /\ UNCHANGED <<store, view, bill, counts, context, usage, paid, lease, armedRequest, revoked,
                   error>>

(* The stream ends, shows authority it may not have, or ends in a foreign  *)
(* terminal or a local stop.                                               *)
BadEvent ==
    /\ "misuse" \in Env
    /\ at \in {"events", "draining"}
    /\ \E fault \in {"defect", "unresolved"}, report \in Reports : Closing(fault, report)
    /\ UNCHANGED <<store, view, counts, context, usage, turns, lease, armedRequest, revoked,
                   answer>>

(* Mutant: the provider is interrupted once it has said something. *)
InterruptsLate == cancelled /\ answer # "none"

Interrupts == cancelled

(* cancel_wait is done and no event is. *)
Interrupt ==
    /\ at = "events"
    /\ Interrupts
    /\ revoked' = TRUE
    /\ Go("interrupt")
    /\ UNCHANGED <<store, view, bill, counts, context, usage, paid, lease, armedRequest, answer,
                   error>>

InterruptReturns ==
    /\ at = "interrupt"
    /\ Go("draining")
    /\ UNCHANGED <<store, run>>

(* asyncio.timeout(5.0): the TimeoutError has no except clause. *)
DrainTimeout ==
    /\ at = "draining"
    /\ \E report \in Reports : Closing("other", report)
    /\ UNCHANGED <<store, view, counts, context, usage, turns, lease, armedRequest, revoked,
                   answer>>

Completed ==
    /\ rec' = [rec EXCEPT ![ordinal] = "completed"]
    /\ reply' = [reply EXCEPT ![ordinal] = answer]
    /\ UNCHANGED request

(* Mutant: the turn is used before its truth is committed. *)
AcceptNothing ==
    /\ at = "accept"
    /\ view' = Append(view, Text(ordinal))
    /\ \E report \in Reports : Closing("none", report)
    /\ UNCHANGED <<store, counts, context, usage, turns, lease, armedRequest, revoked, answer>>

AcceptReturns ==
    /\ at = "accept"
    /\ Completed
    /\ view' = Append(view, Text(ordinal))
    /\ \E report \in Reports : Closing("none", report)
    /\ UNCHANGED <<policy, submitted, positions, counts, context, usage, turns, lease,
                   armedRequest, revoked, answer>>

(* turn.close(): its failure matters only to a turn without any outcome.   *)
TurnCloseReturns ==
    /\ at = "turnclose"
    /\ IF error # "none" THEN Throw(error)
       ELSE IF answer = "none" THEN Go("refuse") /\ UNCHANGED run
       ELSE /\ pending' = <<>>
            /\ armedRequest' = FALSE
            /\ Go("usage")
            /\ UNCHANGED <<view, bill, counts, canonical, prefix, visible, usage, paid, lease,
                           revoked, answer, error>>
    /\ UNCHANGED store

Refused ==
    /\ rec' = [rec EXCEPT ![ordinal] = "refused"]
    /\ UNCHANGED <<reply, request>>

(* A refused turn was not paid. *)
RefuseReturns ==
    /\ at = "refuse"
    /\ Refused
    /\ turns' = turns - 1
    /\ armedRequest' = FALSE
    /\ at' = "account" /\ result' = (IF cancelled THEN "cancelled" ELSE "provider_error")
    /\ UNCHANGED <<policy, submitted, positions, cancelled, view, bill, counts, context, usage,
                   meter, lease, revoked, answer, error>>

UsageReturns ==
    /\ at = "usage"
    /\ Account
    /\ canonical' = Append(canonical, Text(ordinal))
    /\ Go("answer")
    /\ UNCHANGED <<store, view, bill, counts, pending, prefix, visible, paid, lease, turn>>

-----------------------------------------------------------------------------
(* What the decision asks for. *)

(* continuation_context: what answers the decision, if it still fits. *)
Answers(kind) ==
    /\ visible' = visible + Bytes[kind]
    /\ visible' <= MaxBytes
    /\ pending' = Append(pending, <<kind, ordinal>>)

Overflows(kind) == visible + Bytes[kind] > MaxBytes

(* Mutant: a model that never answers in form is asked for ever. *)
RepairsSpentNever == FALSE

RepairsSpent == repairs >= MaxRepairs

(* The statuses, then the budgets, then what the step asks for. *)
AnswerStops ==
    /\ at = "answer"
    /\ \/ answer = "cancelled" /\ Stop("cancelled")
       \/ answer = "failed" /\ Stop("provider_error")
       \/ answer # "cancelled" /\ "exhaust" \in Env /\ Stop("budget_exhausted")
       \/ answer \notin {"cancelled", "failed"} /\ TokensSpent /\ Stop("budget_exhausted")
       \/ answer = "invalid" /\ ~TokensSpent /\ RepairsSpent /\ Stop("protocol_error")
       \/ answer \in {"tool", "finish"} /\ ~TokensSpent /\ cancelled /\ Stop("cancelled")
       \/ answer = "finish" /\ ~TokensSpent /\ ~cancelled /\ Stop("completed")
       \/ "misuse" \in Env /\ Throw("defect")
    /\ UNCHANGED store

AnswerRepair ==
    /\ at = "answer"
    /\ answer = "invalid" /\ ~TokensSpent /\ ~RepairsSpent
    /\ repairs' = repairs + 1
    /\ Answers("correction")
    /\ Go("head")
    /\ UNCHANGED <<store, view, bill, replay, ordinal, step, canonical, prefix, usage, paid, lease,
                   turn>>

(* The correction does not fit any more. *)
RepairOverflows ==
    /\ at = "answer"
    /\ answer = "invalid" /\ ~TokensSpent /\ ~RepairsSpent
    /\ Overflows("correction")
    /\ Throw("defect")
    /\ UNCHANGED store

AnswerTool ==
    /\ at = "answer"
    /\ answer = "tool" /\ ~TokensSpent /\ ~cancelled
    /\ step' = step + 1
    /\ Go("tool_owner")
    /\ UNCHANGED <<store, view, bill, replay, ordinal, repairs, context, usage, paid, lease, turn>>

ToolOwnerReturns ==
    /\ at = "tool_owner"
    /\ Go("dispatch")
    /\ UNCHANGED <<store, run>>

Dispatched == positions' = positions \cup {<<ordinal, step>>}

DispatchReturns ==
    /\ at = "dispatch"
    /\ Dispatched
    /\ \/ IF cancelled THEN Stop("cancelled")
          ELSE \/ Overflows("observation") /\ Throw("defect")
               \/ /\ Answers("observation")
                  /\ Go("head")
                  /\ UNCHANGED <<view, bill, counts, canonical, prefix, usage, paid, lease, turn>>
       \/ "misuse" \in Env /\ (Stop("configuration_error") \/ Throw("defect"))
    /\ UNCHANGED <<policy, journal, submitted>>

-----------------------------------------------------------------------------
(* The except clauses and finally. *)

ExceptReturns ==
    /\ at = "except"
    /\ Account
    /\ at' = "account" /\ result' = Mapped(error)
    /\ UNCHANGED <<store, cancelled, view, bill, counts, context, paid, lease, turn>>

AccountReturns ==
    /\ at = "account"
    /\ Account
    /\ Go("close")
    /\ UNCHANGED <<store, view, bill, counts, context, paid, lease, turn>>

(* What provider.close raises becomes a diagnostic. *)
CloseReturns ==
    /\ at = "close"
    /\ Finish(result)
    /\ UNCHANGED store

-----------------------------------------------------------------------------
(* What an interrupted port call leaves behind: it took effect or not. *)
Landed ==
    \/ UNCHANGED <<journal, submitted, positions>>
    \/ at = "arm" /\ Armed /\ UNCHANGED <<submitted, positions>>
    \/ at = "accept" /\ Completed /\ UNCHANGED <<submitted, positions>>
    \/ at = "refuse" /\ Refused /\ UNCHANGED <<submitted, positions>>
    \/ /\ at = "submit" /\ ~revoked
       /\ submitted' = [submitted EXCEPT ![ordinal] = @ + 1]
       /\ UNCHANGED <<journal, positions>>
    \/ at = "dispatch" /\ Dispatched /\ UNCHANGED <<journal, submitted>>

(* A failing call of the except clause or of finally replaces the outcome. *)
Lost(place) == at' = place /\ result' = "raised" /\ UNCHANGED <<cancelled, run>>

(* A port raises, or the task is cancelled, at one of its awaits. *)
PortFails ==
    /\ "port_fault" \in Env
    /\ Suspended /\ at # "turnclose"
    /\ Landed
    /\ \E fault \in Faults \ {"unresolved"} :
          CASE at \in {"latest", "owner", "close"} -> Finish("raised")
            [] at = "except"  -> Lost("account")
            [] at = "account" -> Lost("close")
            [] at \in {"submit", "events", "interrupt", "draining", "accept"} ->
                  /\ \E report \in IF at = "submit" THEN {Unknown} ELSE Reports :
                        Closing(fault, report)
                  /\ UNCHANGED <<view, counts, context, usage, turns, lease, armedRequest,
                                 revoked, answer>>
            [] OTHER -> Throw(fault)
    /\ UNCHANGED policy

(* turn.close() raises after a refused submission. *)
TurnCloseFails ==
    /\ "port_fault" \in Env
    /\ at = "turnclose"
    /\ error = "none" /\ answer = "none"
    /\ \E fault \in Faults \ {"unresolved"} : Throw(fault)
    /\ UNCHANGED store

Crash ==
    /\ "crash" \in Env
    /\ Suspended
    /\ Landed
    /\ Finish("crashed")
    /\ UNCHANGED policy

(* The host does not ask again. *)
Idle == at = "rest" /\ UNCHANGED vars

Own == \/ LatestReturns \/ OwnerReturns \/ ReadOwnerReturns \/ ReadReturns \/ LoopHead \/ OpenReturns
       \/ Prepare \/ TurnOwnerReturns \/ ArmReturns \/ SubmitReturns \/ Interrupt
       \/ InterruptReturns \/ DrainTimeout \/ AcceptReturns \/ TurnCloseReturns \/ RefuseReturns
       \/ UsageReturns \/ AnswerStops \/ AnswerRepair \/ RepairOverflows \/ AnswerTool
       \/ ToolOwnerReturns \/ DispatchReturns \/ ExceptReturns \/ AccountReturns \/ CloseReturns

Next == Start \/ Cancel \/ Own \/ TerminalArrives \/ BadEvent \/ PortFails \/ TurnCloseFails
        \/ Crash \/ Idle

Spec == Init /\ [][Next]_vars

(* Fairness: every await of a port ends, the provider's through its own    *)
(* deadlines (AgentTurnControls of provider.py:207), and a silent provider *)
(* runs into the five seconds of kernel.py:730.  Nothing makes a provider  *)
(* answer, and nothing makes the host run.                                 *)
LiveSpec == Spec /\ WF_vars(Own)
=============================================================================
