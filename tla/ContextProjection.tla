--------------------------- MODULE ContextProjection ---------------------------
(***************************************************************************)
(* context.py: what a host shows a model of one run, call by call of       *)
(* bootstrap_context and continuation_context, under the cumulative byte   *)
(* limit of the definition.  Sections are their sizes; the passes of the   *)
(* loop in _project are actions, so that the observations omitted so far   *)
(* are a state.                                                            *)
(***************************************************************************)
EXTENDS Integers, Sequences

CONSTANTS
    Limit,         \* limits.max_new_context_bytes
    Policies,      \* the definitions' input projection policies
    Observations,  \* the observations a host may offer, as ToolObservation's arguments
    Stable         \* the size of role, stable context and tool table

Observation == [effect : {"Read", "Write"}, recomputable : BOOLEAN, referenced : BOOLEAN,
                initial : BOOLEAN, size : Nat, marker : Nat]

Policy == [timestamps : BOOLEAN, as_of : {"always", "never", "on_request"}]

ASSUME ProjectionAssumption ==
    /\ Limit \in Nat \ {0} /\ Stable \in Nat
    /\ Observations \subseteq Observation
    /\ Policies \subseteq Policy

VARIABLES
    policy,      \* definition.input_projection_policy
    visible,     \* the cumulative bytes the host carries to its next call
    call,        \* the call of _project: base, observations, suffix and prior bytes
    omitted,     \* the indices omitted so far
    outcome      \* "none", "projecting", "projected", "exceeded" or "refused"

projection == <<policy, visible, call, omitted, outcome>>

-----------------------------------------------------------------------------
(* Mutant: any observation may be marked recomputable. *)
ConstructibleAny(o) == o.recomputable => o.referenced /\ ~o.initial

(* ToolObservation.__post_init__: only a Read with a stable reference can  *)
(* be read again, and the initial Read is required context.                *)
Constructible(o) ==
    o.recomputable => o.effect = "Read" /\ o.referenced /\ ~o.initial

(* InputProjectionPolicy.resolve: whether a request is granted, and what   *)
(* is rendered then.                                                       *)
Prohibited(request) == policy.as_of = "never" /\ request

AsOfRendered(request) == policy.as_of = "always" \/ (policy.as_of = "on_request" /\ request)

(* input_batch: an attribute is one byte, an input another.                *)
Batch(inputs, request) ==
    inputs + (IF policy.timestamps THEN inputs ELSE 0) + (IF AsOfRendered(request) THEN 1 ELSE 0)

Bootstrap(source, inputs, request) == Stable + source + Batch(inputs, request)

Continuation(source, inputs, request) ==
    source + (IF inputs > 0 THEN Batch(inputs, request) ELSE 0)

-----------------------------------------------------------------------------
(* The loop of _project. *)

(* The rendered size, an omitted observation standing as its marker.       *)
Rendered(c, gone) ==
    LET sum[i \in 0..Len(c.observations)] ==
            IF i = 0 THEN c.base + c.suffix
            ELSE sum[i - 1] + (IF i \in gone THEN c.observations[i].marker
                               ELSE c.observations[i].size)
    IN  sum[Len(c.observations)]

Cumulative(c, gone) == c.prior + Rendered(c, gone)

FitsLimit(c, gone) == Cumulative(c, gone) <= Limit

Recomputable(c) == {i \in DOMAIN c.observations : c.observations[i].recomputable}

(* Mutant: one observation at most is omitted. *)
RemovableOnce == IF omitted = {} THEN Recomputable(call) ELSE {}

Removable == Recomputable(call) \ omitted

(* A call of bootstrap_context or continuation_context. *)
Project(base, observations, suffix, request) ==
    /\ IF Prohibited(request) THEN outcome' = "refused" /\ UNCHANGED <<call, omitted>>
       ELSE /\ call' = [base |-> base, observations |-> observations, suffix |-> suffix,
                        prior |-> visible]
            /\ omitted' = {}
            /\ outcome' = "projecting"
    /\ UNCHANGED <<policy, visible>>

Fit ==
    /\ outcome = "projecting"
    /\ FitsLimit(call, omitted)
    /\ outcome' = "projected"
    /\ visible' = Cumulative(call, omitted)
    /\ UNCHANGED <<policy, call, omitted>>

Omit ==
    /\ outcome = "projecting"
    /\ ~FitsLimit(call, omitted)
    /\ \E i \in Removable :
          /\ \A j \in Removable : i <= j
          /\ omitted' = omitted \cup {i}
    /\ UNCHANGED <<policy, visible, call, outcome>>

(* ContextLimitExceeded *)
Exceed ==
    /\ outcome = "projecting"
    /\ ~FitsLimit(call, omitted)
    /\ Removable = {}
    /\ outcome' = "exceeded"
    /\ UNCHANGED <<policy, visible, call, omitted>>

NoCall == [base |-> 0, observations |-> <<>>, suffix |-> 0, prior |-> 0]

(* The host has used the projection. *)
Drop ==
    /\ outcome # "projecting"
    /\ call' = NoCall /\ omitted' = {} /\ outcome' = "none"
    /\ UNCHANGED <<policy, visible>>

ProjectionInit ==
    /\ policy \in Policies
    /\ visible = 0 /\ call = NoCall /\ omitted = {} /\ outcome = "none"

(* What a host can offer. *)
Offers == Seq({o \in Observations : Constructible(o)})

(* A host that projects as it likes. *)
ProjectionNext ==
    \/ /\ outcome # "projecting"
       /\ \E base, suffix \in Nat, observations \in Offers, request \in BOOLEAN :
             Project(base, observations, suffix, request)
    \/ Fit \/ Omit \/ Exceed \/ Drop

ProjectionSpec == ProjectionInit /\ [][ProjectionNext]_projection

-----------------------------------------------------------------------------
(* Properties. *)

(* Only Reads that can be read again are replaced by a marker, the oldest  *)
(* first, and none of them needlessly: without the last one the context    *)
(* would not have fitted.  A projection that is returned keeps the limit   *)
(* with all that was shown before it, and one is refused only when nothing *)
(* is left to omit ("Required context cannot fit without silently losing   *)
(* evidence", context.py:31-32; 88-97, 219-245).                           *)
OmissionExact ==
    /\ \A i \in omitted :
          /\ i \in DOMAIN call.observations
          /\ call.observations[i].effect = "Read" /\ call.observations[i].referenced
          /\ ~call.observations[i].initial
    /\ \A i \in omitted, j \in Recomputable(call) : j < i => j \in omitted
    /\ omitted # {} => \E i \in omitted : /\ \A j \in omitted : j <= i
                                          /\ ~FitsLimit(call, omitted \ {i})
    /\ outcome = "projected" => visible = Cumulative(call, omitted) /\ visible <= Limit
    /\ outcome = "exceeded" => /\ Recomputable(call) \subseteq omitted
                               /\ ~FitsLimit(call, omitted)

(* Where no marker is larger than what it stands for, a context that is    *)
(* refused could not have been shown with any choice of omissions.         *)
NoBetterOmission ==
    /\ outcome = "exceeded"
    /\ \A i \in Recomputable(call) : call.observations[i].marker <= call.observations[i].size
    => \A gone \in SUBSET Recomputable(call) : ~FitsLimit(call, gone)
=============================================================================
