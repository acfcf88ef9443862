------------------------------ MODULE IsolatedStep ------------------------------
(***************************************************************************)
(* A host's own loop over the public operations run_one_shot is built      *)
(* from: define a result contract, project a context, take an answer as a  *)
(* step and project what answers it.  Where run_one_shot never marks an    *)
(* observation recomputable, this host may.                                *)
(***************************************************************************)
EXTENDS ContextProjection, ProviderStep

CONSTANTS
    Contracts,     \* result schemas a definition may be built with
    Answers,       \* what a provider may return
    Histories,     \* the observations a host may bootstrap with
    MaxInputs      \* bound: host inputs in one batch

ASSUME IsolatedAssumption ==
    /\ MaxInputs \in Nat
    /\ \A doc \in Contracts : IsDocument(doc)
    /\ Answers \subseteq Values
    /\ Histories \subseteq Seq(Observations)

VARIABLES
    phase,         \* "new", "refused", "defect", "ready", "answered" or "finished"
    contract,      \* the schema of the result type
    answer,        \* the structured output of the last terminal
    step           \* what it was taken for

vars == <<projection, phase, contract, answer, step>>

NoContract == [root |-> 1, nodes |-> <<Anything>>, defs |-> <<>>]

Init ==
    /\ ProjectionInit
    /\ phase = "new" /\ contract = NoContract /\ answer = Null /\ step = NoStep

(* StructuredOutput(...) raises ValueError, or AgentDefinition(...) has its *)
(* envelope audited for the fingerprint and may raise RuntimeError.        *)
Define ==
    /\ phase = "new"
    /\ contract' \in Contracts
    /\ \/ ~Publishes(contract') /\ phase' = "refused"
       \/ Publishes(contract') /\ ~Audited(Wire(contract')) /\ phase' = "defect"
       \/ Publishes(contract') /\ Audited(Wire(contract')) /\ phase' = "ready"
    /\ UNCHANGED <<projection, answer, step>>

Inputs == 0..MaxInputs

BootstrapCall ==
    /\ phase = "ready" /\ outcome = "none" /\ visible = 0
    /\ \E source \in 0..1, inputs \in Inputs \ {0}, history \in Histories, request \in BOOLEAN :
          /\ \A i \in DOMAIN history : Constructible(history[i])
          /\ Project(Bootstrap(source, inputs, request), history, 0, request)
    /\ UNCHANGED <<phase, contract, answer, step>>

Projecting ==
    /\ Fit \/ Omit \/ Exceed
    /\ UNCHANGED <<phase, contract, answer, step>>

(* A terminal's structured output is taken for a step. *)
AnswerArrives ==
    /\ phase = "ready" /\ outcome = "projected"
    /\ answer' \in Answers
    /\ step' = StepOf(contract, answer')
    /\ phase' = IF step'.type = "finish" THEN "finished" ELSE "answered"
    /\ Drop
    /\ UNCHANGED contract

(* Only what is new is projected: the tool's observation, or a correction. *)
ContinuationCall ==
    /\ phase = "answered"
    /\ \E inputs \in Inputs, request \in BOOLEAN, observed \in Observations :
          /\ Constructible(observed)
          /\ IF step.type = "call_tool"
             THEN Project(Continuation(0, inputs, request), <<observed>>, 0, request)
             ELSE Project(Continuation(0, inputs, request), <<>>, 1, request)
    /\ phase' = "ready" /\ answer' = Null /\ step' = NoStep
    /\ UNCHANGED contract

(* Nothing more comes of a refused definition, projection or a finish.     *)
Ended ==
    /\ phase \in {"refused", "defect", "finished"} \/ outcome \in {"exceeded", "refused"}
    /\ UNCHANGED vars

Next == Define \/ BootstrapCall \/ Projecting \/ AnswerArrives \/ ContinuationCall \/ Ended

Spec == Init /\ [][Next]_vars

-----------------------------------------------------------------------------
(* Reference definitions. *)

(* Where a path through a document may go on from a place.                 *)
Onward(doc, at) ==
    LET node == doc.nodes[at]
    IN  Parts(node) \cup {doc.defs[d] : d \in {node.ref} \cap DOMAIN doc.defs}

(* The simple paths from a place: those that come to no place twice. *)
Paths(doc, from) ==
    LET paths[n \in Nat] ==
            IF n = 0 THEN {<<from>>}
            ELSE UNION {{Append(path, at) :
                            at \in Onward(doc, path[n]) \ {path[i] : i \in 1..n}} :
                        path \in paths[n - 1]}
    IN  UNION {paths[n] : n \in 0..Len(doc.nodes)}

(* The objects along a path that its end lies in: it leads on from them    *)
(* into one of their parts.                                                *)
Around(doc, path) ==
    {i \in 1..(Len(path) - 1) : /\ IsObject(doc.nodes[path[i]])
                                /\ path[i + 1] \in Parts(doc.nodes[path[i]])}

(* An object lies in too many, `outside' of which are not on the path.     *)
TooDeep(doc, from, outside) ==
    \E path \in Paths(doc, from) :
        /\ IsObject(doc.nodes[path[Len(path)]])
        /\ outside + Cardinality(Around(doc, path)) >= MaxObjectDepth

(* Apart from its depth the strict subset has all of this; no field and no *)
(* definition may be called "properties".                                  *)
Expressible(doc) ==
    /\ Rooted(doc) /\ "properties" \notin Names(doc)
    /\ \A at \in Places(doc) : Supports(doc.nodes[at]) /\ Known(doc, doc.nodes[at])
    /\ Properties(doc) <= MaxProperties

(* Contracts whose published schema is right; contracts that would not fit *)
(* or have a definition that would not fit in the place of the result.     *)
Representable == {doc \in Contracts : Expressible(doc) /\ ~TooDeep(Wire(doc), Wire(doc).root, 0)}

Excessive ==
    {doc \in Contracts :
        \/ ~Expressible(doc)
        \/ \E from \in {doc.root} \cup Defined(doc) : TooDeep(Lowered(doc), from, EnvelopeDepth)}

(* A value fits the lowered schema exactly when it is complete and fits    *)
(* the logical one, with oneOf read as anyOf; then it does so when oneOf   *)
(* is meant exactly.                                                       *)
Faithful ==
    {doc \in Representable :
        \A value \in Values :
            LET Fits(schema, full, exactly) ==
                    Means(schema, full, exactly, Unfoldings, doc.root, value)
            IN  /\ Fits(Lowered(doc), FALSE, TRUE) <=> Fits(doc, TRUE, FALSE)
                /\ Fits(doc, TRUE, TRUE) => Fits(Lowered(doc), FALSE, TRUE)}

(* The audit refuses these, and should refuse nothing that is published.   *)
Misread == {doc \in Contracts : "additionalProperties" \in Names(doc)}

(* A step as the model has to write it. *)
Encode(taken) ==
    LET proposal == Struct([tool_id |-> Text(taken.tool), arguments |-> Text(taken.arguments)])
        ending   == Struct([reason |-> taken.reason, result |-> taken.result])
        Sent(type, first, second) ==
            Struct([type |-> Text(type), call_tool |-> first, finish |-> second])
    IN  IF taken.type = "call_tool" THEN Sent("call_tool", proposal, Null)
        ELSE Sent("finish", Null, ending)

-----------------------------------------------------------------------------
(* Properties. *)

(* A schema that is accepted is representable: no object of the published  *)
(* schema lies too deep, however its references are followed, and no       *)
(* reference leads nowhere.  One that is refused has a reason: the depth   *)
(* found by following references under the two levels of the envelope is   *)
(* a depth of the schema or of one of its definitions in the place of the  *)
(* result, or it uses the name "properties" (_schema.py:64-69, 216-264,    *)
(* definitions.py:607-617).  The audit fails of those accepted contracts   *)
(* alone that use the name "additionalProperties" (protocol.py:245-272).   *)
AcceptanceJustified ==
    /\ phase \in {"ready", "answered", "finished"} => contract \in Representable \ Misread
    /\ phase = "defect" => contract \in Representable \cap Misread
    /\ phase = "refused" => contract \in Excessive

(* The schema an accepted contract is compiled to admits exactly the       *)
(* complete results the logical schema has, a oneOf that several members   *)
(* fit excepted ("the kernel's independent Pydantic validation retains the *)
(* exact logical semantics", _schema.py:54-58).                            *)
WireFaithful == phase \notin {"new", "refused"} => contract \in Faithful

(* An answer is taken for a step exactly when it is the encoding of one    *)
(* that is valid under the contract and the plan, and for that step: no    *)
(* answer selects two branches, smuggles a field or repeats a key          *)
(* ("validate a whole step before returning text or a dispatchable         *)
(* proposal", protocol.py:124-129).                                        *)
Complete(doc, value) == Means(doc, TRUE, FALSE, Unfoldings, doc.root, value)

Meant(doc) ==
    {CallTool(tool, "object") : tool \in Granted}
    \cup {FinishStep(reason, result) :
            reason \in {v \in Values : v.kind \in {"null", "string"} /\ v # Blank},
            result \in {v \in Values : ResultFits(doc, v) /\ Complete(doc, v)}}

StepExact ==
    phase \in {"answered", "finished"} =>
        \/ step \in Meant(contract) /\ answer = Encode(step)
        \/ step = NoStep /\ \A meant \in Meant(contract) : answer # Encode(meant)
=============================================================================
