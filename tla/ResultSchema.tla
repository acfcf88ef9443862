------------------------------ MODULE ResultSchema ------------------------------
(***************************************************************************)
(* _schema.py and provider_wire_schema of protocol.py: the JSON schema of  *)
(* a result type is accepted for the provider's strict subset or refused,  *)
(* and published inside the envelope of a model step.                      *)
(*                                                                         *)
(* A schema document is the sequence of its nodes: the parts of a node are *)
(* places in it, the document begins at its root, and defs has the places  *)
(* of its definitions.  A node has a field for each keyword that matters:  *)
(* a keyword that is absent is an empty field, `has' says which of the     *)
(* keywords of an object are there (an object that may have further fields *)
(* has "map" for their schema, a closed one "closed"), `odd' stands for    *)
(* any keyword, type or format outside the supported ones and for a        *)
(* default or an example that reads like an open object, `items' holds at  *)
(* most one place.  A JSON value is a record, of the kind its schemas call *)
(* type.                                                                   *)
(***************************************************************************)
EXTENDS Integers, Sequences, FiniteSets

CONSTANTS
    MaxObjectDepth,     \* _MAX_OBJECT_DEPTH
    MaxProperties,      \* _MAX_OBJECT_PROPERTIES
    Values,             \* the JSON values there are
    Unfoldings          \* bound: nodes looked at on the way into a value

EnvelopeDepth == 2      \* _WIRE_ENVELOPE_OBJECT_DEPTH

Value(kind, text, fields, elems) ==
    [kind |-> kind, text |-> text, fields |-> fields, elems |-> elems]
Null         == Value("null", "", <<>>, <<>>)
Text(text)   == Value("string", text, <<>>, <<>>)
Struct(fields) == Value("object", "", fields, <<>>)

(* A value has what its kind has, and the values it consists of are values.*)
IsValue(v) ==
    /\ v = Value(v.kind, v.text, v.fields, v.elems)
    /\ v.fields \in [DOMAIN v.fields -> Values] /\ v.elems \in Seq(Values)
    /\ v.kind = "null" => v = Null
    /\ v.kind = "string" => v = Text(v.text)
    /\ v.kind = "object" => v = Struct(v.fields)

ASSUME SchemaAssumption ==
    /\ MaxObjectDepth \in Nat /\ MaxProperties \in Nat /\ Unfoldings \in Nat \ {0}
    /\ \A v \in Values : IsValue(v)

(* A node that allows everything. *)
Anything == [odd |-> FALSE, ref |-> "", types |-> {}, texts |-> {}, has |-> {}, fields |-> <<>>,
             required |-> {}, items |-> {}, one |-> {}, any |-> {}]

Typed(types) == [Anything EXCEPT !.types = types]

IsObject(node) == "object" \in node.types \/ node.has # {}

Fields(node) == {node.fields[f] : f \in DOMAIN node.fields}
Parts(node)  == Fields(node) \cup node.items \cup node.one \cup node.any

Places(doc)  == 1..Len(doc.nodes)
Defined(doc) == {doc.defs[d] : d \in DOMAIN doc.defs}

(* The names of fields and of definitions.  They are keys of the document  *)
(* as its keywords are: a walk that does not tell the two apart takes the  *)
(* fields or the definitions for a node with these keywords.               *)
Names(doc) == DOMAIN doc.defs \cup UNION {DOMAIN doc.nodes[at].fields : at \in Places(doc)}

(* What json_schema() returns, as a document: a tree in document order,    *)
(* the parts of a node behind it, one definition behind the other.         *)
IsDocument(doc) ==
    LET Node(at) == doc.nodes[at]
    IN  /\ doc = [root |-> 1, nodes |-> doc.nodes, defs |-> doc.defs]
        /\ doc.nodes = [at \in Places(doc) |-> Node(at)] /\ Len(doc.nodes) \in Nat \ {0}
        /\ doc.defs \in [DOMAIN doc.defs -> Places(doc) \ {1}] /\ "" \notin DOMAIN doc.defs
        /\ \A d, e \in DOMAIN doc.defs : d # e => doc.defs[d] # doc.defs[e]
        /\ \A at \in Places(doc) :
              /\ DOMAIN Node(at) = DOMAIN Anything
              /\ Fields(Node(at)) # {} => "properties" \in Node(at).has
              /\ Parts(Node(at)) \subseteq (at + 1)..Len(doc.nodes)
              /\ \A part \in Parts(Node(at)) : Defined(doc) \cap ((at + 1)..part) = {}
              /\ at # 1 => at \in Defined(doc) \/ \E outer \in Places(doc) : at \in Parts(Node(outer))
              /\ \A other \in Places(doc) \ {at} : Parts(Node(at)) \cap Parts(Node(other)) = {}

-----------------------------------------------------------------------------
(* Acceptance.  A call of a recursive function is the place it looks at,   *)
(* the objects it lies in and the references taken to come there.          *)

Call(at, depth, active) == [at |-> at, depth |-> depth, active |-> active]

(* An object names its properties, is closed and requires only them.       *)
Closed(node) ==
    /\ {"properties", "closed"} \subseteq node.has /\ "map" \notin node.has
    /\ node.required \subseteq DOMAIN node.fields

(* What _compile_node raises nothing for, at one node. *)
Supports(node) ==
    /\ ~node.odd
    /\ node.one = {} \/ node.any = {}
    /\ IsObject(node) => Closed(node)

Shallow(doc, call) == IsObject(doc.nodes[call.at]) => call.depth < MaxObjectDepth

(* The calls _compile_node makes: properties lie in the object.            *)
Inside(doc, call) ==
    LET node == doc.nodes[call.at]
    IN  {Call(part, IF part \in Fields(node) THEN call.depth + 1 ELSE call.depth, {}) :
            part \in Parts(node)}

Compiling(doc) ==
    LET calls[n \in Nat] ==
            IF n = 0 THEN {Call(at, EnvelopeDepth, {}) : at \in {doc.root} \cup Defined(doc)}
            ELSE UNION {Inside(doc, call) : call \in calls[n - 1]}
    IN  UNION {calls[n] : n \in 0..Len(doc.nodes)}

(* _compile_node raises nothing: it comes to every node. *)
Compiles(doc) ==
    /\ \A at \in Places(doc) : Supports(doc.nodes[at])
    /\ \A call \in Compiling(doc) : Shallow(doc, call)

(* Mutant: what may be left out may still be left out. *)
LoweredNodeLoose(node) == [node EXCEPT !.any = node.one \cup node.any, !.one = {}]

(* What it returns: every property is required, oneOf has become anyOf.    *)
LoweredNode(node) ==
    [node EXCEPT !.required = DOMAIN node.fields, !.any = node.one \cup node.any, !.one = {}]

Lowered(doc) == [doc EXCEPT !.nodes = [at \in Places(doc) |-> LoweredNode(doc.nodes[at])]]

Known(doc, node) == node.ref \in DOMAIN doc.defs \cup {""}

(* The calls a call of visit makes: into the definition that is referred   *)
(* to, unless it comes from there, and into the parts.                     *)
Made(doc, call) ==
    LET node   == doc.nodes[call.at]
        deeper == IF IsObject(node) THEN call.depth + 1 ELSE call.depth
    IN  {Call(part, deeper, call.active) : part \in Parts(node)}
        \cup {Call(doc.defs[d], call.depth, call.active \cup {d}) :
                 d \in {node.ref} \cap (DOMAIN doc.defs \ call.active)}

Visiting(doc, starts) ==
    LET calls[n \in Nat] ==
            IF n = 0 THEN starts ELSE UNION {Made(doc, call) : call \in calls[n - 1]}
    IN  UNION {calls[n] : n \in 0..Len(doc.nodes)}

(* `visited' *)
Reached(doc, starts) == {doc.nodes[call.at].ref : call \in Visiting(doc, starts)}

RootCall(doc, depth)      == Call(doc.root, depth, {})
DefinitionCall(doc, d)    == Call(doc.defs[d], EnvelopeDepth, {d})

(* The calls it is begun with: the root, and each definition nothing has   *)
(* come through yet, in document order.                                    *)
Starts(doc, depth) ==
    LET starts[n \in Nat] ==
            IF n = 0 THEN {RootCall(doc, depth)}
            ELSE LET before == starts[n - 1]
                 IN  before \cup {DefinitionCall(doc, d) :
                         d \in {d \in DOMAIN doc.defs \ Reached(doc, before) : doc.defs[d] = n}}
    IN  starts[Len(doc.nodes)]

VisitsHold(doc, starts) ==
    \A call \in Visiting(doc, starts) : Known(doc, doc.nodes[call.at]) /\ Shallow(doc, call)

(* Mutant: the envelope's levels are not counted. *)
ReferencesHoldBare(doc) == VisitsHold(doc, Starts(doc, 0))

(* _require_references_and_depth raises nothing. *)
ReferencesHold(doc) == VisitsHold(doc, Starts(doc, EnvelopeDepth))

(* The property part of _require_schema_limits. *)
Properties(doc) ==
    Cardinality(UNION {{at} \X DOMAIN doc.nodes[at].fields : at \in Places(doc)})

(* The result type is a closed object. *)
Rooted(doc) == LET root == doc.nodes[doc.root]
               IN  root.types = {"object"} /\ "closed" \in root.has

(* _require_closed_objects raises nothing.  It takes a map with the name   *)
(* "properties" for an object, and that is never closed.                   *)
ClosedThroughout(doc) ==
    /\ "properties" \notin Names(doc)
    /\ \A at \in Places(doc) :
          LET node == doc.nodes[at]
          IN  node.types = {"object"} \/ "properties" \in node.has => "closed" \in node.has

(* StructuredOutput.__post_init__ raises nothing. *)
Publishes(doc) ==
    /\ Rooted(doc)
    /\ ClosedThroughout(doc)
    /\ Compiles(doc)
    /\ ReferencesHold(Lowered(doc))
    /\ Properties(Lowered(doc)) <= MaxProperties

-----------------------------------------------------------------------------
(* The envelope of a step. *)

Strict(fields) ==
    [Anything EXCEPT !.types = {"object"}, !.has = {"properties", "required", "closed"},
                     !.fields = fields, !.required = DOMAIN fields]

Either(places) == [Anything EXCEPT !.any = places]

(* provider_wire_schema, for a contract that was accepted: the envelope's  *)
(* nodes stand behind the contract's.                                      *)
Envelope(n, result) ==
    << Strict([type |-> n + 2, call_tool |-> n + 3, finish |-> n + 5]),
       [Typed({"string"}) EXCEPT !.texts = {"call_tool", "finish"}],
       Either({n + 4, n + 9}),
       Strict([tool_id |-> n + 8, arguments |-> n + 8]),
       Either({n + 6, n + 9}),
       Strict([reason |-> n + 7, result |-> result]),
       Typed({"string", "null"}),
       Typed({"string"}),
       Typed({"null"}) >>

Wire(doc) ==
    LET n == Len(doc.nodes)
    IN  [root |-> n + 1, nodes |-> Lowered(doc).nodes \o Envelope(n, doc.root), defs |-> doc.defs]

(* _audit_provider_wire_schema raises nothing.  It takes a map with the    *)
(* name "additionalProperties" for an object with further fields, and one  *)
(* with the name "properties" for an object that is not strict.            *)
Audited(doc) ==
    /\ {"properties", "additionalProperties"} \cap Names(doc) = {}
    /\ LET root == doc.nodes[doc.root]
       IN  root.types = {"object"} /\ root.any = {} /\ root.one = {}
    /\ \A at \in Places(doc) :
          LET node == doc.nodes[at]
          IN  /\ "map" \notin node.has
              /\ IsObject(node) => /\ {"properties", "closed"} \subseteq node.has
                                   /\ node.required = DOMAIN node.fields

-----------------------------------------------------------------------------
(* What a schema means (the JSON Schema library's part).  When `full', an  *)
(* object has all its properties; oneOf is read as anyOf unless `exactly'. *)

(* One look at a node; fits says what fits its parts.                      *)
Holds(doc, full, exactly, fits, at, value) ==
    LET node == doc.nodes[at]
        keys == DOMAIN value.fields
        Fitting(parts) == {part \in parts : fits[part][value]}
    IN  /\ node.types # {} => value.kind \in node.types
        /\ node.texts # {} => value.kind = "string" /\ value.text \in node.texts
        /\ node.ref # "" => fits[doc.defs[node.ref]][value]
        /\ IsObject(node) /\ value.kind = "object" =>
              /\ keys \subseteq DOMAIN node.fields /\ node.required \subseteq keys
              /\ full => keys = DOMAIN node.fields
              /\ \A k \in keys : fits[node.fields[k]][value.fields[k]]
        /\ value.kind = "array" =>
              \A part \in node.items, i \in DOMAIN value.elems : fits[part][value.elems[i]]
        /\ node.any # {} => Fitting(node.any) # {}
        /\ node.one # {} => IF exactly THEN \E part \in node.one : Fitting(node.one) = {part}
                            ELSE Fitting(node.one) # {}

(* Whether a value fits a node, so many looks deep. *)
Means(doc, full, exactly, looks, at, value) ==
    LET fits[n \in Nat] ==
            [place \in Places(doc) |-> [piece \in Values |->
                n > 0 /\ Holds(doc, full, exactly, fits[n - 1], place, piece)]]
    IN  fits[looks][at][value]

WireAdmits(doc, value) ==
    LET wire == Wire(doc) IN Means(wire, FALSE, FALSE, Unfoldings + 3, wire.root, value)

ResultFits(doc, value) == Means(doc, FALSE, TRUE, Unfoldings, doc.root, value)
=============================================================================
