----------------------------- MODULE MCIsolatedStep -----------------------------
(* Small schemas, values, answers and observations for IsolatedStep. *)
EXTENDS IsolatedStep, SequencesExt

AllPolicies == {[timestamps |-> FALSE, as_of |-> "never"], [timestamps |-> TRUE, as_of |-> "on_request"],
                [timestamps |-> FALSE, as_of |-> "always"]}

(* A Read that can be read again, large or smaller than its marker; one    *)
(* that is required; and two that must not be marked recomputable.         *)
Read == [effect |-> "Read", recomputable |-> TRUE, referenced |-> TRUE, initial |-> FALSE,
         size |-> 3, marker |-> 1]
Offer == {Read, [Read EXCEPT !.size = 1, !.marker = 2],
          [Read EXCEPT !.recomputable = FALSE, !.size = 2],
          [Read EXCEPT !.effect = "Write"], [Read EXCEPT !.initial = TRUE]}

PastObservations == UNION {[1..n -> Offer] : n \in 0..3}

(* Schemas are written as trees, the parts of a node in the places of its  *)
(* keywords, and numbered in document order.                               *)
Tree == [odd |-> FALSE, ref |-> "", types |-> {}, texts |-> {}, has |-> {}, fields |-> <<>>,
         required |-> {}, items |-> <<>>, one |-> <<>>, any |-> <<>>]

Named(fields) == LET names == SetToSeq(DOMAIN fields) IN [i \in DOMAIN names |-> fields[names[i]]]
Branches(tree) == Named(tree.fields) \o tree.items \o tree.one \o tree.any

RECURSIVE Size(_)
Size(tree) == FoldLeft(LAMBDA sum, branch : sum + Size(branch), 1, Branches(tree))

(* Where the i-th of the trees begins, when the first begins at a place. *)
Begins(trees, i, at) == FoldLeft(LAMBDA sum, tree : sum + Size(tree), at, SubSeq(trees, 1, i - 1))

RECURSIVE Listed(_, _)
Listed(tree, at) ==
    LET branches == Branches(tree)
        names    == SetToSeq(DOMAIN tree.fields)
        place(i) == Begins(branches, i, at + 1)
        part(from, list) == {place(from + i) : i \in DOMAIN list}
        f == Len(names)
        node == [tree EXCEPT
                   !.fields = [n \in DOMAIN tree.fields |->
                                 place(CHOOSE i \in DOMAIN names : names[i] = n)],
                   !.items  = part(f, @),
                   !.one    = part(f + Len(tree.items), @),
                   !.any    = part(f + Len(tree.items) + Len(tree.one), @)]
    IN  <<node>> \o FlattenSeq([i \in DOMAIN branches |-> Listed(branches[i], place(i))])

Document(tree, definitions) ==
    LET names == SetToSeq(DOMAIN definitions)
        trees == <<tree>> \o [i \in DOMAIN names |-> definitions[names[i]]]
    IN  [root |-> 1,
         nodes |-> FlattenSeq([i \in DOMAIN trees |-> Listed(trees[i], Begins(trees, i, 1))]),
         defs |-> [d \in DOMAIN definitions |->
                     Begins(trees, 1 + (CHOOSE i \in DOMAIN names : names[i] = d), 1)]]

Of(types) == [Tree EXCEPT !.types = types]
String == Of({"string"})
Nil    == Of({"null"})
Ref(d) == [Tree EXCEPT !.ref = d]
AnyOf(trees) == [Tree EXCEPT !.any = trees]
OneOf(trees) == [Tree EXCEPT !.one = trees]
Array(tree) == [Tree EXCEPT !.types = {"array"}, !.items = <<tree>>]
Obj(fields, required) ==
    [Tree EXCEPT !.types = {"object"}, !.has = {"properties", "required", "closed"},
                 !.fields = fields, !.required = required]
Tagged(tag) == Obj([tag |-> [String EXCEPT !.texts = {tag}]], {"tag"})

Children ==
    {String, Ref("d"), AnyOf(<<String, Nil>>), OneOf(<<String, [String EXCEPT !.texts = {"x"}]>>),
     OneOf(<<Tagged("x"), Tagged("y")>>), Array(Ref("d")),
     Obj([a |-> String, b |-> Nil], {"a"}),
     Obj([a |-> Obj([a |-> String], {})], {"a"})}

BadChildren ==
    {[String EXCEPT !.odd = TRUE],
     [AnyOf(<<Nil>>) EXCEPT !.one = <<String>>],
     [Obj([a |-> String], {"a"}) EXCEPT !.has = {"properties"}],
     [Obj([a |-> String], {"a"}) EXCEPT !.has = {"properties", "required", "map"}],
     Obj([a |-> String], {"z"}),
     Ref("gone"),
     Array(Obj([a |-> Obj([a |-> Obj([a |-> Nil], {})], {})], {}))}

Again == AnyOf(<<Ref("d"), Nil>>)

Definitions ==
    {[d |-> String],
     [d |-> Obj([a |-> Again], {"a"})],
     [d |-> Obj([a |-> Ref("e")], {}), e |-> Obj([a |-> String], {})],
     [d |-> Obj([a |-> Ref("e")], {}), e |-> Obj([a |-> Obj([a |-> String], {})], {})],
     [d |-> String, e |-> Ref("gone")],
     [d |-> String, e |-> Obj([a |-> Ref("d"), b |-> Ref("e")], {})]}

(* From e and d in turn an object lies deeper than from the root. *)
Crossed ==
    Document(Obj([a |-> Ref("e")], {}),
             [d |-> Obj([a |-> Obj([a |-> Ref("e")], {})], {}),
              e |-> AnyOf(<<Ref("d"), Obj([a |-> Obj([a |-> String], {})], {})>>)])

SomeContracts ==
    {Document(Obj([a |-> child], {}), definitions) :
        child \in Children \cup BadChildren, definitions \in Definitions}
    \cup {Document(Obj([a |-> child, b |-> String, c |-> String], {"a", "b", "c"}), <<>>) :
            child \in Children \ {Ref("d"), Array(Ref("d"))}}
    \cup {Document(Obj([a |-> String, type |-> Obj(child, {})], {}), [required |-> Nil]) :
            child \in {[properties |-> Nil], [additionalProperties |-> Nil],
                      [properties |-> Nil, additionalProperties |-> Nil]}}
    \cup {Document(Obj([a |-> String], {}), definitions) :
            definitions \in {[properties |-> Nil], [additionalProperties |-> Obj(<<>>, {})]}}
    \cup {Document(Ref("d"), <<>>), Crossed,
          Document([Obj([a |-> String], {"a"}) EXCEPT !.has = {"properties"}], <<>>)}

Strings == {Text("x"), Text("y")}
Pieces  == Strings \cup {Null} \cup {Struct([tag |-> t]) : t \in Strings}
           \cup {Struct([a |-> t]) : t \in Strings \cup {Null}}
           \cup {Struct([a |-> Text("x"), b |-> Null]), Struct([a |-> Struct([a |-> Text("x")])]),
                 Value("array", "", <<>>, <<Text("x")>>), Value("array", "", <<>>, <<Null>>),
                 Value("array", "", <<>>, <<Struct([a |-> Null]), Struct([a |-> Struct([a |-> Null])])>>)}

SomeResults ==
    {Struct(<<>>)} \cup {Struct([a |-> piece]) : piece \in Pieces}
    \cup {Struct([a |-> piece, b |-> Text("y"), c |-> Text("x")]) : piece \in Pieces}
    \cup {Struct([b |-> Text("y")]), Struct([a |-> Text("x"), z |-> Null])}

Propose(tool, arguments) == Struct([tool_id |-> Text(tool), arguments |-> arguments])
Proposals ==
    {Propose(tool, Text("object")) : tool \in ToolTexts}
    \cup {Propose("search", Text(text)) : text \in ArgumentTexts}
    \cup {Propose("search", Struct(<<>>)), Struct([tool_id |-> Text("search")])}
Finish(reason, result) == Struct([reason |-> reason, result |-> result])
Finishes ==
    {Finish(Null, result) : result \in SomeResults}
    \cup {Finish(reason, Struct([a |-> Text("x")])) : reason \in {Text("said"), Blank}}
    \cup {Finish(Null, Text("x")), Struct([result |-> Struct([a |-> Text("x")])])}

Envelopes ==
    {Struct([type |-> Text(type), call_tool |-> proposal, finish |-> ending]) :
        type \in {"call_tool", "finish", "stop"}, proposal \in Proposals \cup {Null}, ending \in {Null}}
    \cup {Struct([type |-> Text(type), call_tool |-> proposal, finish |-> ending]) :
        type \in {"call_tool", "finish"}, proposal \in {Null, Propose("search", Text("object"))},
        ending \in Finishes}
    \cup {Null, Struct([type |-> Text("finish")])}

(* A provider may answer with any value there is: an envelope or what it   *)
(* consists of.                                                            *)
Consisting(values) ==
    values \cup UNION {Range(v.fields) : v \in values} \cup UNION {Range(v.elems) : v \in values}

SomeAnswers == FoldLeft(LAMBDA values, i : Consisting(values), Envelopes \cup SomeResults,
                        <<1, 2, 3, 4, 5, 6>>)

AllValues == SomeAnswers

(* Looking deeper would not change what a contract means. *)
ASSUME LooksSuffice ==
    \A doc \in Representable, full, exactly \in BOOLEAN, value \in AllValues :
        Means(doc, full, exactly, Unfoldings, doc.root, value)
            <=> Means(doc, full, exactly, Unfoldings + 2, doc.root, value)
=============================================================================
