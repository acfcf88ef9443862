------------------------------ MODULE SchemaProofs ------------------------------
(***************************************************************************)
(* What _schema.py accepts, for every document and every depth: the calls  *)
(* of its recursive functions are compared with the simple paths through   *)
(* the document, and those through the published schema with both.         *)
(***************************************************************************)
EXTENDS IsolatedStep, ContextProofs, FiniteSetTheorems, SequenceTheorems, TLAPS

-----------------------------------------------------------------------------
(* Recursion on numbers.                                                   *)

(* A set that has zero, and with each number the next, has all of them.    *)
LEMMA EveryNumber ==
  ASSUME NEW T, 0 \in T, \A n \in Nat : n \in T => n + 1 \in T
  PROVE  Nat \subseteq T
<1>1. SUFFICES ASSUME Nat \ T # {} PROVE FALSE
  OBVIOUS
<1>2. PICK n \in Nat \ T : \A m \in Nat \ T : n <= m
  BY <1>1, LeastNumber
<1>3. n # 0 /\ n - 1 \in Nat /\ n - 1 \notin Nat \ T
  BY <1>2
<1>. QED
  BY <1>2, <1>3

(* f goes on from the base by the steps of G, as far as the numbers I go.  *)
Goes(f, I, base, G) == f = [n \in I |-> IF n = 0 THEN base ELSE G[n][f[n - 1]]]

(* As far as any number, such a function exists. *)
LEMMA GoesSoFar ==
  ASSUME NEW S, NEW base \in S, NEW G \in [Nat -> [S -> S]], NEW n \in Nat
  PROVE  \E f \in [0..n -> S] : Goes(f, 0..n, base, G)
<1>. DEFINE There(k) == \E f \in [0..k -> S] : Goes(f, 0..k, base, G)
            T == {k \in Nat : There(k)}
<1>1. There(0)
  <2>1. Goes([i \in 0..0 |-> base], 0..0, base, G)
    BY DEF Goes
  <2>. QED
    BY <2>1
<1>2. ASSUME NEW k \in Nat, There(k) PROVE There(k + 1)
  <2>1. PICK f \in [0..k -> S] : Goes(f, 0..k, base, G)
    BY <1>2
  <2>. DEFINE g == [i \in 0..(k + 1) |-> IF i = k + 1 THEN G[k + 1][f[k]] ELSE f[i]]
  <2>2. G[k + 1][f[k]] \in S
    OBVIOUS
  <2>3. g \in [0..(k + 1) -> S]
    BY <2>2
  <2>4. ASSUME NEW i \in 0..(k + 1) PROVE g[i] = IF i = 0 THEN base ELSE G[i][g[i - 1]]
    <3>1. CASE i = k + 1
      <4>1. i # 0 /\ i - 1 = k /\ k \in 0..(k + 1) /\ k # k + 1
        BY <3>1
      <4>2. g[i] = G[k + 1][f[k]] /\ g[k] = f[k]
        BY <3>1, <4>1
      <4>. QED
        BY <3>1, <4>1, <4>2
    <3>2. CASE i # k + 1
      <4>1. i \in 0..k /\ g[i] = f[i]
        BY <3>2
      <4>2. f[i] = IF i = 0 THEN base ELSE G[i][f[i - 1]]
        BY <2>1, <4>1 DEF Goes
      <4>3. i # 0 => i - 1 \in 0..(k + 1) /\ i - 1 # k + 1 /\ g[i - 1] = f[i - 1]
        BY <4>1
      <4>. QED
        BY <4>1, <4>2, <4>3
    <3>. QED
      BY <3>1, <3>2
  <2>. HIDE DEF g
  <2>5. g = [i \in 0..(k + 1) |-> IF i = 0 THEN base ELSE G[i][g[i - 1]]]
    <3>1. DOMAIN g = 0..(k + 1) /\ g = [i \in 0..(k + 1) |-> g[i]]
      BY <2>3
    <3>. QED
      BY <2>4, <3>1
  <2>. QED
    BY <2>3, <2>5 DEF Goes
<1>. HIDE DEF There
<1>3. 0 \in T /\ \A k \in Nat : k \in T => k + 1 \in T
  BY <1>1, <1>2
<1>4. Nat \subseteq T
  <2>. HIDE DEF T
  <2>. QED
    BY <1>3, EveryNumber
<1>5. There(n)
  BY <1>4
<1>. QED
  BY <1>5 DEF There

(* There is only one way to go. *)
LEMMA GoesOneWay ==
  ASSUME NEW base, NEW G, NEW m \in Nat, NEW n \in Nat, m <= n,
         NEW f, Goes(f, 0..m, base, G), NEW g, Goes(g, 0..n, base, G)
  PROVE  \A i \in 0..m : f[i] = g[i]
<1>. DEFINE T == {i \in Nat : i <= m => f[i] = g[i]}
<1>1. 0 \in T
  BY DEF Goes
<1>2. ASSUME NEW i \in Nat, i \in T PROVE i + 1 \in T
  <2>1. SUFFICES ASSUME i + 1 <= m PROVE f[i + 1] = g[i + 1]
    OBVIOUS
  <2>2. i + 1 \in 0..m /\ i + 1 \in 0..n /\ i + 1 # 0 /\ (i + 1) - 1 = i /\ i <= m
    BY <2>1
  <2>3. f[i + 1] = G[i + 1][f[i]] /\ g[i + 1] = G[i + 1][g[i]]
    BY <2>2 DEF Goes
  <2>4. f[i] = g[i]
    BY <1>2, <2>2
  <2>. QED
    BY <2>3, <2>4
<1>3. Nat \subseteq T
  <2>. HIDE DEF T
  <2>. QED
    BY <1>1, <1>2, EveryNumber
<1>. QED
  BY <1>3

(* A function defined by recursion on the numbers exists. *)
LEMMA RecursionExists ==
  ASSUME NEW S, NEW base \in S, NEW G \in [Nat -> [S -> S]]
  PROVE  \E f \in [Nat -> S] : Goes(f, Nat, base, G)
<1>. DEFINE Part(n) == CHOOSE f \in [0..n -> S] : Goes(f, 0..n, base, G)
            whole == [n \in Nat |-> Part(n)[n]]
<1>1. ASSUME NEW n \in Nat PROVE Part(n) \in [0..n -> S] /\ Goes(Part(n), 0..n, base, G)
  BY GoesSoFar
<1>. HIDE DEF Part
<1>2. whole \in [Nat -> S]
  BY <1>1
<1>3. ASSUME NEW n \in Nat PROVE whole[n] = IF n = 0 THEN base ELSE G[n][whole[n - 1]]
  <2>1. n \in 0..n /\ Part(n)[n] = IF n = 0 THEN base ELSE G[n][Part(n)[n - 1]]
    BY <1>1 DEF Goes
  <2>2. CASE n = 0
    BY <2>1, <2>2
  <2>3. CASE n # 0
    <3>1. n - 1 \in Nat /\ n - 1 <= n /\ n - 1 \in 0..(n - 1)
      BY <2>3
    <3>2. Part(n - 1)[n - 1] = Part(n)[n - 1]
      BY <1>1, <3>1, GoesOneWay
    <3>. QED
      BY <2>1, <2>3, <3>1, <3>2
  <2>. QED
    BY <2>2, <2>3
<1>. HIDE DEF whole
<1>4. whole = [n \in Nat |-> IF n = 0 THEN base ELSE G[n][whole[n - 1]]]
  <2>1. whole = [n \in Nat |-> whole[n]]
    BY <1>2
  <2>. QED
    BY <1>3, <2>1
<1>. QED
  BY <1>2, <1>4 DEF Goes

-----------------------------------------------------------------------------
(* Documents and what they are lowered to.                                 *)

(* A document is a finite tree in document order with its definitions.     *)
LEMMA DocumentShape ==
  ASSUME NEW doc, IsDocument(doc)
  PROVE  /\ doc.root = 1 /\ Len(doc.nodes) \in Nat \ {0} /\ 1 \in Places(doc)
         /\ DOMAIN doc.nodes = Places(doc)
         /\ doc.defs \in [DOMAIN doc.defs -> Places(doc) \ {1}]
         /\ Defined(doc) \subseteq Places(doc) \ {1}
         /\ \A d, e \in DOMAIN doc.defs : doc.defs[d] = doc.defs[e] => d = e
         /\ \A at \in Places(doc) :
               /\ DOMAIN doc.nodes[at] = DOMAIN Anything
               /\ Parts(doc.nodes[at]) \subseteq Places(doc)
               /\ \A part \in Parts(doc.nodes[at]) :
                     /\ at < part /\ part \notin Defined(doc)
                     /\ \A e \in Defined(doc) : ~(at < e /\ e <= part)
<1>1. /\ doc.root = 1 /\ Len(doc.nodes) \in Nat \ {0} /\ 1 \in Places(doc)
      /\ doc.defs \in [DOMAIN doc.defs -> Places(doc) \ {1}]
      /\ \A d, e \in DOMAIN doc.defs : doc.defs[d] = doc.defs[e] => d = e
  <2>1. doc = [root |-> 1, nodes |-> doc.nodes, defs |-> doc.defs]
    BY DEF IsDocument
  <2>2. Len(doc.nodes) \in Nat \ {0} /\ doc.defs \in [DOMAIN doc.defs -> Places(doc) \ {1}]
    BY DEF IsDocument
  <2>3. \A d, e \in DOMAIN doc.defs : d # e => doc.defs[d] # doc.defs[e]
    BY DEF IsDocument
  <2>4. doc.root = 1
    BY <2>1
  <2>. QED
    BY <2>2, <2>3, <2>4 DEF Places
<1>2. DOMAIN doc.nodes = Places(doc)
  BY DEF IsDocument
<1>3. Defined(doc) \subseteq Places(doc) \ {1}
  BY <1>1 DEF Defined
<1>4. ASSUME NEW at \in Places(doc)
      PROVE  /\ DOMAIN doc.nodes[at] = DOMAIN Anything
             /\ Parts(doc.nodes[at]) \subseteq (at + 1)..Len(doc.nodes)
             /\ \A part \in Parts(doc.nodes[at]) : Defined(doc) \cap ((at + 1)..part) = {}
  BY DEF IsDocument
<1>5. Places(doc) = 1..Len(doc.nodes)
  BY DEF Places
<1>6. ASSUME NEW at \in Places(doc), NEW part \in Parts(doc.nodes[at])
      PROVE  /\ part \in Places(doc) /\ at < part /\ part \notin Defined(doc)
             /\ \A e \in Defined(doc) : ~(at < e /\ e <= part)
  <2>1. part \in (at + 1)..Len(doc.nodes) /\ Defined(doc) \cap ((at + 1)..part) = {}
    BY <1>4
  <2>2. at \in Nat /\ part \in Nat /\ part \in (at + 1)..part /\ part \in Places(doc)
    BY <1>1, <1>5, <2>1
  <2>3. ASSUME NEW e \in Defined(doc), at < e, e <= part PROVE FALSE
    <3>1. e \in (at + 1)..part
      BY <1>3, <1>5, <2>2, <2>3
    <3>. QED
      BY <2>1, <3>1
  <2>. QED
    BY <1>1, <1>5, <2>1, <2>2, <2>3
<1>. QED
  BY <1>1, <1>2, <1>3, <1>4, <1>6

(* A function of the first numbers is as long as they are many. *)
LEMMA LenIs ==
  ASSUME NEW f, NEW n \in Nat, DOMAIN f = 1..n, f = [i \in 1..n |-> f[i]]
  PROVE  Len(f) = n
<1>1. f \in Seq({f[i] : i \in 1..n})
  <2>1. f \in [1..n -> {f[i] : i \in 1..n}]
    OBVIOUS
  <2>. QED
    BY <2>1, SeqDef
<1>. QED
  BY <1>1, LenProperties

(* What lowering does to a node, field by field. *)
LEMMA LoweredNodeIs ==
  ASSUME NEW node, DOMAIN node = DOMAIN Anything
  PROVE  LET low == LoweredNode(node)
         IN  /\ DOMAIN low = DOMAIN Anything
             /\ low.odd = node.odd /\ low.ref = node.ref /\ low.types = node.types
             /\ low.texts = node.texts /\ low.has = node.has /\ low.fields = node.fields
             /\ low.items = node.items
             /\ low.required = DOMAIN node.fields
             /\ low.any = node.one \cup node.any /\ low.one = {}
  BY DEF LoweredNode, Anything

(* Lowering moves no part and no definition. *)
LEMMA LoweredKeeps ==
  ASSUME NEW doc, IsDocument(doc)
  PROVE  /\ Lowered(doc).root = 1 /\ Lowered(doc).defs = doc.defs
         /\ DOMAIN Lowered(doc).nodes = Places(doc)
         /\ Len(Lowered(doc).nodes) = Len(doc.nodes) /\ Places(Lowered(doc)) = Places(doc)
         /\ Defined(Lowered(doc)) = Defined(doc)
         /\ \A at \in Places(doc) :
               LET node == doc.nodes[at]
                   low  == Lowered(doc).nodes[at]
               IN  /\ low = LoweredNode(node) /\ DOMAIN node = DOMAIN Anything
                   /\ Fields(low) = Fields(node) /\ Parts(low) = Parts(node)
                   /\ IsObject(low) <=> IsObject(node)
<1>1. /\ Lowered(doc).root = 1 /\ Lowered(doc).defs = doc.defs
      /\ Lowered(doc).nodes = [at \in Places(doc) |-> LoweredNode(doc.nodes[at])]
  <2>1. doc = [root |-> 1, nodes |-> doc.nodes, defs |-> doc.defs]
    BY DEF IsDocument
  <2>. QED
    BY <2>1 DEF Lowered
<1>2. DOMAIN Lowered(doc).nodes = 1..Len(doc.nodes) /\ Len(doc.nodes) \in Nat
  BY <1>1, DocumentShape DEF Places
<1>3. Len(Lowered(doc).nodes) = Len(doc.nodes)
  BY <1>1, <1>2, LenIs
<1>4. Places(Lowered(doc)) = Places(doc) /\ Defined(Lowered(doc)) = Defined(doc)
  BY <1>1, <1>3 DEF Places, Defined
<1>5. ASSUME NEW at \in Places(doc)
      PROVE  LET node == doc.nodes[at]
                 low  == Lowered(doc).nodes[at]
             IN  /\ low = LoweredNode(node) /\ DOMAIN node = DOMAIN Anything
                 /\ Fields(low) = Fields(node) /\ Parts(low) = Parts(node)
                 /\ IsObject(low) <=> IsObject(node)
  <2>1. Lowered(doc).nodes[at] = LoweredNode(doc.nodes[at]) /\ DOMAIN doc.nodes[at] = DOMAIN Anything
    BY <1>1, DocumentShape
  <2>2. Fields(LoweredNode(doc.nodes[at])) = Fields(doc.nodes[at])
    BY <2>1, LoweredNodeIs DEF Fields
  <2>3. Parts(LoweredNode(doc.nodes[at])) = Parts(doc.nodes[at])
    BY <2>1, <2>2, LoweredNodeIs DEF Parts
  <2>4. IsObject(LoweredNode(doc.nodes[at])) <=> IsObject(doc.nodes[at])
    BY <2>1, LoweredNodeIs DEF IsObject
  <2>. QED
    BY <2>1, <2>2, <2>3, <2>4
<1>. QED
  BY <1>1, <1>2, <1>3, <1>4, <1>5 DEF Places

(* What a document is lowered to is a document. *)
LEMMA LoweredIsDocument ==
  ASSUME NEW doc, IsDocument(doc)
  PROVE  IsDocument(Lowered(doc))
<1>. DEFINE low == Lowered(doc)
<1>1. low = [root |-> 1, nodes |-> low.nodes, defs |-> low.defs]
  <2>1. doc = [root |-> 1, nodes |-> doc.nodes, defs |-> doc.defs]
    BY DEF IsDocument
  <2>. QED
    BY <2>1 DEF Lowered
<1>2. low.nodes = [at \in Places(low) |-> low.nodes[at]] /\ Len(low.nodes) \in Nat \ {0}
  <2>1. low.nodes = [at \in Places(doc) |-> LoweredNode(doc.nodes[at])]
    <3>1. doc = [root |-> 1, nodes |-> doc.nodes, defs |-> doc.defs]
      BY DEF IsDocument
    <3>. QED
      BY <3>1 DEF Lowered
  <2>. QED
    BY <2>1, LoweredKeeps, DocumentShape
<1>. HIDE DEF low
<1>3. /\ Len(low.nodes) = Len(doc.nodes) /\ Places(low) = Places(doc)
      /\ Defined(low) = Defined(doc) /\ low.defs = doc.defs
      /\ \A at \in Places(doc) :
             /\ DOMAIN low.nodes[at] = DOMAIN Anything
             /\ Parts(low.nodes[at]) = Parts(doc.nodes[at])
             /\ Fields(low.nodes[at]) = Fields(doc.nodes[at])
             /\ low.nodes[at].has = doc.nodes[at].has
  BY LoweredKeeps, LoweredNodeIs DEF low
<1>. QED
  BY <1>1, <1>2, <1>3 DEF IsDocument, low

-----------------------------------------------------------------------------
(* The recursive functions of acceptance, as the levels they go through.   *)

(* The calls visit can make. *)
AnyCall(doc) == [at : Places(doc), depth : Nat, active : SUBSET DOMAIN doc.defs]

(* A call of visit makes calls of visit. *)
LEMMA MadeIsACall ==
  ASSUME NEW doc, IsDocument(doc), NEW visit \in AnyCall(doc)
  PROVE  Made(doc, visit) \subseteq AnyCall(doc)
<1>1. visit.at \in Places(doc) /\ visit.depth \in Nat /\ visit.active \in SUBSET DOMAIN doc.defs
  BY DEF AnyCall
<1>2. SUFFICES ASSUME NEW made \in Made(doc, visit) PROVE made \in AnyCall(doc)
  OBVIOUS
<1>. DEFINE node == doc.nodes[visit.at]
            deeper == IF IsObject(node) THEN visit.depth + 1 ELSE visit.depth
<1>3. \/ \E part \in Parts(node) : made = Call(part, deeper, visit.active)
      \/ \E d \in {node.ref} \cap (DOMAIN doc.defs \ visit.active) :
            made = Call(doc.defs[d], visit.depth, visit.active \cup {d})
  BY <1>2 DEF Made
<1>4. Parts(node) \subseteq Places(doc)
  BY <1>1, DocumentShape
<1>5. doc.defs \in [DOMAIN doc.defs -> Places(doc)]
  BY DocumentShape
<1>6. deeper \in Nat
  BY <1>1
<1>. HIDE DEF node, deeper
<1>7. CASE \E part \in Parts(node) : made = Call(part, deeper, visit.active)
  BY <1>1, <1>4, <1>6, <1>7 DEF Call, AnyCall
<1>8. CASE \E d \in {node.ref} \cap (DOMAIN doc.defs \ visit.active) :
              made = Call(doc.defs[d], visit.depth, visit.active \cup {d})
  BY <1>1, <1>5, <1>8 DEF Call, AnyCall
<1>. QED
  BY <1>3, <1>7, <1>8

(* The levels of the calls that are begun with some. *)
Levels(f, doc, starts) ==
  /\ f \in [Nat -> SUBSET AnyCall(doc)] /\ f[0] = starts
  /\ \A n \in Nat : f[n + 1] = UNION {Made(doc, made) : made \in f[n]}

(* The calls of visit are the levels its recursion goes through. *)
LEMMA VisitingIsLevels ==
  ASSUME NEW doc, IsDocument(doc), NEW starts \in SUBSET AnyCall(doc)
  PROVE  \E f : /\ Levels(f, doc, starts)
                /\ Visiting(doc, starts) = UNION {f[n] : n \in 0..Len(doc.nodes)}
<1>. DEFINE S == SUBSET AnyCall(doc)
            Further(visits) == UNION {Made(doc, made) : made \in visits}
            G == [n \in Nat |-> [visits \in S |-> Further(visits)]]
            Next0(f) == [n \in Nat |-> IF n = 0 THEN starts
                                       ELSE UNION {Made(doc, made) : made \in f[n - 1]}]
            calls == CHOOSE f : f = Next0(f)
<1>1. ASSUME NEW visits \in S PROVE Further(visits) \in S
  BY MadeIsACall
<1>2. G \in [Nat -> [S -> S]]
  BY <1>1
<1>3. \E f \in [Nat -> S] : Goes(f, Nat, starts, G)
  <2>. HIDE DEF G, S
  <2>1. starts \in S
    BY DEF S
  <2>. QED
    BY <1>2, <2>1, RecursionExists
<1>4. ASSUME NEW f \in [Nat -> S], Goes(f, Nat, starts, G)
      PROVE  f = Next0(f)
  <2>1. f = [n \in Nat |-> IF n = 0 THEN starts ELSE G[n][f[n - 1]]]
    BY <1>4 DEF Goes
  <2>2. ASSUME NEW n \in Nat, n # 0 PROVE G[n][f[n - 1]] = Further(f[n - 1])
    <3>1. f[n - 1] \in S
      BY <1>4, <2>2
    <3>. QED
      BY <3>1
  <2>. HIDE DEF G
  <2>. QED
    BY <2>1, <2>2
<1>5. Visiting(doc, starts) = UNION {calls[n] : n \in 0..Len(doc.nodes)}
  BY Zenon DEF Visiting
<1>6. ASSUME NEW f, f = Next0(f), NEW n \in Nat
      PROVE  f[n] = IF n = 0 THEN starts ELSE Further(f[n - 1])
  BY <1>6
<1>. HIDE DEF Next0
<1>7. calls = Next0(calls)
  BY <1>3, <1>4, Zenon
<1>. HIDE DEF calls, G, Further
<1>8. calls[0] = starts /\ \A n \in Nat : calls[n + 1] = Further(calls[n])
  <2>1. calls[0] = starts
    BY <1>6, <1>7
  <2>2. ASSUME NEW n \in Nat PROVE calls[n + 1] = Further(calls[n])
    <3>1. n + 1 \in Nat /\ n + 1 # 0 /\ (n + 1) - 1 = n
      OBVIOUS
    <3>. QED
      BY <1>6, <1>7, <3>1
  <2>. QED
    BY <2>1, <2>2
<1>9. \A n \in Nat : calls[n] \in S
  <2>. DEFINE T == {n \in Nat : calls[n] \in S}
  <2>1. 0 \in T
    BY <1>8
  <2>2. ASSUME NEW n \in Nat, n \in T PROVE n + 1 \in T
    BY <1>1, <1>8, <2>2
  <2>. HIDE DEF T
  <2>3. Nat \subseteq T
    BY <2>1, <2>2, EveryNumber
  <2>. QED
    BY <2>3 DEF T
<1>10. \A n \in Nat : calls[n + 1] = UNION {Made(doc, made) : made \in calls[n]}
  BY <1>8 DEF Further
<1>11. calls = [n \in Nat |-> calls[n]]
  BY <1>7 DEF Next0
<1>12. Levels(calls, doc, starts)
  BY <1>8, <1>9, <1>10, <1>11 DEF Levels
<1>. QED
  BY <1>5, <1>12

(* The levels of the calls of _compile_node. *)
CompileStarts(doc) == {Call(at, EnvelopeDepth, {}) : at \in {doc.root} \cup Defined(doc)}

(* One after the other. *)
CompileLevels(f, doc) ==
  /\ f \in [Nat -> SUBSET AnyCall(doc)] /\ f[0] = CompileStarts(doc)
  /\ \A n \in Nat : f[n + 1] = UNION {Inside(doc, made) : made \in f[n]}

(* So are the calls of _compile_node's recursion. *)
LEMMA InsideIsACall ==
  ASSUME NEW doc, IsDocument(doc), NEW visit \in AnyCall(doc)
  PROVE  Inside(doc, visit) \subseteq AnyCall(doc)
<1>1. visit.at \in Places(doc) /\ visit.depth \in Nat
  BY DEF AnyCall
<1>2. Parts(doc.nodes[visit.at]) \subseteq Places(doc)
  BY <1>1, DocumentShape
<1>. QED
  BY <1>1, <1>2 DEF Inside, Call, AnyCall

(* The calls of _compile_node are the levels its recursion goes through. *)
LEMMA CompilingIsLevels ==
  ASSUME NEW doc, IsDocument(doc)
  PROVE  \E f : /\ CompileLevels(f, doc)
                /\ Compiling(doc) = UNION {f[n] : n \in 0..Len(doc.nodes)}
<1>. DEFINE S == SUBSET AnyCall(doc)
            starts == {Call(at, EnvelopeDepth, {}) : at \in {doc.root} \cup Defined(doc)}
            Further(visits) == UNION {Inside(doc, made) : made \in visits}
            G == [n \in Nat |-> [visits \in S |-> Further(visits)]]
            Next0(f) == [n \in Nat |-> IF n = 0 THEN starts
                                       ELSE UNION {Inside(doc, made) : made \in f[n - 1]}]
            calls == CHOOSE f : f = Next0(f)
<1>0. starts \in S
  BY DocumentShape DEF Call, AnyCall, EnvelopeDepth
<1>1. ASSUME NEW visits \in S PROVE Further(visits) \in S
  BY InsideIsACall
<1>2. G \in [Nat -> [S -> S]]
  BY <1>1
<1>3. \E f \in [Nat -> S] : Goes(f, Nat, starts, G)
  <2>. HIDE DEF G, S
  <2>1. starts \in S
    BY <1>0 DEF S
  <2>. QED
    BY <1>2, <2>1, RecursionExists
<1>4. ASSUME NEW f \in [Nat -> S], Goes(f, Nat, starts, G)
      PROVE  f = Next0(f)
  <2>1. f = [n \in Nat |-> IF n = 0 THEN starts ELSE G[n][f[n - 1]]]
    BY <1>4 DEF Goes
  <2>2. ASSUME NEW n \in Nat, n # 0 PROVE G[n][f[n - 1]] = Further(f[n - 1])
    <3>1. f[n - 1] \in S
      BY <1>4, <2>2
    <3>. QED
      BY <3>1
  <2>. HIDE DEF G
  <2>. QED
    BY <2>1, <2>2
<1>5. Compiling(doc) = UNION {calls[n] : n \in 0..Len(doc.nodes)}
  BY Zenon DEF Compiling
<1>6. ASSUME NEW f, f = Next0(f), NEW n \in Nat
      PROVE  f[n] = IF n = 0 THEN starts ELSE Further(f[n - 1])
  BY <1>6
<1>. HIDE DEF Next0
<1>7. calls = Next0(calls)
  BY <1>3, <1>4, Zenon
<1>. HIDE DEF calls, G, Further, starts
<1>8. calls[0] = starts /\ \A n \in Nat : calls[n + 1] = Further(calls[n])
  <2>1. calls[0] = starts
    BY <1>6, <1>7
  <2>2. ASSUME NEW n \in Nat PROVE calls[n + 1] = Further(calls[n])
    <3>1. n + 1 \in Nat /\ n + 1 # 0 /\ (n + 1) - 1 = n
      OBVIOUS
    <3>. QED
      BY <1>6, <1>7, <3>1
  <2>. QED
    BY <2>1, <2>2
<1>9. \A n \in Nat : calls[n] \in S
  <2>. DEFINE T == {n \in Nat : calls[n] \in S}
  <2>1. 0 \in T
    BY <1>0, <1>8
  <2>2. ASSUME NEW n \in Nat, n \in T PROVE n + 1 \in T
    BY <1>1, <1>8, <2>2
  <2>. HIDE DEF T
  <2>3. Nat \subseteq T
    BY <2>1, <2>2, EveryNumber
  <2>. QED
    BY <2>3 DEF T
<1>10. \A n \in Nat : calls[n + 1] = UNION {Inside(doc, made) : made \in calls[n]}
  BY <1>8 DEF Further
<1>11. calls = [n \in Nat |-> calls[n]]
  BY <1>7 DEF Next0
<1>12. CompileLevels(calls, doc)
  BY <1>8, <1>9, <1>10, <1>11 DEF CompileLevels, CompileStarts, starts
<1>. QED
  BY <1>5, <1>12

(* The levels of the calls that are begun with what visit is begun with. *)
StartLevels(f, doc, depth) ==
  /\ f[0] = {RootCall(doc, depth)}
  /\ \A n \in Nat :
        f[n + 1] = f[n] \cup {DefinitionCall(doc, d) :
                       d \in {d \in DOMAIN doc.defs \ Reached(doc, f[n]) : doc.defs[d] = n + 1}}

(* The calls visit may be begun with. *)
AllStarts(doc, depth) ==
  {RootCall(doc, depth)} \cup {DefinitionCall(doc, d) : d \in DOMAIN doc.defs}

(* They are chosen place by place. *)
LEMMA StartsAreLevels ==
  ASSUME NEW doc, NEW depth, Len(doc.nodes) \in Nat
  PROVE  \E f : /\ StartLevels(f, doc, depth) /\ Starts(doc, depth) = f[Len(doc.nodes)]
                /\ \A n \in Nat : f[n] \subseteq AllStarts(doc, depth)
<1>. DEFINE S == SUBSET AllStarts(doc, depth)
            New(n, before) ==
                {DefinitionCall(doc, d) :
                    d \in {d \in DOMAIN doc.defs \ Reached(doc, before) : doc.defs[d] = n}}
            Further(n, before) == before \cup New(n, before)
            G == [n \in Nat |-> [before \in S |-> Further(n, before)]]
            Next0(f) == [n \in Nat |->
                            IF n = 0 THEN {RootCall(doc, depth)}
                            ELSE f[n - 1] \cup
                                 {DefinitionCall(doc, d) :
                                     d \in {d \in DOMAIN doc.defs \ Reached(doc, f[n - 1]) :
                                                doc.defs[d] = n}}]
            starts == CHOOSE f : f = Next0(f)
<1>1. ASSUME NEW before \in S, NEW n \in Nat PROVE Further(n, before) \in S
  BY DEF AllStarts
<1>2. G \in [Nat -> [S -> S]]
  BY <1>1
<1>3. \E f \in [Nat -> S] : Goes(f, Nat, {RootCall(doc, depth)}, G)
  <2>1. {RootCall(doc, depth)} \in S
    BY DEF AllStarts
  <2>. HIDE DEF G, S
  <2>. QED
    BY <1>2, <2>1, RecursionExists
<1>4. ASSUME NEW f \in [Nat -> S], Goes(f, Nat, {RootCall(doc, depth)}, G)
      PROVE  f = Next0(f)
  <2>1. f = [n \in Nat |-> IF n = 0 THEN {RootCall(doc, depth)} ELSE G[n][f[n - 1]]]
    BY <1>4 DEF Goes
  <2>2. ASSUME NEW n \in Nat, n # 0 PROVE G[n][f[n - 1]] = Further(n, f[n - 1])
    <3>1. f[n - 1] \in S
      BY <1>4, <2>2
    <3>. QED
      BY <3>1
  <2>. HIDE DEF G
  <2>. QED
    BY <2>1, <2>2
<1>5. Starts(doc, depth) = starts[Len(doc.nodes)]
  BY Zenon DEF Starts
<1>6. ASSUME NEW f, f = Next0(f), NEW n \in Nat
      PROVE  f[n] = IF n = 0 THEN {RootCall(doc, depth)} ELSE Further(n, f[n - 1])
  BY <1>6
<1>. HIDE DEF Next0
<1>7. starts = Next0(starts)
  BY <1>3, <1>4, Zenon
<1>. HIDE DEF starts, G, Further
<1>8. starts[0] = {RootCall(doc, depth)} /\ \A n \in Nat : starts[n + 1] = Further(n + 1, starts[n])
  <2>1. starts[0] = {RootCall(doc, depth)}
    BY <1>6, <1>7
  <2>2. ASSUME NEW n \in Nat PROVE starts[n + 1] = Further(n + 1, starts[n])
    <3>1. n + 1 \in Nat /\ n + 1 # 0 /\ (n + 1) - 1 = n
      OBVIOUS
    <3>. QED
      BY <1>6, <1>7, <3>1
  <2>. QED
    BY <2>1, <2>2
<1>9. \A n \in Nat : starts[n] \in S
  <2>. DEFINE T == {n \in Nat : starts[n] \in S}
  <2>1. 0 \in T
    BY <1>8 DEF AllStarts
  <2>2. ASSUME NEW n \in Nat, n \in T PROVE n + 1 \in T
    <3>1. starts[n] \in S /\ n + 1 \in Nat
      BY <2>2
    <3>2. Further(n + 1, starts[n]) \in S
      BY <1>1, <3>1
    <3>. QED
      BY <1>8, <3>1, <3>2
  <2>. HIDE DEF T
  <2>3. Nat \subseteq T
    BY <2>1, <2>2, EveryNumber
  <2>. QED
    BY <2>3 DEF T
<1>10. StartLevels(starts, doc, depth)
  BY <1>8 DEF StartLevels, Further
<1>. QED
  BY <1>5, <1>9, <1>10

-----------------------------------------------------------------------------
(* Simple paths, by the number of their steps. *)

(* The places a path comes through. *)
Through(path) == {path[i] : i \in 1..Len(path)}

(* The simple paths among P, by the number of their steps. *)
Walks(f, doc, from, P) ==
  /\ f \in [Nat -> SUBSET Seq(P)] /\ f[0] = {<<from>>}
  /\ \A n \in Nat : \A path \in f[n] : Len(path) = n + 1
  /\ \A n \in Nat, path \in Seq(P) :
        path \in f[n + 1] <=>
            \E before \in f[n] : \E at \in Onward(doc, before[n + 1]) :
                at \notin Through(before) /\ path = Append(before, at)

(* The simple paths from a place are these, where P is closed. *)
LEMMA PathsAreWalks ==
  ASSUME NEW doc, NEW P, NEW from \in P, \A at \in P : Onward(doc, at) \subseteq P,
         Len(doc.nodes) \in Nat
  PROVE  \E f : /\ Walks(f, doc, from, P)
                /\ Paths(doc, from) = UNION {f[n] : n \in 0..Len(doc.nodes)}
<1>. DEFINE S == SUBSET Seq(P)
            Further(n, paths) ==
                UNION {{Append(path, at) :
                           at \in Onward(doc, path[n]) \ {path[i] : i \in 1..n}} :
                       path \in paths}
            Long(n) == {path \in Seq(P) : Len(path) = n}
            G == [n \in Nat |-> [paths \in S |-> IF n # 0 /\ paths \subseteq Long(n)
                                                 THEN Further(n, paths) ELSE {}]]
            Next0(f) == [n \in Nat |->
                            IF n = 0 THEN {<<from>>}
                            ELSE UNION {{Append(path, at) :
                                            at \in Onward(doc, path[n]) \ {path[i] : i \in 1..n}} :
                                        path \in f[n - 1]}]
            walks == CHOOSE f : f = Next0(f)
<1>1. ASSUME NEW n \in Nat, n # 0, NEW paths \in SUBSET Long(n)
      PROVE  Further(n, paths) \in SUBSET Long(n + 1)
  <2>1. SUFFICES ASSUME NEW path \in paths, NEW at \in Onward(doc, path[n])
                 PROVE  Append(path, at) \in Long(n + 1)
    OBVIOUS
  <2>2. path \in Seq(P) /\ Len(path) = n /\ n \in 1..Len(path)
    BY <1>1
  <2>3. path[n] \in P
    BY <2>2, ElementOfSeq
  <2>4. at \in P
    BY <2>3
  <2>. QED
    BY <2>2, <2>4, AppendProperties
<1>. HIDE DEF Further
<1>2. ASSUME NEW n \in Nat, NEW paths \in S
      PROVE  (IF n # 0 /\ paths \subseteq Long(n) THEN Further(n, paths) ELSE {}) \in S
  <2>1. CASE n # 0 /\ paths \subseteq Long(n)
    <3>1. Further(n, paths) \in SUBSET Long(n + 1)
      BY <1>1, <2>1
    <3>. QED
      BY <2>1, <3>1
  <2>2. CASE ~(n # 0 /\ paths \subseteq Long(n))
    BY <2>2
  <2>. QED
    BY <2>1, <2>2
<1>3. G \in [Nat -> [S -> S]]
  <2>. HIDE DEF S, Long
  <2>. QED
    BY <1>2
<1>4. {<<from>>} \in S /\ {<<from>>} \subseteq Long(1)
  OBVIOUS
<1>5. \E f \in [Nat -> S] : Goes(f, Nat, {<<from>>}, G)
  <2>. HIDE DEF G, S, Long
  <2>. QED
    BY <1>3, <1>4, RecursionExists
<1>6. ASSUME NEW f \in [Nat -> S], Goes(f, Nat, {<<from>>}, G)
      PROVE  f = Next0(f)
  <2>1. f = [n \in Nat |-> IF n = 0 THEN {<<from>>} ELSE G[n][f[n - 1]]]
    BY <1>6 DEF Goes
  <2>. HIDE DEF Long
  <2>2. ASSUME NEW n \in Nat, n # 0, f[n - 1] \subseteq Long(n)
        PROVE  G[n][f[n - 1]] = Further(n, f[n - 1])
    <3>1. f[n - 1] \in S
      BY <1>6, <2>2
    <3>. QED
      BY <2>2, <3>1
  <2>. HIDE DEF G, S
  <2>3. \A n \in Nat : f[n] \subseteq Long(n + 1)
    <3>. DEFINE T == {n \in Nat : f[n] \subseteq Long(n + 1)}
    <3>1. 0 \in T
      BY <1>4, <2>1
    <3>2. ASSUME NEW n \in Nat, n \in T PROVE n + 1 \in T
      <4>1. n + 1 \in Nat /\ n + 1 # 0 /\ (n + 1) - 1 = n
        OBVIOUS
      <4>2. f[n] \subseteq Long(n + 1)
        BY <3>2
      <4>3. f[n + 1] = G[n + 1][f[n]]
        BY <2>1, <4>1
      <4>4. f[n + 1] = Further(n + 1, f[n])
        BY <2>2, <4>1, <4>2, <4>3
      <4>5. Further(n + 1, f[n]) \in SUBSET Long((n + 1) + 1)
        BY <1>1, <4>1, <4>2
      <4>. QED
        BY <4>1, <4>4, <4>5
    <3>. HIDE DEF T
    <3>3. Nat \subseteq T
      BY <3>1, <3>2, EveryNumber
    <3>. QED
      BY <3>3 DEF T
  <2>4. ASSUME NEW n \in Nat, n # 0 PROVE G[n][f[n - 1]] = Further(n, f[n - 1])
    <3>1. n - 1 \in Nat /\ (n - 1) + 1 = n
      BY <2>4
    <3>2. f[n - 1] \subseteq Long(n)
      BY <2>3, <3>1
    <3>. QED
      BY <2>2, <2>4, <3>2
  <2>5. f = [n \in Nat |-> IF n = 0 THEN {<<from>>} ELSE Further(n, f[n - 1])]
    BY <2>1, <2>4
  <2>. QED
    BY <2>5 DEF Further
<1>7. Paths(doc, from) = UNION {walks[n] : n \in 0..Len(doc.nodes)}
  BY Zenon DEF Paths
<1>8. ASSUME NEW f, f = Next0(f), NEW n \in Nat
      PROVE  f[n] = IF n = 0 THEN {<<from>>} ELSE Further(n, f[n - 1])
  BY <1>8 DEF Further
<1>9. ASSUME NEW f, f = Next0(f) PROVE f = [n \in Nat |-> f[n]]
  BY <1>9
<1>. HIDE DEF Next0
<1>10. walks = Next0(walks)
  BY <1>5, <1>6, Zenon
<1>. HIDE DEF walks, G
<1>11. walks[0] = {<<from>>} /\ \A n \in Nat : walks[n + 1] = Further(n + 1, walks[n])
  <2>1. walks[0] = {<<from>>}
    BY <1>8, <1>10
  <2>2. ASSUME NEW n \in Nat PROVE walks[n + 1] = Further(n + 1, walks[n])
    <3>1. n + 1 \in Nat /\ n + 1 # 0 /\ (n + 1) - 1 = n
      OBVIOUS
    <3>. QED
      BY <1>8, <1>10, <3>1
  <2>. QED
    BY <2>1, <2>2
<1>. HIDE DEF Long
<1>12. \A n \in Nat : walks[n] \subseteq Long(n + 1)
  <2>. DEFINE T == {n \in Nat : walks[n] \subseteq Long(n + 1)}
  <2>1. 0 \in T
    BY <1>4, <1>11
  <2>2. ASSUME NEW n \in Nat, n \in T PROVE n + 1 \in T
    <3>1. n + 1 \in Nat /\ n + 1 # 0 /\ walks[n] \subseteq Long(n + 1)
      BY <2>2
    <3>2. Further(n + 1, walks[n]) \in SUBSET Long((n + 1) + 1)
      BY <1>1, <3>1
    <3>. QED
      BY <1>11, <3>1, <3>2
  <2>. HIDE DEF T
  <2>3. Nat \subseteq T
    BY <2>1, <2>2, EveryNumber
  <2>. QED
    BY <2>3 DEF T
<1>13. ASSUME NEW n \in Nat, NEW path
       PROVE  path \in walks[n + 1] <=>
                  \E before \in walks[n] : \E at \in Onward(doc, before[n + 1]) :
                      at \notin Through(before) /\ path = Append(before, at)
  <2>1. ASSUME NEW before \in walks[n] PROVE {before[i] : i \in 1..(n + 1)} = Through(before)
    BY <1>12, <2>1 DEF Long, Through
  <2>2. path \in Further(n + 1, walks[n]) <=>
            \E before \in walks[n] :
                \E at \in Onward(doc, before[n + 1]) \ {before[i] : i \in 1..(n + 1)} :
                    path = Append(before, at)
    <3>1. path \in Further(n + 1, walks[n]) <=>
              \E before \in walks[n] :
                  path \in {Append(before, at) : at \in Onward(doc, before[n + 1])
                                                          \ {before[i] : i \in 1..(n + 1)}}
      BY DEF Further
    <3>. QED
      BY <3>1
  <2>. QED
    BY <1>11, <2>1, <2>2
<1>14. walks \in [Nat -> SUBSET Seq(P)]
  <2>1. walks = [n \in Nat |-> walks[n]]
    BY <1>9, <1>10
  <2>2. \A n \in Nat : walks[n] \in SUBSET Seq(P)
    BY <1>12 DEF Long
  <2>. QED
    BY <2>1, <2>2
<1>15. \A n \in Nat : \A path \in walks[n] : Len(path) = n + 1
  BY <1>12 DEF Long
<1>16. Walks(walks, doc, from, P)
  <2>1. \A n \in Nat, path \in Seq(P) :
            path \in walks[n + 1] <=>
                \E before \in walks[n] : \E at \in Onward(doc, before[n + 1]) :
                    at \notin Through(before) /\ path = Append(before, at)
    BY <1>13, Zenon
  <2>2. walks[0] = {<<from>>}
    BY <1>11
  <2>. QED
    BY <1>14, <1>15, <2>1, <2>2, Zenon DEF Walks
<1>. QED
  BY <1>7, <1>16

(* A path stays in its document. *)
LEMMA OnwardIsAPlace ==
  ASSUME NEW doc, IsDocument(doc), NEW at \in Places(doc)
  PROVE  Onward(doc, at) \subseteq Places(doc)
  BY DocumentShape DEF Onward

(* The objects around the end of a path are so many. *)
Nested(doc, path) == Cardinality(Around(doc, path))

(* One step more. *)
LEMMA PathGoesOn ==
  ASSUME NEW doc, NEW P, NEW path \in Seq(P), NEW at \in P, NEW n \in Nat, Len(path) = n + 1
  PROVE  LET next == Append(path, at)
             last == doc.nodes[path[n + 1]]
         IN  /\ next \in Seq(P) /\ Len(next) = n + 2 /\ next[n + 2] = at
             /\ \A i \in 1..(n + 1) : next[i] = path[i]
             /\ Through(next) = Through(path) \cup {at}
             /\ Nested(doc, path) \in Nat
             /\ Nested(doc, next) = IF IsObject(last) /\ at \in Parts(last)
                                    THEN Nested(doc, path) + 1 ELSE Nested(doc, path)
<1>. DEFINE next == Append(path, at)
            last == doc.nodes[path[n + 1]]
<1>1. /\ next \in Seq(P) /\ Len(next) = n + 2 /\ next[n + 2] = at
      /\ \A i \in 1..(n + 1) : next[i] = path[i]
  BY AppendProperties
<1>. HIDE DEF next
<1>2. Through(next) = Through(path) \cup {at}
  <2>1. 1..(n + 2) = 1..(n + 1) \cup {n + 2}
    OBVIOUS
  <2>. QED
    BY <1>1, <2>1 DEF Through
<1>3. IsFiniteSet(Around(doc, path)) /\ Nested(doc, path) \in Nat /\ n + 1 \notin Around(doc, path)
  <2>1. Around(doc, path) \in SUBSET (1..n)
    BY DEF Around
  <2>2. IsFiniteSet(1..n)
    BY FS_Interval
  <2>. QED
    BY <2>1, <2>2, FS_Subset, FS_CardinalityType DEF Nested
<1>4. Around(doc, next) = IF IsObject(last) /\ at \in Parts(last)
                          THEN Around(doc, path) \cup {n + 1} ELSE Around(doc, path)
  <2>1. 1..(Len(next) - 1) = 1..(Len(path) - 1) \cup {n + 1}
    BY <1>1
  <2>2. ASSUME NEW i \in 1..(Len(path) - 1) PROVE next[i] = path[i] /\ next[i + 1] = path[i + 1]
    BY <1>1
  <2>3. next[n + 1] = path[n + 1] /\ next[(n + 1) + 1] = at
    BY <1>1
  <2>. QED
    BY <2>1, <2>2, <2>3, SMTT(30) DEF Around
<1>5. Nested(doc, next) = IF IsObject(last) /\ at \in Parts(last)
                          THEN Nested(doc, path) + 1 ELSE Nested(doc, path)
  BY <1>3, <1>4, FS_AddElement DEF Nested
<1>. QED
  BY <1>1, <1>2, <1>3, <1>5 DEF next

(* A path comes to no place twice: it has no more steps than there are     *)
(* other places.                                                           *)
LEMMA WalksAreSimple ==
  ASSUME NEW doc, NEW P, NEW from, NEW f, Walks(f, doc, from, P)
  PROVE  \A n \in Nat : \A path \in f[n] :
            path \in Seq(P) /\ Len(path) = n + 1
            /\ \A i, j \in 1..(n + 1) : path[i] = path[j] => i = j
<1>. DEFINE Simple(n) == \A path \in f[n] : \A i, j \in 1..(n + 1) : path[i] = path[j] => i = j
            T == {n \in Nat : Simple(n)}
<1>1. \A n \in Nat : \A path \in f[n] : path \in Seq(P) /\ Len(path) = n + 1
  BY DEF Walks
<1>2. Simple(0)
  OBVIOUS
<1>3. ASSUME NEW n \in Nat, Simple(n) PROVE Simple(n + 1)
  <2>1. SUFFICES ASSUME NEW path \in f[n + 1], NEW i \in 1..(n + 2), NEW j \in 1..(n + 2),
                        path[i] = path[j]
                 PROVE  i = j
    OBVIOUS
  <2>2. path \in Seq(P) /\ Len(path) = n + 2
    BY <1>1
  <2>3. PICK before \in f[n] : \E at : at \notin Through(before) /\ path = Append(before, at)
    <3>1. \A m \in Nat, walk \in Seq(P) :
              walk \in f[m + 1] <=>
                  \E before \in f[m] : \E at \in Onward(doc, before[m + 1]) :
                      at \notin Through(before) /\ walk = Append(before, at)
      BY Zenon DEF Walks
    <3>2. path \in f[n + 1] /\ path \in Seq(P)
      BY <2>2
    <3>. QED
      BY <3>1, <3>2
  <2>4. PICK at : at \notin Through(before) /\ path = Append(before, at)
    BY <2>3
  <2>5. before \in Seq(P) /\ Len(before) = n + 1
    BY <1>1
  <2>6. path[n + 2] = at /\ \A k \in 1..(n + 1) : path[k] = before[k]
    <3>. DEFINE Q == P \cup {at}
    <3>1. P \subseteq Q /\ at \in Q
      OBVIOUS
    <3>. HIDE DEF Q
    <3>2. before \in Seq(Q)
      BY <2>5, <3>1, SeqMonotonic
    <3>. QED
      BY <2>4, <2>5, <3>1, <3>2, AppendProperties
  <2>7. \A k \in 1..(n + 1) : path[k] # at
    BY <2>4, <2>5, <2>6 DEF Through
  <2>8. CASE i \in 1..(n + 1) /\ j \in 1..(n + 1)
    BY <1>3, <2>1, <2>6, <2>8
  <2>9. CASE ~(i \in 1..(n + 1) /\ j \in 1..(n + 1))
    BY <2>1, <2>6, <2>7, <2>9
  <2>. QED
    BY <2>8, <2>9
<1>. HIDE DEF Simple
<1>4. 0 \in T /\ \A n \in Nat : n \in T => n + 1 \in T
  BY <1>2, <1>3
<1>5. Nat \subseteq T
  <2>. HIDE DEF T
  <2>. QED
    BY <1>4, EveryNumber
<1>6. \A n \in Nat : Simple(n)
  BY <1>5
<1>. QED
  BY <1>1, <1>6 DEF Simple

(* A simple path is no longer than there are places. *)
LEMMA WalksAreShort ==
  ASSUME NEW doc, NEW m \in Nat, NEW from, NEW f, Walks(f, doc, from, 1..m),
         NEW n \in Nat, NEW path \in f[n]
  PROVE  n < m
<1>1. /\ path \in Seq(1..m) /\ Len(path) = n + 1
      /\ \A i, j \in 1..(n + 1) : path[i] = path[j] => i = j
  BY WalksAreSimple
<1>2. path \in [1..(n + 1) -> 1..m]
  BY <1>1, LenProperties
<1>3. path \in Injection(1..(n + 1), 1..m)
  BY <1>1, <1>2 DEF Injection, IsInjective
<1>4. /\ IsFiniteSet(1..m) /\ Cardinality(1..m) = m
      /\ Cardinality(1..(n + 1)) = n + 1
  BY FS_Interval
<1>5. Cardinality(1..(n + 1)) <= Cardinality(1..m)
  BY <1>3, <1>4, FS_Injection
<1>. QED
  BY <1>4, <1>5

-----------------------------------------------------------------------------
(* A call of visit and a simple path to the place it looks at.             *)

(* The call lies in the objects around the end of the path, and has come   *)
(* through the definitions the path has come through.                      *)
Match(doc, start, path, visit) ==
  /\ visit.at = path[Len(path)]
  /\ visit.depth = start.depth + Nested(doc, path)
  /\ visit.active = {d \in DOMAIN doc.defs : doc.defs[d] \in Through(path)}

(* Where a path goes on into a part it has not been there: what lies       *)
(* behind its end it has come to only through a definition behind it, and  *)
(* into no definition but through its place.                               *)
Tidy(doc, path) ==
  \A x \in Through(path) :
      /\ x > path[Len(path)] => \E e \in Defined(doc) : path[Len(path)] < e /\ e <= x
      /\ \A e \in Defined(doc) :
            e <= x /\ (\A other \in Defined(doc) : ~(e < other /\ other <= x))
            => e \in Through(path)

(* The last definition up to a place. *)
LEMMA LastDefinition ==
  ASSUME NEW D, D \subseteq Nat, NEW x \in Nat, NEW q \in D, q <= x
  PROVE  \E e \in D : q <= e /\ e <= x /\ \A other \in D : ~(e < other /\ other <= x)
<1>. DEFINE T == {x - e : e \in {e \in D : e <= x}}
<1>1. x - q \in T /\ T \subseteq Nat
  OBVIOUS
<1>. HIDE DEF T
<1>2. PICK m \in T : \A k \in T : m <= k
  BY <1>1, LeastNumber
<1>3. PICK e \in D : e <= x /\ m = x - e
  BY <1>2 DEF T
<1>4. ASSUME NEW other \in D, other <= x PROVE other <= e
  <2>1. x - other \in T
    BY <1>4 DEF T
  <2>2. m <= x - other
    BY <1>2, <2>1
  <2>. QED
    BY <1>3, <2>2
<1>5. \A other \in D : ~(e < other /\ other <= x)
  BY <1>4
<1>. QED
  BY <1>3, <1>4, <1>5

(* A path of one place. *)
LEMMA MatchStarts ==
  ASSUME NEW doc, IsDocument(doc), NEW depth \in Nat, NEW start \in AllStarts(doc, depth)
  PROVE  /\ start \in AnyCall(doc)
         /\ Match(doc, start, <<start.at>>, start) /\ Tidy(doc, <<start.at>>)
<1>. DEFINE path == <<start.at>>
<1>1. \/ start = Call(1, depth, {})
      \/ \E d \in DOMAIN doc.defs : start = Call(doc.defs[d], EnvelopeDepth, {d})
  BY DocumentShape DEF AllStarts, RootCall, DefinitionCall
<1>2. start \in AnyCall(doc)
  BY <1>1, DocumentShape DEF Call, AnyCall, EnvelopeDepth
<1>3. Len(path) = 1 /\ path[1] = start.at /\ Through(path) = {start.at}
  BY DEF Through
<1>4. Nested(doc, path) = 0
  <2>1. Around(doc, path) = {}
    BY <1>3 DEF Around
  <2>. QED
    BY <2>1, FS_EmptySet DEF Nested
<1>5. start.active = {d \in DOMAIN doc.defs : doc.defs[d] \in {start.at}}
  <2>1. CASE start = Call(1, depth, {})
    <3>1. \A d \in DOMAIN doc.defs : doc.defs[d] # 1
      BY DocumentShape
    <3>. QED
      BY <2>1, <3>1 DEF Call
  <2>2. CASE \E d \in DOMAIN doc.defs : start = Call(doc.defs[d], EnvelopeDepth, {d})
    <3>1. PICK d \in DOMAIN doc.defs : start = Call(doc.defs[d], EnvelopeDepth, {d})
      BY <2>2
    <3>2. \A e \in DOMAIN doc.defs : doc.defs[e] = doc.defs[d] => e = d
      BY DocumentShape
    <3>. QED
      BY <3>1, <3>2 DEF Call
  <2>. QED
    BY <1>1, <2>1, <2>2
<1>6. start.at \in Nat /\ start.depth \in Nat
  BY <1>2, DocumentShape DEF AnyCall, Places
<1>7. Match(doc, start, path, start)
  BY <1>3, <1>4, <1>5, <1>6 DEF Match
<1>8. start.at \in Defined(doc) \/ start.at = 1
  BY <1>1 DEF Call, Defined
<1>9. Defined(doc) \subseteq 2..Len(doc.nodes)
  BY DocumentShape DEF Places
<1>10. Tidy(doc, path)
  <2>1. SUFFICES ASSUME NEW e \in Defined(doc), e <= start.at,
                        \A other \in Defined(doc) : ~(e < other /\ other <= start.at)
                 PROVE  e = start.at
    BY <1>3, <1>6 DEF Tidy
  <2>2. e \in Nat /\ e > 1
    BY <1>9
  <2>3. start.at \in Defined(doc)
    BY <1>8, <2>1, <2>2
  <2>. QED
    BY <1>6, <2>1, <2>2, <2>3
<1>. QED
  BY <1>2, <1>7, <1>10

(* Going into a part. *)
LEMMA MatchParts ==
  ASSUME NEW doc, IsDocument(doc), NEW start \in AnyCall(doc), NEW visit \in AnyCall(doc),
         NEW n \in Nat, NEW path \in Seq(Places(doc)), Len(path) = n + 1,
         Match(doc, start, path, visit),
         NEW part \in Parts(doc.nodes[visit.at])
  PROVE  LET node == doc.nodes[visit.at]
             deeper == IF IsObject(node) THEN visit.depth + 1 ELSE visit.depth
             next == Append(path, part)
         IN  /\ Match(doc, start, next, Call(part, deeper, visit.active))
             /\ Tidy(doc, path) => part \notin Through(path) /\ Tidy(doc, next)
<1>. DEFINE node == doc.nodes[visit.at]
            deeper == IF IsObject(node) THEN visit.depth + 1 ELSE visit.depth
            next == Append(path, part)
            last == visit.at
<1>1. last = path[n + 1] /\ last \in Places(doc) /\ start.depth \in Nat
  BY DEF Match, AnyCall
<1>2. /\ part \in Places(doc) /\ last < part /\ part \notin Defined(doc)
      /\ \A e \in Defined(doc) : ~(last < e /\ e <= part)
  BY <1>1, DocumentShape
<1>3. /\ next \in Seq(Places(doc)) /\ Len(next) = n + 2 /\ next[n + 2] = part
      /\ Through(next) = Through(path) \cup {part}
      /\ Nested(doc, path) \in Nat
      /\ Nested(doc, next) = IF IsObject(node) THEN Nested(doc, path) + 1 ELSE Nested(doc, path)
  BY <1>1, <1>2, PathGoesOn
<1>. HIDE DEF next
<1>4. {d \in DOMAIN doc.defs : doc.defs[d] \in Through(next)} = visit.active
  <2>1. \A d \in DOMAIN doc.defs : doc.defs[d] # part
    BY <1>2 DEF Defined
  <2>. QED
    BY <1>3, <2>1 DEF Match
<1>5. Match(doc, start, next, Call(part, deeper, visit.active))
  <2>1. deeper = start.depth + Nested(doc, next)
    BY <1>1, <1>3 DEF Match
  <2>. HIDE DEF deeper
  <2>. QED
    BY <1>3, <1>4, <2>1 DEF Match, Call
<1>6. Defined(doc) \subseteq Nat /\ Places(doc) \subseteq Nat /\ Through(path) \subseteq Places(doc)
  <2>1. Through(path) \subseteq Places(doc)
    BY LenProperties DEF Through
  <2>. QED
    BY <2>1, DocumentShape DEF Places
<1>7. ASSUME Tidy(doc, path) PROVE part \notin Through(path) /\ Tidy(doc, next)
  <2>1. \A x \in Through(path) :
            /\ x > last => \E e \in Defined(doc) : last < e /\ e <= x
            /\ \A e \in Defined(doc) :
                  e <= x /\ (\A other \in Defined(doc) : ~(e < other /\ other <= x))
                  => e \in Through(path)
    BY <1>1, <1>7 DEF Tidy
  <2>2. part \notin Through(path)
    BY <1>2, <1>6, <2>1
  <2>3. ASSUME NEW x \in Through(next), x > part
        PROVE  \E e \in Defined(doc) : part < e /\ e <= x
    <3>1. x \in Through(path) /\ x \in Nat /\ part \in Nat /\ last \in Nat
      BY <1>1, <1>2, <1>3, <1>6, <2>3
    <3>2. x > last
      BY <1>2, <2>3, <3>1
    <3>3. PICK e \in Defined(doc) : last < e /\ e <= x
      BY <2>1, <3>1, <3>2
    <3>4. e \in Nat /\ ~(e <= part)
      BY <1>2, <1>6, <3>3
    <3>. QED
      BY <3>1, <3>3, <3>4
  <2>4. ASSUME NEW x \in Through(next), NEW e \in Defined(doc), e <= x,
               \A other \in Defined(doc) : ~(e < other /\ other <= x)
        PROVE  e \in Through(next)
    <3>1. CASE x \in Through(path)
      BY <1>3, <2>1, <2>4, <3>1
    <3>2. CASE x = part
      <4>1. last \in Through(path)
        BY <1>1 DEF Through
      <4>2. e <= last
        BY <1>1, <1>2, <1>6, <2>4, <3>2
      <4>3. \A other \in Defined(doc) : ~(e < other /\ other <= last)
        <5>1. last \in Nat /\ part \in Nat
          BY <1>1, <1>2, <1>6
        <5>. QED
          BY <1>2, <1>6, <2>4, <3>2, <5>1
      <4>. QED
        BY <1>3, <2>1, <4>1, <4>2, <4>3
    <3>. QED
      BY <1>3, <3>1, <3>2
  <2>. QED
    BY <1>3, <2>2, <2>3, <2>4 DEF Tidy
<1>. QED
  BY <1>5, <1>7 DEF next

(* Going into a definition. *)
LEMMA MatchDefinitions ==
  ASSUME NEW doc, IsDocument(doc), NEW start \in AnyCall(doc), NEW visit \in AnyCall(doc),
         NEW n \in Nat, NEW path \in Seq(Places(doc)), Len(path) = n + 1,
         Match(doc, start, path, visit),
         NEW d \in DOMAIN doc.defs \ visit.active
  PROVE  LET next == Append(path, doc.defs[d])
         IN  /\ Match(doc, start, next, Call(doc.defs[d], visit.depth, visit.active \cup {d}))
             /\ doc.defs[d] \notin Through(path)
             /\ Tidy(doc, path) => Tidy(doc, next)
<1>. DEFINE q == doc.defs[d]
            next == Append(path, q)
            last == visit.at
<1>1. last = path[n + 1] /\ last \in Places(doc) /\ start.depth \in Nat
  BY DEF Match, AnyCall
<1>2. q \in Defined(doc) /\ q \in Places(doc) /\ q \notin Parts(doc.nodes[last])
  <2>1. q \in Defined(doc)
    BY DEF Defined
  <2>. QED
    BY <1>1, <2>1, DocumentShape
<1>3. /\ next \in Seq(Places(doc)) /\ Len(next) = n + 2 /\ next[n + 2] = q
      /\ Through(next) = Through(path) \cup {q}
      /\ Nested(doc, path) \in Nat /\ Nested(doc, next) = Nested(doc, path)
  <2>1. q \notin Parts(doc.nodes[path[n + 1]])
    BY <1>1, <1>2
  <2>. HIDE DEF q
  <2>. QED
    BY <1>2, <2>1, PathGoesOn
<1>4. q \notin Through(path)
  BY DEF Match
<1>. HIDE DEF next
<1>5. {e \in DOMAIN doc.defs : doc.defs[e] \in Through(next)} = visit.active \cup {d}
  <2>1. \A e \in DOMAIN doc.defs : doc.defs[e] = q => e = d
    BY DocumentShape
  <2>2. visit.active = {e \in DOMAIN doc.defs : doc.defs[e] \in Through(path)}
    BY DEF Match
  <2>. HIDE DEF q
  <2>3. doc.defs[d] = q
    BY DEF q
  <2>. QED
    BY <1>3, <2>1, <2>2, <2>3
<1>6. Match(doc, start, next, Call(q, visit.depth, visit.active \cup {d}))
  BY <1>1, <1>3, <1>5 DEF Match, Call
<1>7. Defined(doc) \subseteq Nat /\ Places(doc) \subseteq Nat /\ Through(path) \subseteq Places(doc)
  <2>1. Through(path) \subseteq Places(doc)
    BY LenProperties DEF Through
  <2>. QED
    BY <2>1, DocumentShape DEF Places
<1>. HIDE DEF q
<1>8. ASSUME Tidy(doc, path) PROVE Tidy(doc, next)
  <2>1. \A x \in Through(path), e \in Defined(doc) :
            e <= x /\ (\A other \in Defined(doc) : ~(e < other /\ other <= x))
            => e \in Through(path)
    BY <1>8 DEF Tidy
  <2>2. ASSUME NEW x \in Through(next), x > q
        PROVE  \E e \in Defined(doc) : q < e /\ e <= x
    <3>1. x \in Through(path) /\ x \in Nat /\ q \in Nat /\ q <= x
      BY <1>2, <1>3, <1>7, <2>2
    <3>2. PICK e \in Defined(doc) : /\ q <= e /\ e <= x
                                    /\ \A other \in Defined(doc) : ~(e < other /\ other <= x)
      BY <1>2, <1>7, <3>1, LastDefinition
    <3>3. e \in Through(path)
      BY <2>1, <3>1, <3>2
    <3>4. e # q /\ e \in Nat
      BY <1>4, <1>7, <3>3
    <3>. QED
      BY <3>1, <3>2, <3>4
  <2>3. ASSUME NEW x \in Through(next), NEW e \in Defined(doc), e <= x,
               \A other \in Defined(doc) : ~(e < other /\ other <= x)
        PROVE  e \in Through(next)
    <3>1. CASE x \in Through(path)
      BY <1>3, <2>1, <2>3, <3>1
    <3>2. CASE x = q
      <4>1. ~(e < q)
        BY <1>2, <1>7, <2>3, <3>2
      <4>2. e = q
        BY <1>2, <1>7, <2>3, <3>2, <4>1
      <4>. QED
        BY <1>3, <4>2
    <3>. QED
      BY <1>3, <3>1, <3>2
  <2>. QED
    BY <1>3, <2>2, <2>3 DEF Tidy
<1>9. q = doc.defs[d] /\ next = Append(path, doc.defs[d])
  BY DEF next, q
<1>. QED
  BY <1>4, <1>6, <1>8, <1>9

(* The simple paths from a place, by the number of their steps. *)
WalksFrom(doc, from) ==
  CHOOSE f : /\ Walks(f, doc, from, Places(doc))
             /\ Paths(doc, from) = UNION {f[n] : n \in 0..Len(doc.nodes)}

(* They are what Paths is made of. *)
LEMMA WalksFromIs ==
  ASSUME NEW doc, IsDocument(doc), NEW from \in Places(doc)
  PROVE  /\ Walks(WalksFrom(doc, from), doc, from, Places(doc))
         /\ Paths(doc, from) = UNION {WalksFrom(doc, from)[n] : n \in 0..Len(doc.nodes)}
<1>1. \A at \in Places(doc) : Onward(doc, at) \subseteq Places(doc)
  BY OnwardIsAPlace
<1>2. Len(doc.nodes) \in Nat
  BY DocumentShape
<1>3. \E f : /\ Walks(f, doc, from, Places(doc))
             /\ Paths(doc, from) = UNION {f[n] : n \in 0..Len(doc.nodes)}
  BY <1>1, <1>2, PathsAreWalks
<1>. QED
  BY <1>3, Zenon DEF WalksFrom

(* How a walk of a document goes on. *)
LEMMA WalkGoesOn ==
  ASSUME NEW doc, IsDocument(doc), NEW from \in Places(doc), NEW n \in Nat,
         NEW path \in WalksFrom(doc, from)[n], NEW at \in Onward(doc, path[n + 1]),
         at \notin Through(path)
  PROVE  Append(path, at) \in WalksFrom(doc, from)[n + 1]
<1>. DEFINE f == WalksFrom(doc, from)
            P == Places(doc)
<1>1. Walks(f, doc, from, P)
  BY WalksFromIs
<1>. HIDE DEF f
<1>2. path \in Seq(P) /\ Len(path) = n + 1
  BY <1>1, WalksAreSimple DEF f
<1>3. at \in P
  <2>1. path[n + 1] \in P
    BY <1>2, ElementOfSeq
  <2>. QED
    BY <2>1, OnwardIsAPlace
<1>4. Append(path, at) \in Seq(P)
  BY <1>2, <1>3, AppendProperties
<1>5. \A m \in Nat, walk \in Seq(P) :
          walk \in f[m + 1] <=>
              \E before \in f[m] : \E to \in Onward(doc, before[m + 1]) :
                  to \notin Through(before) /\ walk = Append(before, to)
  BY <1>1, Zenon DEF Walks
<1>6. path \in f[n]
  BY DEF f
<1>. QED
  BY <1>4, <1>5, <1>6 DEF f

(* A path of more than one place is a path that went on. *)
LEMMA WalkCameFrom ==
  ASSUME NEW doc, IsDocument(doc), NEW from \in Places(doc), NEW n \in Nat,
         NEW path \in WalksFrom(doc, from)[n + 1]
  PROVE  \E before \in WalksFrom(doc, from)[n] : \E at \in Onward(doc, before[n + 1]) :
            at \notin Through(before) /\ path = Append(before, at)
<1>. DEFINE f == WalksFrom(doc, from)
            P == Places(doc)
<1>1. Walks(f, doc, from, P)
  BY WalksFromIs
<1>. HIDE DEF f
<1>2. path \in f[n + 1] /\ n + 1 \in Nat
  BY DEF f
<1>3. path \in Seq(P)
  BY <1>1, <1>2, WalksAreSimple
<1>4. \A m \in Nat, walk \in Seq(P) :
          walk \in f[m + 1] <=>
              \E before \in f[m] : \E to \in Onward(doc, before[m + 1]) :
                  to \notin Through(before) /\ walk = Append(before, to)
  BY <1>1, Zenon DEF Walks
<1>. QED
  BY <1>2, <1>3, <1>4 DEF f

(* Every call has come a simple path from where it was begun. *)
LEMMA CallsAreWalks ==
  ASSUME NEW doc, IsDocument(doc), NEW depth \in Nat, NEW starts \in SUBSET AllStarts(doc, depth),
         NEW f, Levels(f, doc, starts)
  PROVE  \A n \in Nat : \A visit \in f[n] :
            \E start \in starts : \E path \in WalksFrom(doc, start.at)[n] :
                Match(doc, start, path, visit) /\ Tidy(doc, path)
<1>. DEFINE Came(n) == \A visit \in f[n] :
                          \E start \in starts : \E path \in WalksFrom(doc, start.at)[n] :
                              Match(doc, start, path, visit) /\ Tidy(doc, path)
            T == {n \in Nat : Came(n)}
<1>1. \A start \in starts : start \in AnyCall(doc) /\ start.at \in Places(doc)
  BY MatchStarts DEF AnyCall
<1>2. Came(0)
  <2>1. f[0] = starts
    BY DEF Levels
  <2>2. ASSUME NEW start \in starts PROVE <<start.at>> \in WalksFrom(doc, start.at)[0]
    BY <1>1, WalksFromIs DEF Walks
  <2>. QED
    BY <2>1, <2>2, MatchStarts
<1>3. ASSUME NEW n \in Nat, Came(n) PROVE Came(n + 1)
  <2>1. SUFFICES ASSUME NEW visit \in f[n + 1]
                 PROVE  \E start \in starts : \E path \in WalksFrom(doc, start.at)[n + 1] :
                            Match(doc, start, path, visit) /\ Tidy(doc, path)
    OBVIOUS
  <2>2. PICK prior \in f[n] : visit \in Made(doc, prior)
    BY DEF Levels
  <2>3. prior \in AnyCall(doc)
    BY DEF Levels
  <2>40. PICK start \in starts : \E path \in WalksFrom(doc, start.at)[n] :
             Match(doc, start, path, prior) /\ Tidy(doc, path)
    BY <1>3
  <2>4. PICK path \in WalksFrom(doc, start.at)[n] :
            Match(doc, start, path, prior) /\ Tidy(doc, path)
    BY <2>40
  <2>5. start \in AnyCall(doc) /\ start.at \in Places(doc)
    BY <1>1
  <2>6. path \in Seq(Places(doc)) /\ Len(path) = n + 1
    BY <2>5, WalksFromIs, WalksAreSimple
  <2>7. prior.at = path[n + 1]
    BY <2>4, <2>6 DEF Match
  <2>. DEFINE node == doc.nodes[prior.at]
              deeper == IF IsObject(node) THEN prior.depth + 1 ELSE prior.depth
  <2>8. \/ \E part \in Parts(node) : visit = Call(part, deeper, prior.active)
        \/ \E d \in {node.ref} \cap (DOMAIN doc.defs \ prior.active) :
              visit = Call(doc.defs[d], prior.depth, prior.active \cup {d})
    BY <2>2 DEF Made
  <2>9. CASE \E part \in Parts(node) : visit = Call(part, deeper, prior.active)
    <3>1. PICK part \in Parts(node) : visit = Call(part, deeper, prior.active)
      BY <2>9
    <3>2. /\ Match(doc, start, Append(path, part), visit) /\ Tidy(doc, Append(path, part))
          /\ part \notin Through(path)
      BY <2>3, <2>4, <2>5, <2>6, <3>1, MatchParts
    <3>3. part \in Onward(doc, path[n + 1])
      BY <2>7, <3>1 DEF Onward
    <3>4. Append(path, part) \in WalksFrom(doc, start.at)[n + 1]
      BY <2>5, <3>2, <3>3, WalkGoesOn
    <3>. QED
      BY <3>2, <3>4
  <2>10. CASE \E d \in {node.ref} \cap (DOMAIN doc.defs \ prior.active) :
                 visit = Call(doc.defs[d], prior.depth, prior.active \cup {d})
    <3>1. PICK d \in {node.ref} \cap (DOMAIN doc.defs \ prior.active) :
              visit = Call(doc.defs[d], prior.depth, prior.active \cup {d})
      BY <2>10
    <3>2. d \in DOMAIN doc.defs \ prior.active
      BY <3>1
    <3>3. /\ Match(doc, start, Append(path, doc.defs[d]), visit)
          /\ Tidy(doc, Append(path, doc.defs[d]))
          /\ doc.defs[d] \notin Through(path)
      BY <2>3, <2>4, <2>5, <2>6, <3>1, <3>2, MatchDefinitions
    <3>4. doc.defs[d] \in Onward(doc, path[n + 1])
      BY <2>7, <3>1 DEF Onward
    <3>5. Append(path, doc.defs[d]) \in WalksFrom(doc, start.at)[n + 1]
      BY <2>5, <3>3, <3>4, WalkGoesOn
    <3>. QED
      BY <3>3, <3>5
  <2>. QED
    BY <2>8, <2>9, <2>10
<1>. HIDE DEF Came
<1>4. 0 \in T /\ \A n \in Nat : n \in T => n + 1 \in T
  BY <1>2, <1>3
<1>5. Nat \subseteq T
  <2>. HIDE DEF T
  <2>. QED
    BY <1>4, EveryNumber
<1>6. \A n \in Nat : Came(n)
  BY <1>5
<1>. QED
  BY <1>6 DEF Came

(* Every simple path from where calls are begun is come by a call. *)
LEMMA WalksAreCalls ==
  ASSUME NEW doc, IsDocument(doc), NEW depth \in Nat, NEW starts \in SUBSET AllStarts(doc, depth),
         NEW f, Levels(f, doc, starts), NEW start \in starts
  PROVE  \A n \in Nat : \A path \in WalksFrom(doc, start.at)[n] :
            \E visit \in f[n] : Match(doc, start, path, visit)
<1>. DEFINE Come(n) == \A path \in WalksFrom(doc, start.at)[n] :
                          \E visit \in f[n] : Match(doc, start, path, visit)
            T == {n \in Nat : Come(n)}
<1>1. start \in AnyCall(doc) /\ start.at \in Places(doc)
  BY MatchStarts DEF AnyCall
<1>2. Come(0)
  <2>1. f[0] = starts
    BY DEF Levels
  <2>2. WalksFrom(doc, start.at)[0] = {<<start.at>>}
    BY <1>1, WalksFromIs DEF Walks
  <2>. QED
    BY <2>1, <2>2, MatchStarts
<1>3. ASSUME NEW n \in Nat, Come(n) PROVE Come(n + 1)
  <2>1. SUFFICES ASSUME NEW path \in WalksFrom(doc, start.at)[n + 1]
                 PROVE  \E visit \in f[n + 1] : Match(doc, start, path, visit)
    OBVIOUS
  <2>20. PICK before \in WalksFrom(doc, start.at)[n] : \E at \in Onward(doc, before[n + 1]) :
             at \notin Through(before) /\ path = Append(before, at)
    <3>. HIDE DEF Come, T
    <3>1. \A m \in Nat : \A walk \in WalksFrom(doc, start.at)[m + 1] :
              \E before \in WalksFrom(doc, start.at)[m] : \E at \in Onward(doc, before[m + 1]) :
                  at \notin Through(before) /\ walk = Append(before, at)
      BY <1>1, WalkCameFrom
    <3>. QED
      BY <3>1
  <2>2. PICK at \in Onward(doc, before[n + 1]) :
            at \notin Through(before) /\ path = Append(before, at)
    BY <2>20
  <2>3. PICK visit \in f[n] : Match(doc, start, before, visit)
    BY <1>3
  <2>4. visit \in AnyCall(doc) /\ Made(doc, visit) \subseteq f[n + 1]
    <3>1. f \in [Nat -> SUBSET AnyCall(doc)] /\ f[n + 1] = UNION {Made(doc, made) : made \in f[n]}
      BY DEF Levels
    <3>. QED
      BY <3>1
  <2>5. before \in Seq(Places(doc)) /\ Len(before) = n + 1
    BY <1>1, WalksFromIs, WalksAreSimple
  <2>6. visit.at = before[n + 1]
    BY <2>3, <2>5 DEF Match
  <2>. DEFINE node == doc.nodes[visit.at]
              deeper == IF IsObject(node) THEN visit.depth + 1 ELSE visit.depth
  <2>7. \/ at \in Parts(node)
        \/ \E d \in {node.ref} \cap DOMAIN doc.defs : at = doc.defs[d]
    BY <2>2, <2>6 DEF Onward
  <2>8. CASE at \in Parts(node)
    <3>1. Call(at, deeper, visit.active) \in Made(doc, visit)
      BY <2>8 DEF Made
    <3>2. Match(doc, start, path, Call(at, deeper, visit.active))
      BY <1>1, <2>2, <2>3, <2>4, <2>5, <2>8, MatchParts
    <3>. QED
      BY <2>4, <3>1, <3>2
  <2>9. CASE \E d \in {node.ref} \cap DOMAIN doc.defs : at = doc.defs[d]
    <3>1. PICK d \in {node.ref} \cap DOMAIN doc.defs : at = doc.defs[d]
      BY <2>9
    <3>2. d \in DOMAIN doc.defs \ visit.active
      BY <2>2, <2>3, <3>1 DEF Match
    <3>3. Call(doc.defs[d], visit.depth, visit.active \cup {d}) \in Made(doc, visit)
      BY <3>1, <3>2 DEF Made
    <3>4. Match(doc, start, path, Call(doc.defs[d], visit.depth, visit.active \cup {d}))
      BY <1>1, <2>2, <2>3, <2>4, <2>5, <3>1, <3>2, MatchDefinitions
    <3>. QED
      BY <2>4, <3>3, <3>4
  <2>. QED
    BY <2>7, <2>8, <2>9
<1>. HIDE DEF Come
<1>4. 0 \in T /\ \A n \in Nat : n \in T => n + 1 \in T
  BY <1>2, <1>3
<1>5. Nat \subseteq T
  <2>. HIDE DEF T
  <2>. QED
    BY <1>4, EveryNumber
<1>6. \A n \in Nat : Come(n)
  BY <1>5
<1>. QED
  BY <1>6 DEF Come

-----------------------------------------------------------------------------
(* What visit comes to.                                                    *)

(* Every call is looked at: what it makes is, and where its definitions    *)
(* begin.                                                                  *)
LEMMA VisitingCloses ==
  ASSUME NEW doc, IsDocument(doc), NEW depth \in Nat, NEW starts \in SUBSET AllStarts(doc, depth)
  PROVE  /\ starts \subseteq Visiting(doc, starts)
         /\ \A visit \in Visiting(doc, starts) :
               /\ visit \in AnyCall(doc) /\ Made(doc, visit) \subseteq Visiting(doc, starts)
               /\ \A d \in visit.active : \E other \in Visiting(doc, starts) : other.at = doc.defs[d]
<1>. DEFINE N == Len(doc.nodes)
<1>1. N \in Nat \ {0} /\ Places(doc) = 1..N
  BY DocumentShape DEF Places
<1>2. starts \in SUBSET AnyCall(doc)
  BY MatchStarts
<1>3. PICK f : Levels(f, doc, starts) /\ Visiting(doc, starts) = UNION {f[n] : n \in 0..N}
  BY <1>2, VisitingIsLevels
<1>4. /\ f \in [Nat -> SUBSET AnyCall(doc)] /\ f[0] = starts
      /\ \A n \in Nat : f[n + 1] = UNION {Made(doc, made) : made \in f[n]}
  BY <1>3 DEF Levels
<1>. HIDE DEF N
<1>5. ASSUME NEW n \in Nat, NEW visit \in f[n] PROVE n < N
  <2>1. PICK start \in starts : \E path \in WalksFrom(doc, start.at)[n] : TRUE
    BY <1>3, <1>5, CallsAreWalks
  <2>2. start.at \in Places(doc)
    BY <1>2 DEF AnyCall
  <2>3. Walks(WalksFrom(doc, start.at), doc, start.at, 1..N)
    BY <1>1, <2>2, WalksFromIs
  <2>. QED
    BY <1>1, <1>5, <2>1, <2>3, WalksAreShort
<1>6. ASSUME NEW n \in Nat PROVE f[n] \subseteq Visiting(doc, starts)
  BY <1>1, <1>3, <1>5
<1>7. starts \subseteq Visiting(doc, starts)
  BY <1>4, <1>6
<1>8. \A visit \in Visiting(doc, starts) : \E n \in Nat : visit \in f[n]
  BY <1>1, <1>3
<1>9. ASSUME NEW visit \in Visiting(doc, starts)
      PROVE  visit \in AnyCall(doc) /\ Made(doc, visit) \subseteq Visiting(doc, starts)
  <2>1. PICK n \in Nat : visit \in f[n]
    BY <1>8
  <2>2. Made(doc, visit) \subseteq f[n + 1] /\ n + 1 \in Nat
    BY <1>4, <2>1
  <2>. QED
    BY <1>4, <1>6, <2>1, <2>2
<1>10. ASSUME NEW visit \in Visiting(doc, starts), NEW d \in visit.active
       PROVE  \E other \in Visiting(doc, starts) : other.at = doc.defs[d]
  <2>. DEFINE Opened(n) == \A call0 \in f[n] : \A e \in call0.active :
                              \E other \in Visiting(doc, starts) : other.at = doc.defs[e]
              T == {n \in Nat : Opened(n)}
  <2>1. Opened(0)
    <3>1. SUFFICES ASSUME NEW start \in starts, NEW e \in start.active
                   PROVE  \E other \in Visiting(doc, starts) : other.at = doc.defs[e]
      BY <1>4
    <3>2. start = DefinitionCall(doc, e)
      <4>1. \/ start = Call(doc.root, depth, {})
            \/ \E k \in DOMAIN doc.defs : start = Call(doc.defs[k], EnvelopeDepth, {k})
        BY DEF AllStarts, RootCall, DefinitionCall
      <4>. QED
        BY <3>1, <4>1 DEF Call, DefinitionCall
    <3>. QED
      BY <1>7, <3>2 DEF DefinitionCall, Call
  <2>2. ASSUME NEW n \in Nat, Opened(n) PROVE Opened(n + 1)
    <3>1. SUFFICES ASSUME NEW call0 \in f[n + 1], NEW e \in call0.active
                   PROVE  \E other \in Visiting(doc, starts) : other.at = doc.defs[e]
      OBVIOUS
    <3>2. PICK prior \in f[n] : call0 \in Made(doc, prior)
      BY <1>4
    <3>3. call0 \in Visiting(doc, starts)
      BY <1>6, <3>1
    <3>4. CASE e \in prior.active
      BY <2>2, <3>4
    <3>5. CASE e \notin prior.active
      <4>1. \/ call0.active = prior.active
            \/ \E k \in {doc.nodes[prior.at].ref} \cap (DOMAIN doc.defs \ prior.active) :
                  call0.at = doc.defs[k] /\ call0.active = prior.active \cup {k}
        BY <3>2 DEF Made, Call
      <4>2. call0.at = doc.defs[e]
        BY <3>1, <3>5, <4>1
      <4>. QED
        BY <3>3, <4>2
    <3>. QED
      BY <3>4, <3>5
  <2>. HIDE DEF Opened
  <2>3. 0 \in T /\ \A n \in Nat : n \in T => n + 1 \in T
    BY <2>1, <2>2
  <2>4. Nat \subseteq T
    <3>. HIDE DEF T
    <3>. QED
      BY <2>3, EveryNumber
  <2>5. PICK n \in Nat : visit \in f[n]
    BY <1>8
  <2>6. Opened(n)
    BY <2>4
  <2>. QED
    BY <1>10, <2>5, <2>6 DEF Opened
<1>. QED
  BY <1>7, <1>9, <1>10

(* No object is too deep for a call exactly when none is on a simple path. *)
LEMMA DepthIsPaths ==
  ASSUME NEW doc, IsDocument(doc), NEW depth \in Nat, NEW starts \in SUBSET AllStarts(doc, depth)
  PROVE  (\A visit \in Visiting(doc, starts) : Shallow(doc, visit))
         <=> \A start \in starts : ~TooDeep(doc, start.at, start.depth)
<1>. DEFINE N == Len(doc.nodes)
<1>2. starts \in SUBSET AnyCall(doc)
  BY MatchStarts
<1>3. PICK f : Levels(f, doc, starts) /\ Visiting(doc, starts) = UNION {f[n] : n \in 0..N}
  BY <1>2, VisitingIsLevels
<1>4. N \in Nat
  BY DocumentShape
<1>. HIDE DEF N
<1>5. ASSUME NEW start \in starts
      PROVE  Paths(doc, start.at) = UNION {WalksFrom(doc, start.at)[n] : n \in 0..N}
  BY <1>2, WalksFromIs DEF N, AnyCall
<1>6. ASSUME NEW start, NEW path, NEW visit \in AnyCall(doc), Match(doc, start, path, visit)
      PROVE  Shallow(doc, visit)
             <=> ~(/\ IsObject(doc.nodes[path[Len(path)]])
                   /\ start.depth + Cardinality(Around(doc, path)) >= MaxObjectDepth)
  <2>1. visit.depth = start.depth + Cardinality(Around(doc, path)) /\ visit.at = path[Len(path)]
    BY <1>6 DEF Match, Nested
  <2>2. visit.depth \in Nat /\ MaxObjectDepth \in Nat
    BY SchemaAssumption DEF AnyCall
  <2>3. visit.depth < MaxObjectDepth <=> ~(visit.depth >= MaxObjectDepth)
    BY <2>2
  <2>. QED
    BY <2>1, <2>3, Zenon DEF Shallow
<1>7. \A visit \in Visiting(doc, starts) : visit \in AnyCall(doc)
  BY VisitingCloses
<1>8. ASSUME NEW visit \in Visiting(doc, starts), ~Shallow(doc, visit)
      PROVE  \E start \in starts : TooDeep(doc, start.at, start.depth)
  <2>1. PICK n \in 0..N : visit \in f[n]
    BY <1>3
  <2>2. n \in Nat
    BY <1>4
  <2>3. PICK start \in starts : \E path \in WalksFrom(doc, start.at)[n] : Match(doc, start, path, visit)
    BY <1>3, <2>1, <2>2, CallsAreWalks
  <2>4. PICK path \in WalksFrom(doc, start.at)[n] : Match(doc, start, path, visit)
    BY <2>3
  <2>5. path \in Paths(doc, start.at)
    BY <1>5, <2>1
  <2>6. visit \in AnyCall(doc)
    BY <1>7
  <2>7. /\ IsObject(doc.nodes[path[Len(path)]])
        /\ start.depth + Cardinality(Around(doc, path)) >= MaxObjectDepth
    BY <1>6, <1>8, <2>4, <2>6
  <2>8. TooDeep(doc, start.at, start.depth)
    BY <2>5, <2>7, Zenon DEF TooDeep
  <2>. QED
    BY <2>8
<1>9. ASSUME NEW start \in starts, TooDeep(doc, start.at, start.depth)
      PROVE  \E visit \in Visiting(doc, starts) : ~Shallow(doc, visit)
  <2>1. PICK path \in Paths(doc, start.at) :
            /\ IsObject(doc.nodes[path[Len(path)]])
            /\ start.depth + Cardinality(Around(doc, path)) >= MaxObjectDepth
    BY <1>9, Zenon DEF TooDeep
  <2>2. PICK n \in 0..N : path \in WalksFrom(doc, start.at)[n]
    BY <1>5
  <2>3. n \in Nat
    BY <1>4
  <2>4. PICK visit \in f[n] : Match(doc, start, path, visit)
    BY <1>3, <2>2, <2>3, WalksAreCalls
  <2>5. visit \in Visiting(doc, starts)
    BY <1>3, <2>2
  <2>6. ~Shallow(doc, visit)
    BY <1>6, <1>7, <2>1, <2>4, <2>5
  <2>. QED
    BY <2>5, <2>6
<1>. QED
  BY <1>8, <1>9, Zenon

(* What is begun with more is at least as many calls. *)
LEMMA VisitingGrows ==
  ASSUME NEW doc, IsDocument(doc), NEW depth \in Nat, NEW more \in SUBSET AllStarts(doc, depth),
         NEW starts \in SUBSET more
  PROVE  Visiting(doc, starts) \subseteq Visiting(doc, more)
<1>1. more \in SUBSET AnyCall(doc) /\ starts \in SUBSET AnyCall(doc)
  BY MatchStarts
<1>2. PICK f : /\ Levels(f, doc, starts)
               /\ Visiting(doc, starts) = UNION {f[n] : n \in 0..Len(doc.nodes)}
  BY <1>1, VisitingIsLevels
<1>3. f[0] = starts /\ \A n \in Nat : f[n + 1] = UNION {Made(doc, made) : made \in f[n]}
  BY <1>2 DEF Levels
<1>4. /\ more \subseteq Visiting(doc, more)
      /\ \A visit \in Visiting(doc, more) : Made(doc, visit) \subseteq Visiting(doc, more)
  BY VisitingCloses
<1>. DEFINE T == {n \in Nat : f[n] \subseteq Visiting(doc, more)}
<1>5. 0 \in T /\ \A n \in Nat : n \in T => n + 1 \in T
  BY <1>3, <1>4
<1>6. Nat \subseteq T
  <2>. HIDE DEF T
  <2>. QED
    BY <1>5, EveryNumber
<1>7. \A n \in Nat : f[n] \subseteq Visiting(doc, more)
  BY <1>6
<1>8. 0..Len(doc.nodes) \subseteq Nat
  BY DocumentShape
<1>. QED
  BY <1>2, <1>7, <1>8

(* Visit comes to every place: a definition that no reference has led to   *)
(* is begun with.                                                          *)
LEMMA EveryPlaceVisited ==
  ASSUME NEW doc, IsDocument(doc), NEW depth \in Nat
  PROVE  LET starts == Starts(doc, depth)
         IN  /\ starts \in SUBSET AllStarts(doc, depth) /\ RootCall(doc, depth) \in starts
             /\ \A at \in Places(doc) : \E visit \in Visiting(doc, starts) : visit.at = at
<1>. DEFINE N == Len(doc.nodes)
            starts == Starts(doc, depth)
            Come(at) == \E visit \in Visiting(doc, starts) : visit.at = at
<1>1. N \in Nat \ {0} /\ Places(doc) = 1..N /\ doc.root = 1
  BY DocumentShape DEF Places
<1>2. PICK f : /\ StartLevels(f, doc, depth) /\ starts = f[N]
               /\ \A n \in Nat : f[n] \subseteq AllStarts(doc, depth)
  BY <1>1, StartsAreLevels
<1>3. /\ f[0] = {RootCall(doc, depth)}
      /\ \A n \in Nat :
            f[n + 1] = f[n] \cup {DefinitionCall(doc, d) :
                           d \in {d \in DOMAIN doc.defs \ Reached(doc, f[n]) : doc.defs[d] = n + 1}}
  BY <1>2 DEF StartLevels
<1>. HIDE DEF N, starts
<1>4. ASSUME NEW n \in Nat PROVE \A k \in Nat : f[n] \subseteq f[n + k]
  <2>. DEFINE T == {k \in Nat : f[n] \subseteq f[n + k]}
  <2>1. 0 \in T
    OBVIOUS
  <2>2. ASSUME NEW k \in Nat, k \in T PROVE k + 1 \in T
    <3>1. n + k \in Nat /\ n + (k + 1) = (n + k) + 1
      OBVIOUS
    <3>2. f[n + k] \subseteq f[(n + k) + 1]
      BY <1>3, <3>1
    <3>. QED
      BY <2>2, <3>1, <3>2
  <2>. HIDE DEF T
  <2>3. Nat \subseteq T
    BY <2>1, <2>2, EveryNumber
  <2>. QED
    BY <2>3 DEF T
<1>5. ASSUME NEW n \in 0..N PROVE f[n] \subseteq starts
  <2>1. n \in Nat /\ N - n \in Nat /\ n + (N - n) = N
    BY <1>1
  <2>2. f[n] \subseteq f[n + (N - n)]
    BY <1>4, <2>1
  <2>. QED
    BY <1>2, <2>1, <2>2
<1>6. starts \in SUBSET AllStarts(doc, depth) /\ RootCall(doc, depth) \in starts
  <2>1. 0 \in 0..N
    BY <1>1
  <2>. QED
    BY <1>1, <1>2, <1>3, <1>5, <2>1
<1>7. /\ starts \subseteq Visiting(doc, starts)
      /\ \A visit \in Visiting(doc, starts) :
            /\ visit \in AnyCall(doc) /\ Made(doc, visit) \subseteq Visiting(doc, starts)
            /\ \A d \in visit.active : \E other \in Visiting(doc, starts) : other.at = doc.defs[d]
  BY <1>6, VisitingCloses
<1>8. ASSUME NEW d \in DOMAIN doc.defs PROVE Come(doc.defs[d])
  <2>1. PICK n \in Nat : n + 1 = doc.defs[d] /\ n \in 0..N
    <3>1. doc.defs[d] \in 2..N
      BY <1>1, DocumentShape
    <3>2. doc.defs[d] - 1 \in Nat /\ doc.defs[d] - 1 \in 0..N /\ (doc.defs[d] - 1) + 1 = doc.defs[d]
      BY <1>1, <3>1
    <3>. QED
      BY <3>2
  <2>2. n + 1 \in 0..N
    BY <1>1, <2>1, DocumentShape
  <2>3. CASE d \notin Reached(doc, f[n])
    <3>1. DefinitionCall(doc, d) \in f[n + 1]
      BY <1>3, <2>1, <2>3
    <3>2. DefinitionCall(doc, d) \in Visiting(doc, starts)
      BY <1>5, <1>7, <2>2, <3>1
    <3>. QED
      BY <3>2 DEF DefinitionCall, Call
  <2>4. CASE d \in Reached(doc, f[n])
    <3>1. PICK visit \in Visiting(doc, f[n]) : doc.nodes[visit.at].ref = d
      BY <2>4 DEF Reached
    <3>2. visit \in Visiting(doc, starts)
      BY <1>5, <1>6, <2>1, VisitingGrows
    <3>3. CASE d \in visit.active
      BY <1>7, <3>2, <3>3
    <3>4. CASE d \notin visit.active
      <4>1. Call(doc.defs[d], visit.depth, visit.active \cup {d}) \in Made(doc, visit)
        BY <3>1, <3>4 DEF Made
      <4>2. Call(doc.defs[d], visit.depth, visit.active \cup {d}) \in Visiting(doc, starts)
        BY <1>7, <3>2, <4>1
      <4>. QED
        BY <4>2 DEF Call
    <3>. QED
      BY <3>3, <3>4
  <2>. QED
    BY <2>3, <2>4
<1>9. ASSUME NEW outer \in Places(doc), Come(outer), NEW part \in Parts(doc.nodes[outer])
      PROVE  Come(part)
  <2>1. PICK visit \in Visiting(doc, starts) : visit.at = outer
    BY <1>9
  <2>. DEFINE deeper == IF IsObject(doc.nodes[visit.at]) THEN visit.depth + 1 ELSE visit.depth
  <2>2. PICK made \in Made(doc, visit) : made.at = part
    <3>1. Call(part, deeper, visit.active) \in Made(doc, visit)
      BY <1>9, <2>1 DEF Made
    <3>2. Call(part, deeper, visit.active).at = part
      BY DEF Call
    <3>. QED
      BY <3>1, <3>2
  <2>. QED
    BY <1>7, <2>1, <2>2
<1>10. Come(1)
  BY <1>1, <1>6, <1>7 DEF RootCall, Call
<1>. HIDE DEF Come
<1>. DEFINE Missing == {at \in Places(doc) : ~Come(at)}
<1>11. Missing = {}
  <2>1. SUFFICES ASSUME Missing # {} PROVE FALSE
    OBVIOUS
  <2>2. Missing \subseteq Nat
    BY <1>1
  <2>3. PICK at \in Missing : \A other \in Missing : at <= other
    <3>. HIDE DEF Missing
    <3>. QED
      BY <2>1, <2>2, LeastNumber
  <2>4. at \in Places(doc) /\ ~Come(at) /\ at # 1
    BY <1>10
  <2>5. at \notin Defined(doc)
    BY <1>8, <2>4 DEF Defined
  <2>6. PICK outer \in Places(doc) : at \in Parts(doc.nodes[outer])
    <3>1. \A place \in Places(doc) :
              place # 1 => \/ place \in Defined(doc)
                           \/ \E outer \in Places(doc) : place \in Parts(doc.nodes[outer])
      BY DEF IsDocument
    <3>. QED
      BY <2>4, <2>5, <3>1
  <2>7. outer < at
    BY <2>6, DocumentShape
  <2>8. outer \notin Missing
    BY <1>1, <2>2, <2>3, <2>7
  <2>. QED
    BY <1>9, <2>4, <2>6, <2>8
<1>. QED
  BY <1>6, <1>11 DEF Come, starts

-----------------------------------------------------------------------------
(* What is accepted and what is refused.                                   *)

(* Where _compile_node comes, visit comes as deep or deeper.               *)
LEMMA CompiledIsVisited ==
  ASSUME NEW doc, IsDocument(doc)
  PROVE  LET low == Lowered(doc)
             all == AllStarts(low, EnvelopeDepth)
         IN  \A made \in Compiling(doc) : \E visit \in Visiting(low, all) :
                visit.at = made.at /\ made.at \in Places(doc) /\ made.depth \in Nat
                /\ visit.depth >= made.depth
<1>. DEFINE low == Lowered(doc)
            all == AllStarts(low, EnvelopeDepth)
            Deep(made) == \E visit \in Visiting(low, all) :
                             visit.at = made.at /\ visit.depth >= made.depth
<1>1. IsDocument(low) /\ low.root = 1 /\ low.defs = doc.defs /\ Places(low) = Places(doc)
  BY LoweredIsDocument, LoweredKeeps
<1>2. \A at \in Places(doc) :
          LET node == doc.nodes[at]
          IN  /\ Parts(low.nodes[at]) = Parts(node)
              /\ IsObject(low.nodes[at]) <=> IsObject(node)
              /\ Fields(node) # {} => "properties" \in node.has
  <2>1. \A at \in Places(doc) : Fields(doc.nodes[at]) # {} => "properties" \in doc.nodes[at].has
    BY DEF IsDocument
  <2>. QED
    BY <2>1, LoweredKeeps
<1>3. PICK f : /\ CompileLevels(f, doc)
               /\ Compiling(doc) = UNION {f[n] : n \in 0..Len(doc.nodes)}
  BY CompilingIsLevels
<1>4. /\ f \in [Nat -> SUBSET AnyCall(doc)] /\ f[0] = CompileStarts(doc)
      /\ \A n \in Nat : f[n + 1] = UNION {Inside(doc, made) : made \in f[n]}
  BY <1>3 DEF CompileLevels
<1>. HIDE DEF low, all
<1>5. /\ all \subseteq Visiting(low, all)
      /\ \A visit \in Visiting(low, all) :
            visit \in AnyCall(low) /\ Made(low, visit) \subseteq Visiting(low, all)
  <2>1. EnvelopeDepth \in Nat
    BY DEF EnvelopeDepth
  <2>. QED
    BY <1>1, <2>1, VisitingCloses DEF all
<1>. DEFINE T == {n \in Nat : \A made \in f[n] : Deep(made)}
<1>6. 0 \in T
  <2>1. SUFFICES ASSUME NEW made \in CompileStarts(doc) PROVE Deep(made)
    BY <1>4
  <2>2. \E visit \in all : visit.at = made.at /\ visit.depth = EnvelopeDepth
    <3>1. \/ made = Call(doc.root, EnvelopeDepth, {})
          \/ \E d \in DOMAIN doc.defs : made = Call(doc.defs[d], EnvelopeDepth, {})
      BY <2>1 DEF CompileStarts, Defined
    <3>2. doc.root = 1
      BY DocumentShape
    <3>3. CASE made = Call(doc.root, EnvelopeDepth, {})
      <4>1. RootCall(low, EnvelopeDepth) \in all
        BY DEF all, AllStarts
      <4>. QED
        BY <1>1, <3>2, <3>3, <4>1 DEF RootCall, Call
    <3>4. CASE \E d \in DOMAIN doc.defs : made = Call(doc.defs[d], EnvelopeDepth, {})
      <4>1. PICK d \in DOMAIN doc.defs : made = Call(doc.defs[d], EnvelopeDepth, {})
        BY <3>4
      <4>2. DefinitionCall(low, d) \in all
        BY <1>1 DEF all, AllStarts
      <4>. QED
        BY <1>1, <4>1, <4>2 DEF DefinitionCall, Call
    <3>. QED
      BY <3>1, <3>3, <3>4
  <2>3. made.depth = EnvelopeDepth /\ EnvelopeDepth \in Nat
    BY <2>1 DEF CompileStarts, Call, EnvelopeDepth
  <2>. QED
    BY <1>5, <2>2, <2>3
<1>7. ASSUME NEW n \in Nat, n \in T PROVE n + 1 \in T
  <2>1. SUFFICES ASSUME NEW made \in f[n + 1] PROVE Deep(made)
    OBVIOUS
  <2>2. PICK prior \in f[n] : made \in Inside(doc, prior)
    BY <1>4
  <2>3. prior \in AnyCall(doc)
    BY <1>4
  <2>4. PICK visit \in Visiting(low, all) : visit.at = prior.at /\ visit.depth >= prior.depth
    BY <1>7
  <2>5. visit \in AnyCall(low)
    BY <1>5
  <2>6. prior.at \in Places(doc) /\ prior.depth \in Nat /\ visit.depth \in Nat
    BY <2>3, <2>5 DEF AnyCall
  <2>. DEFINE node == doc.nodes[prior.at]
              deeper == IF IsObject(low.nodes[visit.at]) THEN visit.depth + 1 ELSE visit.depth
  <2>7. PICK part \in Parts(node) :
            /\ made.at = part
            /\ made.depth = IF part \in Fields(node) THEN prior.depth + 1 ELSE prior.depth
    BY <2>2 DEF Inside, Call
  <2>8. Call(part, deeper, visit.active) \in Visiting(low, all)
    <3>1. part \in Parts(low.nodes[visit.at])
      <4>1. Parts(low.nodes[prior.at]) = Parts(doc.nodes[prior.at])
        BY <1>2, <2>6
      <4>. QED
        BY <2>4, <2>7, <4>1
    <3>2. Call(part, deeper, visit.active) \in Made(low, visit)
      BY <3>1 DEF Made
    <3>. QED
      BY <1>5, <3>2
  <2>9. part \in Fields(node) => IsObject(low.nodes[visit.at])
    BY <1>2, <2>4, <2>6 DEF IsObject
  <2>10. deeper >= made.depth
    BY <2>4, <2>6, <2>7, <2>9
  <2>. HIDE DEF deeper
  <2>. QED
    BY <2>7, <2>8, <2>10 DEF Call
<1>8. Nat \subseteq T
  <2>. HIDE DEF T
  <2>. QED
    BY <1>6, <1>7, EveryNumber
<1>9. ASSUME NEW made \in Compiling(doc)
      PROVE  Deep(made) /\ made.at \in Places(doc) /\ made.depth \in Nat
  <2>1. 0..Len(doc.nodes) \subseteq Nat
    BY DocumentShape
  <2>2. PICK n \in Nat : made \in f[n]
    BY <1>3, <2>1
  <2>3. n \in T
    BY <1>8
  <2>. QED
    BY <1>4, <2>2, <2>3 DEF AnyCall
<1>. QED
  BY <1>9 DEF low, all

(* What is refused has a reason. *)
LEMMA RefusedIsExcessive ==
  ASSUME NEW doc, IsDocument(doc), ~Publishes(doc)
  PROVE  \/ ~Expressible(doc)
         \/ \E from \in {doc.root} \cup Defined(doc) : TooDeep(Lowered(doc), from, EnvelopeDepth)
<1>. DEFINE low == Lowered(doc)
            all == AllStarts(low, EnvelopeDepth)
            some == Starts(low, EnvelopeDepth)
<1>1. SUFFICES ASSUME Expressible(doc)
               PROVE  \E from \in {doc.root} \cup Defined(doc) : TooDeep(low, from, EnvelopeDepth)
  OBVIOUS
<1>2. /\ IsDocument(low) /\ low.root = 1 /\ low.defs = doc.defs /\ Places(low) = Places(doc)
      /\ Defined(low) = Defined(doc) /\ doc.root = 1
  BY LoweredIsDocument, LoweredKeeps, DocumentShape
<1>3. \A at \in Places(doc) :
          LET node == doc.nodes[at]
          IN  /\ low.nodes[at].ref = node.ref /\ low.nodes[at].fields = node.fields
              /\ IsObject(low.nodes[at]) <=> IsObject(node)
  BY LoweredKeeps, LoweredNodeIs
<1>4. EnvelopeDepth \in Nat
  BY DEF EnvelopeDepth
<1>5. ASSUME NEW start \in all
      PROVE  start.at \in {doc.root} \cup Defined(doc) /\ start.depth = EnvelopeDepth
  BY <1>2 DEF AllStarts, RootCall, DefinitionCall, Call, Defined
<1>. HIDE DEF low
<1>6. ASSUME NEW visit \in Visiting(low, all), ~Shallow(low, visit)
      PROVE  \E from \in {doc.root} \cup Defined(doc) : TooDeep(low, from, EnvelopeDepth)
  <2>1. PICK start \in all : TooDeep(low, start.at, start.depth)
    BY <1>2, <1>4, <1>6, DepthIsPaths
  <2>. QED
    BY <1>5, <2>1
<1>7. Properties(low) = Properties(doc)
  BY <1>2, <1>3 DEF Properties
<1>8. CASE \E made \in Compiling(doc) : ~Shallow(doc, made)
  <2>1. PICK made \in Compiling(doc) : ~Shallow(doc, made)
    BY <1>8
  <2>2. PICK visit \in Visiting(low, all) :
            visit.at = made.at /\ made.at \in Places(doc) /\ made.depth \in Nat
            /\ visit.depth >= made.depth
    BY CompiledIsVisited DEF low
  <2>3. visit.depth \in Nat
    BY <1>2, <1>4, VisitingCloses DEF AnyCall
  <2>4. ~Shallow(low, visit)
    BY <1>3, <2>1, <2>2, <2>3, SchemaAssumption DEF Shallow
  <2>. QED
    BY <1>6, <2>4
<1>9. CASE ~ReferencesHold(low)
  <2>1. PICK visit \in Visiting(low, some) :
            ~Known(low, low.nodes[visit.at]) \/ ~Shallow(low, visit)
    BY <1>9 DEF ReferencesHold, VisitsHold
  <2>2. some \in SUBSET all
    BY <1>2, <1>4, EveryPlaceVisited
  <2>3. visit \in Visiting(low, all)
    BY <1>2, <1>4, <2>2, VisitingGrows
  <2>4. visit.at \in Places(doc)
    BY <1>2, <1>4, <2>3, VisitingCloses DEF AnyCall
  <2>5. Known(low, low.nodes[visit.at])
    BY <1>1, <1>2, <1>3, <2>4 DEF Expressible, Known
  <2>. QED
    BY <1>6, <2>1, <2>3, <2>5
<1>10. ClosedThroughout(doc)
  <2>1. ASSUME NEW at \in Places(doc),
               doc.nodes[at].types = {"object"} \/ "properties" \in doc.nodes[at].has
        PROVE  "closed" \in doc.nodes[at].has
    <3>1. Supports(doc.nodes[at]) /\ IsObject(doc.nodes[at])
      BY <1>1, <2>1 DEF Expressible, IsObject
    <3>. QED
      BY <3>1 DEF Supports, Closed
  <2>. QED
    BY <1>1, <2>1 DEF Expressible, ClosedThroughout
<1>11. (\E made \in Compiling(doc) : ~Shallow(doc, made)) \/ ~ReferencesHold(low)
  BY <1>1, <1>7, <1>10 DEF Publishes, Expressible, Compiles, low
<1>. QED
  BY <1>8, <1>9, <1>11

(* What is accepted names only what there is, and no object lies too deep  *)
(* under the envelope.                                                     *)
LEMMA AcceptedIsExpressible ==
  ASSUME NEW doc, IsDocument(doc), Publishes(doc)
  PROVE  Expressible(doc) /\ ~TooDeep(Lowered(doc), 1, EnvelopeDepth)
<1>. DEFINE low == Lowered(doc)
            some == Starts(low, EnvelopeDepth)
<1>1. /\ IsDocument(low) /\ low.root = 1 /\ low.defs = doc.defs /\ Places(low) = Places(doc)
  BY LoweredIsDocument, LoweredKeeps
<1>2. \A at \in Places(doc) :
          low.nodes[at].ref = doc.nodes[at].ref /\ low.nodes[at].fields = doc.nodes[at].fields
  BY LoweredKeeps, LoweredNodeIs
<1>3. EnvelopeDepth \in Nat
  BY DEF EnvelopeDepth
<1>4. \A visit \in Visiting(low, some) : Known(low, low.nodes[visit.at]) /\ Shallow(low, visit)
  BY DEF Publishes, ReferencesHold, VisitsHold
<1>. HIDE DEF low
<1>5. /\ some \in SUBSET AllStarts(low, EnvelopeDepth) /\ RootCall(low, EnvelopeDepth) \in some
      /\ \A at \in Places(low) : \E visit \in Visiting(low, some) : visit.at = at
  BY <1>1, <1>3, EveryPlaceVisited
<1>6. ASSUME NEW at \in Places(doc) PROVE Known(doc, doc.nodes[at])
  <2>1. Known(low, low.nodes[at])
    BY <1>1, <1>4, <1>5
  <2>. QED
    BY <1>1, <1>2, <2>1 DEF Known
<1>7. Properties(low) = Properties(doc)
  BY <1>1, <1>2 DEF Properties
<1>8. Expressible(doc)
  BY <1>6, <1>7 DEF Expressible, Publishes, ClosedThroughout, Compiles, low
<1>9. ~TooDeep(low, 1, EnvelopeDepth)
  <2>1. \A start \in some : ~TooDeep(low, start.at, start.depth)
    BY <1>1, <1>3, <1>4, <1>5, DepthIsPaths
  <2>2. RootCall(low, EnvelopeDepth).at = 1 /\ RootCall(low, EnvelopeDepth).depth = EnvelopeDepth
    BY <1>1 DEF RootCall, Call
  <2>. QED
    BY <1>5, <2>1, <2>2
<1>. QED
  BY <1>8, <1>9 DEF low

-----------------------------------------------------------------------------
(* The published schema.                                                   *)

(* No definition has the name that stands for no reference. *)
LEMMA NamesAreNotBlank == ASSUME NEW doc, IsDocument(doc) PROVE "" \notin DOMAIN doc.defs
  BY DEF IsDocument

(* The nodes of the envelope. *)
LEMMA EnvelopeIs ==
  ASSUME NEW n, NEW result
  PROVE  LET env == Envelope(n, result)
         IN  /\ env[1] = Strict([type |-> n + 2, call_tool |-> n + 3, finish |-> n + 5])
             /\ env[2] = [Typed({"string"}) EXCEPT !.texts = {"call_tool", "finish"}]
             /\ env[3] = Either({n + 4, n + 9})
             /\ env[4] = Strict([tool_id |-> n + 8, arguments |-> n + 8])
             /\ env[5] = Either({n + 6, n + 9})
             /\ env[6] = Strict([reason |-> n + 7, result |-> result])
             /\ env[7] = Typed({"string", "null"})
             /\ env[8] = Typed({"string"})
             /\ env[9] = Typed({"null"})
<1>. DEFINE env == Envelope(n, result)
<1>1. /\ env[1] = Strict([type |-> n + 2, call_tool |-> n + 3, finish |-> n + 5])
      /\ env[2] = [Typed({"string"}) EXCEPT !.texts = {"call_tool", "finish"}]
      /\ env[3] = Either({n + 4, n + 9})
      /\ env[4] = Strict([tool_id |-> n + 8, arguments |-> n + 8])
      /\ env[5] = Either({n + 6, n + 9})
      /\ env[6] = Strict([reason |-> n + 7, result |-> result])
      /\ env[7] = Typed({"string", "null"})
      /\ env[8] = Typed({"string"})
      /\ env[9] = Typed({"null"})
  BY DEF Envelope
<1>. QED
  BY <1>1

(* The envelope has nine nodes. *)
LEMMA EnvelopeIsNine ==
  ASSUME NEW n, NEW result
  PROVE  /\ Len(Envelope(n, result)) = 9
         /\ Envelope(n, result) = [k \in 1..9 |-> Envelope(n, result)[k]]
  BY DEF Envelope

(* The published schema has the contract's places and behind them the      *)
(* envelope's.                                                             *)
LEMMA WireIs ==
  ASSUME NEW doc, IsDocument(doc)
  PROVE  LET n == Len(doc.nodes)
             wire == Wire(doc)
         IN  /\ n \in Nat \ {0} /\ wire.root = n + 1 /\ wire.defs = doc.defs
             /\ Len(wire.nodes) = n + 9 /\ Places(wire) = 1..(n + 9) /\ Places(doc) = 1..n
             /\ DOMAIN wire.nodes = 1..(n + 9)
             /\ \A at \in 1..n : wire.nodes[at] = Lowered(doc).nodes[at]
             /\ \A k \in 1..9 : wire.nodes[n + k] = Envelope(n, 1)[k]
<1>. DEFINE n == Len(doc.nodes)
            low == Lowered(doc).nodes
            env == Envelope(n, 1)
            S == {low[at] : at \in 1..n} \cup {env[k] : k \in 1..9}
<1>1. n \in Nat \ {0} /\ doc.root = 1 /\ Places(doc) = 1..n
  BY DocumentShape DEF Places
<1>2. Wire(doc) = [root |-> n + 1, nodes |-> low \o env, defs |-> doc.defs]
  BY <1>1 DEF Wire
<1>3. low \in [1..n -> {low[at] : at \in 1..n}] /\ Len(low) = n
  <2>1. IsDocument(Lowered(doc)) /\ Places(Lowered(doc)) = 1..n
    BY <1>1, LoweredIsDocument, LoweredKeeps
  <2>2. low = [at \in 1..n |-> low[at]]
    <3>1. low = [at \in Places(Lowered(doc)) |-> low[at]]
      BY <2>1 DEF IsDocument
    <3>. QED
      BY <2>1, <3>1
  <2>. HIDE DEF low
  <2>3. low \in [1..n -> {low[at] : at \in 1..n}]
    BY <2>2
  <2>4. Len(low) = n
    BY LoweredKeeps DEF low
  <2>. QED
    BY <2>3, <2>4
<1>4. Len(env) = 9 /\ env = [k \in 1..9 |-> env[k]]
  BY EnvelopeIsNine, Zenon
<1>. HIDE DEF low, env, n
<1>5. low \in [1..n -> S]
  BY <1>3
<1>6. env \in [1..9 -> S]
  BY <1>4
<1>. HIDE DEF S
<1>60. low \in Seq(S) /\ env \in Seq(S)
  BY <1>1, <1>5, <1>6, SeqDef
<1>. HIDE DEF S
<1>7. /\ low \o env \in Seq(S) /\ Len(low \o env) = n + 9
      /\ \A i \in 1..(n + 9) : (low \o env)[i] = IF i <= n THEN low[i] ELSE env[i - n]
  <2>1. /\ low \o env \in Seq(S) /\ Len(low \o env) = Len(low) + Len(env)
        /\ \A i \in 1..(Len(low) + Len(env)) :
              (low \o env)[i] = IF i <= Len(low) THEN low[i] ELSE env[i - Len(low)]
    BY <1>60, ConcatProperties
  <2>. QED
    BY <1>3, <1>4, <2>1
<1>8. DOMAIN (low \o env) = 1..(n + 9)
  BY <1>7, LenProperties
<1>9. \A at \in 1..n : (low \o env)[at] = low[at]
  BY <1>1, <1>7
<1>10. ASSUME NEW k \in 1..9 PROVE (low \o env)[n + k] = env[k]
  <2>1. n + k \in 1..(n + 9) /\ ~(n + k <= n) /\ (n + k) - n = k
    BY <1>1
  <2>. QED
    BY <1>7, <2>1
<1>11. /\ Wire(doc).root = n + 1 /\ Wire(doc).defs = doc.defs
       /\ Wire(doc).nodes = low \o env
  BY <1>2
<1>12. Places(Wire(doc)) = 1..(n + 9)
  BY <1>7, <1>11 DEF Places
<1>. QED
  BY <1>1, <1>7, <1>8, <1>9, <1>10, <1>11, <1>12 DEF n, low, env

(* A union, keyword by keyword. *)
LEMMA EitherIs ==
  ASSUME NEW places
  PROVE  LET node == Either(places)
         IN  /\ ~IsObject(node) /\ node.ref = "" /\ node.fields = <<>> /\ node.types = {}
             /\ node.has = {} /\ node.required = {} /\ node.any = places /\ node.one = {}
             /\ node.items = {} /\ node.texts = {} /\ Parts(node) = places
<1>1. DOMAIN <<>> = {}
  OBVIOUS
<1>. QED
  BY <1>1 DEF Either, Anything, IsObject, Parts, Fields

(* A node that has only types. *)
LEMMA TypedIs ==
  ASSUME NEW types, "object" \notin types
  PROVE  LET node == Typed(types)
         IN  /\ ~IsObject(node) /\ node.ref = "" /\ node.fields = <<>> /\ node.types = types
             /\ node.has = {} /\ node.required = {} /\ node.any = {} /\ node.one = {}
             /\ node.items = {} /\ node.texts = {} /\ Parts(node) = {}
<1>1. DOMAIN <<>> = {}
  OBVIOUS
<1>. QED
  BY <1>1 DEF Typed, Anything, IsObject, Parts, Fields

(* A node that refers to no definition. *)
NoRef(node) == node.ref = ""

(* The objects of the envelope and their parts: the step, *)
LEMMA StepNodeShape ==
  ASSUME NEW a, NEW b, NEW c
  PROVE  /\ NoRef(Strict([type |-> a, call_tool |-> b, finish |-> c]))
         /\ IsObject(Strict([type |-> a, call_tool |-> b, finish |-> c]))
         /\ Parts(Strict([type |-> a, call_tool |-> b, finish |-> c])) = {a, b, c}
<1>. DEFINE fields == [type |-> a, call_tool |-> b, finish |-> c]
<1>1. DOMAIN fields = {"type", "call_tool", "finish"}
  OBVIOUS
<1>2. fields["type"] = a /\ fields["call_tool"] = b /\ fields["finish"] = c
  OBVIOUS
<1>. HIDE DEF fields
<1>3. {fields[k] : k \in DOMAIN fields} = {a, b, c}
  BY <1>1, <1>2
<1>4. /\ Strict(fields).ref = "" /\ IsObject(Strict(fields))
      /\ Parts(Strict(fields)) = {fields[k] : k \in DOMAIN fields}
  BY DEF Strict, Anything, IsObject, Parts, Fields
<1>5. NoRef(Strict(fields)) /\ IsObject(Strict(fields)) /\ Parts(Strict(fields)) = {a, b, c}
  BY <1>3, <1>4, Zenon DEF NoRef
<1>. QED
  BY <1>5, Zenon DEF fields

(* the tool call *)
LEMMA CallNodeShape ==
  ASSUME NEW a
  PROVE  /\ NoRef(Strict([tool_id |-> a, arguments |-> a]))
         /\ IsObject(Strict([tool_id |-> a, arguments |-> a]))
         /\ Parts(Strict([tool_id |-> a, arguments |-> a])) = {a}
<1>. DEFINE fields == [tool_id |-> a, arguments |-> a]
<1>1. DOMAIN fields = {"tool_id", "arguments"}
  OBVIOUS
<1>2. fields["tool_id"] = a /\ fields["arguments"] = a
  OBVIOUS
<1>. HIDE DEF fields
<1>3. {fields[k] : k \in DOMAIN fields} = {a}
  BY <1>1, <1>2
<1>4. /\ Strict(fields).ref = "" /\ IsObject(Strict(fields))
      /\ Parts(Strict(fields)) = {fields[k] : k \in DOMAIN fields}
  BY DEF Strict, Anything, IsObject, Parts, Fields
<1>5. NoRef(Strict(fields)) /\ IsObject(Strict(fields)) /\ Parts(Strict(fields)) = {a}
  BY <1>3, <1>4, Zenon DEF NoRef
<1>. QED
  BY <1>5, Zenon DEF fields

(* and the finish. *)
LEMMA FinishNodeShape ==
  ASSUME NEW a, NEW b
  PROVE  /\ NoRef(Strict([reason |-> a, result |-> b]))
         /\ IsObject(Strict([reason |-> a, result |-> b]))
         /\ Parts(Strict([reason |-> a, result |-> b])) = {a, b}
<1>. DEFINE fields == [reason |-> a, result |-> b]
<1>1. DOMAIN fields = {"reason", "result"}
  OBVIOUS
<1>2. fields["reason"] = a /\ fields["result"] = b
  OBVIOUS
<1>. HIDE DEF fields
<1>3. {fields[k] : k \in DOMAIN fields} = {a, b}
  BY <1>1, <1>2
<1>4. /\ Strict(fields).ref = "" /\ IsObject(Strict(fields))
      /\ Parts(Strict(fields)) = {fields[k] : k \in DOMAIN fields}
  BY DEF Strict, Anything, IsObject, Parts, Fields
<1>5. NoRef(Strict(fields)) /\ IsObject(Strict(fields)) /\ Parts(Strict(fields)) = {a, b}
  BY <1>3, <1>4, Zenon DEF NoRef
<1>. QED
  BY <1>5, Zenon DEF fields

(* What the envelope has besides objects and unions has no parts. *)
LEMMA LeafNodeShape ==
  /\ NoRef([Typed({"string"}) EXCEPT !.texts = {"call_tool", "finish"}])
  /\ ~IsObject([Typed({"string"}) EXCEPT !.texts = {"call_tool", "finish"}])
  /\ Parts([Typed({"string"}) EXCEPT !.texts = {"call_tool", "finish"}]) = {}
  /\ NoRef(Typed({"string", "null"})) /\ ~IsObject(Typed({"string", "null"}))
  /\ Parts(Typed({"string", "null"})) = {}
  /\ NoRef(Typed({"string"})) /\ ~IsObject(Typed({"string"})) /\ Parts(Typed({"string"})) = {}
  /\ NoRef(Typed({"null"})) /\ ~IsObject(Typed({"null"})) /\ Parts(Typed({"null"})) = {}
<1>1. "object" \notin {"string"} /\ "object" \notin {"string", "null"} /\ "object" \notin {"null"}
  OBVIOUS
<1>2. ASSUME NEW types, "object" \notin types
      PROVE  NoRef(Typed(types)) /\ ~IsObject(Typed(types)) /\ Parts(Typed(types)) = {}
  BY <1>2, TypedIs, Zenon DEF NoRef
<1>3. ASSUME NEW types, "object" \notin types, NEW texts
      PROVE  /\ NoRef([Typed(types) EXCEPT !.texts = texts])
             /\ ~IsObject([Typed(types) EXCEPT !.texts = texts])
             /\ Parts([Typed(types) EXCEPT !.texts = texts]) = {}
  <2>1. DOMAIN <<>> = {}
    OBVIOUS
  <2>. QED
    BY <1>3, <2>1 DEF NoRef, Typed, Anything, IsObject, Parts, Fields
<1>4. /\ NoRef([Typed({"string"}) EXCEPT !.texts = {"call_tool", "finish"}])
      /\ ~IsObject([Typed({"string"}) EXCEPT !.texts = {"call_tool", "finish"}])
      /\ Parts([Typed({"string"}) EXCEPT !.texts = {"call_tool", "finish"}]) = {}
  BY <1>1, <1>3, Zenon
<1>5. /\ NoRef(Typed({"string", "null"})) /\ ~IsObject(Typed({"string", "null"}))
      /\ Parts(Typed({"string", "null"})) = {}
  BY <1>1, <1>2, Zenon
<1>6. /\ NoRef(Typed({"string"})) /\ ~IsObject(Typed({"string"})) /\ Parts(Typed({"string"})) = {}
      /\ NoRef(Typed({"null"})) /\ ~IsObject(Typed({"null"})) /\ Parts(Typed({"null"})) = {}
  BY <1>1, <1>2, Zenon
<1>. QED
  BY <1>4, <1>5, <1>6, Zenon

(* A union has its members as parts. *)
LEMMA EitherNodeShape ==
  ASSUME NEW places
  PROVE  NoRef(Either(places)) /\ ~IsObject(Either(places)) /\ Parts(Either(places)) = places
  BY EitherIs, Zenon DEF NoRef

(* Where the nodes of the envelope lead. *)
EnvelopeLeads(env, n, result) ==
  /\ NoRef(env[1]) /\ IsObject(env[1]) /\ Parts(env[1]) = {n + 2, n + 3, n + 5}
  /\ NoRef(env[2]) /\ ~IsObject(env[2]) /\ Parts(env[2]) = {}
  /\ NoRef(env[3]) /\ ~IsObject(env[3]) /\ Parts(env[3]) = {n + 4, n + 9}
  /\ NoRef(env[4]) /\ IsObject(env[4]) /\ Parts(env[4]) = {n + 8}
  /\ NoRef(env[5]) /\ ~IsObject(env[5]) /\ Parts(env[5]) = {n + 6, n + 9}
  /\ NoRef(env[6]) /\ IsObject(env[6]) /\ Parts(env[6]) = {n + 7, result}
  /\ NoRef(env[7]) /\ ~IsObject(env[7]) /\ Parts(env[7]) = {}
  /\ NoRef(env[8]) /\ ~IsObject(env[8]) /\ Parts(env[8]) = {}
  /\ NoRef(env[9]) /\ ~IsObject(env[9]) /\ Parts(env[9]) = {}

(* The envelope is like that. *)
LEMMA EnvelopeShape ==
  ASSUME NEW n, NEW result
  PROVE  EnvelopeLeads(Envelope(n, result), n, result)
<1>. DEFINE env == Envelope(n, result)
<1>0. /\ env[1] = Strict([type |-> n + 2, call_tool |-> n + 3, finish |-> n + 5])
      /\ env[2] = [Typed({"string"}) EXCEPT !.texts = {"call_tool", "finish"}]
      /\ env[3] = Either({n + 4, n + 9})
      /\ env[4] = Strict([tool_id |-> n + 8, arguments |-> n + 8])
      /\ env[5] = Either({n + 6, n + 9})
      /\ env[6] = Strict([reason |-> n + 7, result |-> result])
      /\ env[7] = Typed({"string", "null"})
      /\ env[8] = Typed({"string"})
      /\ env[9] = Typed({"null"})
  BY EnvelopeIs
<1>. HIDE DEF env
<1>1. NoRef(env[1]) /\ IsObject(env[1]) /\ Parts(env[1]) = {n + 2, n + 3, n + 5}
  <2>1. /\ NoRef(Strict([type |-> n + 2, call_tool |-> n + 3, finish |-> n + 5]))
        /\ IsObject(Strict([type |-> n + 2, call_tool |-> n + 3, finish |-> n + 5]))
        /\ Parts(Strict([type |-> n + 2, call_tool |-> n + 3, finish |-> n + 5]))
              = {n + 2, n + 3, n + 5}
    BY StepNodeShape, Zenon
  <2>2. env[1] = Strict([type |-> n + 2, call_tool |-> n + 3, finish |-> n + 5])
    BY <1>0, Zenon
  <2>. QED
    BY <2>1, <2>2, Zenon
<1>2. NoRef(env[2]) /\ ~IsObject(env[2]) /\ Parts(env[2]) = {}
  BY LeafNodeShape, <1>0, Zenon
<1>3. NoRef(env[3]) /\ ~IsObject(env[3]) /\ Parts(env[3]) = {n + 4, n + 9}
  BY EitherNodeShape, <1>0, Zenon
<1>4. NoRef(env[4]) /\ IsObject(env[4]) /\ Parts(env[4]) = {n + 8}
  BY CallNodeShape, <1>0, Zenon
<1>5. NoRef(env[5]) /\ ~IsObject(env[5]) /\ Parts(env[5]) = {n + 6, n + 9}
  BY EitherNodeShape, <1>0, Zenon
<1>6. NoRef(env[6]) /\ IsObject(env[6]) /\ Parts(env[6]) = {n + 7, result}
  <2>1. /\ NoRef(Strict([reason |-> n + 7, result |-> result]))
        /\ IsObject(Strict([reason |-> n + 7, result |-> result]))
        /\ Parts(Strict([reason |-> n + 7, result |-> result])) = {n + 7, result}
    BY FinishNodeShape, Zenon
  <2>2. env[6] = Strict([reason |-> n + 7, result |-> result])
    BY <1>0, Zenon
  <2>. QED
    BY <2>1, <2>2, Zenon
<1>7. /\ NoRef(env[7]) /\ ~IsObject(env[7]) /\ Parts(env[7]) = {}
      /\ NoRef(env[8]) /\ ~IsObject(env[8]) /\ Parts(env[8]) = {}
      /\ NoRef(env[9]) /\ ~IsObject(env[9]) /\ Parts(env[9]) = {}
  BY LeafNodeShape, <1>0, Zenon
<1>8. EnvelopeLeads(env, n, result)
  BY <1>1, <1>2, <1>3, <1>4, <1>5, <1>6, <1>7, Zenon DEF EnvelopeLeads
<1>. QED
  BY <1>8, Zenon DEF env

(* Without a reference a path goes on into the parts only. *)
LEMMA NoRefLeads ==
  ASSUME NEW doc, NEW at, NoRef(doc.nodes[at]), "" \notin DOMAIN doc.defs
  PROVE  Onward(doc, at) = Parts(doc.nodes[at])
<1>1. {d \in {doc.nodes[at].ref} \cap DOMAIN doc.defs : TRUE} = {}
  BY DEF NoRef
<1>2. {doc.nodes[at].ref} \cap DOMAIN doc.defs = {}
  BY <1>1
<1>. QED
  BY <1>2 DEF Onward

(* How the envelope lies around the contract. *)
Encloses(wire, n, low) ==
  /\ n \in Nat \ {0} /\ wire.root = n + 1 /\ wire.defs = low.defs /\ Places(wire) = 1..(n + 9)
  /\ Len(wire.nodes) \in Nat
  /\ \A at \in (n + 1)..(n + 9) : Onward(wire, at) = Parts(wire.nodes[at])
  /\ Parts(wire.nodes[n + 1]) = {n + 2, n + 3, n + 5}
  /\ Parts(wire.nodes[n + 2]) = {} /\ Parts(wire.nodes[n + 3]) = {n + 4, n + 9}
  /\ Parts(wire.nodes[n + 4]) = {n + 8} /\ Parts(wire.nodes[n + 5]) = {n + 6, n + 9}
  /\ Parts(wire.nodes[n + 6]) = {n + 7, 1} /\ Parts(wire.nodes[n + 7]) = {}
  /\ Parts(wire.nodes[n + 8]) = {} /\ Parts(wire.nodes[n + 9]) = {}
  /\ IsObject(wire.nodes[n + 1]) /\ IsObject(wire.nodes[n + 4]) /\ IsObject(wire.nodes[n + 6])
  /\ ~IsObject(wire.nodes[n + 2]) /\ ~IsObject(wire.nodes[n + 3])
  /\ ~IsObject(wire.nodes[n + 5]) /\ ~IsObject(wire.nodes[n + 7])
  /\ ~IsObject(wire.nodes[n + 8]) /\ ~IsObject(wire.nodes[n + 9])
  /\ \A at \in 1..n : /\ wire.nodes[at] = low.nodes[at]
                      /\ Onward(wire, at) = Onward(low, at)
                      /\ Onward(wire, at) \subseteq 1..n

(* The published schema is the envelope around the lowered contract. *)
LEMMA WireLeads ==
  ASSUME NEW doc, IsDocument(doc), NEW n, n = Len(doc.nodes), NEW wire, wire = Wire(doc)
  PROVE  Encloses(wire, n, Lowered(doc))
<1>. DEFINE env == Envelope(n, 1)
<1>1. /\ n \in Nat \ {0} /\ wire.root = n + 1 /\ wire.defs = doc.defs /\ Places(wire) = 1..(n + 9)
      /\ Places(doc) = 1..n /\ \A at \in 1..n : wire.nodes[at] = Lowered(doc).nodes[at]
      /\ \A k \in 1..9 : wire.nodes[n + k] = env[k]
  BY WireIs
<1>2. Len(wire.nodes) \in Nat
  <2>1. DOMAIN wire.nodes = 1..(n + 9) /\ n + 9 \in Nat
    BY <1>1, WireIs
  <2>2. Len(wire.nodes) = n + 9
    BY <2>1
  <2>. QED
    BY <2>1, <2>2
<1>. HIDE DEF env
<1>3. /\ wire.nodes[n + 1] = env[1] /\ wire.nodes[n + 2] = env[2] /\ wire.nodes[n + 3] = env[3]
      /\ wire.nodes[n + 4] = env[4] /\ wire.nodes[n + 5] = env[5] /\ wire.nodes[n + 6] = env[6]
      /\ wire.nodes[n + 7] = env[7] /\ wire.nodes[n + 8] = env[8] /\ wire.nodes[n + 9] = env[9]
  BY <1>1
<1>4. /\ NoRef(env[1]) /\ IsObject(env[1]) /\ Parts(env[1]) = {n + 2, n + 3, n + 5}
      /\ NoRef(env[2]) /\ ~IsObject(env[2]) /\ Parts(env[2]) = {}
      /\ NoRef(env[3]) /\ ~IsObject(env[3]) /\ Parts(env[3]) = {n + 4, n + 9}
      /\ NoRef(env[4]) /\ IsObject(env[4]) /\ Parts(env[4]) = {n + 8}
      /\ NoRef(env[5]) /\ ~IsObject(env[5]) /\ Parts(env[5]) = {n + 6, n + 9}
      /\ NoRef(env[6]) /\ IsObject(env[6]) /\ Parts(env[6]) = {n + 7, 1}
      /\ NoRef(env[7]) /\ ~IsObject(env[7]) /\ Parts(env[7]) = {}
      /\ NoRef(env[8]) /\ ~IsObject(env[8]) /\ Parts(env[8]) = {}
      /\ NoRef(env[9]) /\ ~IsObject(env[9]) /\ Parts(env[9]) = {}
  <2>1. EnvelopeLeads(Envelope(n, 1), n, 1)
    BY EnvelopeShape, Zenon
  <2>2. EnvelopeLeads(env, n, 1)
    BY <2>1, Zenon DEF env
  <2>. QED
    BY <2>2, Zenon DEF EnvelopeLeads
<1>5. ASSUME NEW at \in (n + 1)..(n + 9) PROVE Onward(wire, at) = Parts(wire.nodes[at])
  <2>1. at - n \in 1..9 /\ at = n + (at - n)
    BY <1>1
  <2>2. NoRef(env[at - n])
    <3>1. at - n = 1 \/ at - n = 2 \/ at - n = 3 \/ at - n = 4 \/ at - n = 5 \/ at - n = 6
          \/ at - n = 7 \/ at - n = 8 \/ at - n = 9
      BY <2>1
    <3>. QED
      BY <3>1, <1>4, Zenon
  <2>3. NoRef(wire.nodes[at])
    BY <1>1, <2>1, <2>2
  <2>4. "" \notin DOMAIN wire.defs
    BY <1>1, NamesAreNotBlank, Zenon
  <2>. QED
    BY <2>3, <2>4, NoRefLeads, Zenon
<1>6. ASSUME NEW at \in 1..n
      PROVE  Onward(wire, at) = Onward(Lowered(doc), at) /\ Onward(wire, at) \subseteq 1..n
  <2>1. Lowered(doc).defs = doc.defs /\ IsDocument(Lowered(doc)) /\ Places(Lowered(doc)) = 1..n
    BY <1>1, LoweredKeeps, LoweredIsDocument
  <2>2. Onward(wire, at) = Onward(Lowered(doc), at)
    <3>1. wire.nodes[at] = Lowered(doc).nodes[at] /\ wire.defs = Lowered(doc).defs
      BY <1>1, <2>1
    <3>. QED
      BY <3>1 DEF Onward
  <2>3. Onward(Lowered(doc), at) \subseteq 1..n
    BY <2>1, OnwardIsAPlace
  <2>. QED
    BY <2>2, <2>3
<1>7. Lowered(doc).defs = doc.defs
  BY LoweredKeeps
<1>8. wire.defs = Lowered(doc).defs
  BY <1>1, <1>7
<1>. QED
  BY <1>1, <1>2, <1>3, <1>4, <1>5, <1>6, <1>8, Zenon DEF Encloses

(* The calls visit makes from the root of the lowered contract. *)
Inner(low) == Visiting(low, {RootCall(low, EnvelopeDepth)})

(* How many objects of the envelope its nodes lie in. *)
Height(k) == IF k = 1 THEN 0 ELSE IF k = 7 \/ k = 8 THEN 2 ELSE 1

(* What a path through the published schema has come through when it ends  *)
(* at a place: nothing of the contract and the envelope's objects, or what *)
(* a call of visit had come through.                                       *)
Come(low, wire, n, path, last) ==
  /\ last > n => Through(path) \cap 1..n = {} /\ Nested(wire, path) = Height(last - n)
  /\ last <= n => \E visit \in Inner(low) :
                     /\ visit.at = last /\ visit.depth = Nested(wire, path)
                     /\ visit.active = {d \in DOMAIN low.defs : low.defs[d] \in Through(path)}

(* They are closed under what a call makes. *)
LEMMA InnerCloses ==
  ASSUME NEW low, IsDocument(low)
  PROVE  /\ RootCall(low, EnvelopeDepth) \in Inner(low)
         /\ \A visit \in Inner(low) : visit \in AnyCall(low) /\ Made(low, visit) \subseteq Inner(low)
<1>1. RootCall(low, EnvelopeDepth) \in AllStarts(low, EnvelopeDepth)
  BY DEF AllStarts
<1>2. EnvelopeDepth \in Nat
  BY DEF EnvelopeDepth
<1>3. {RootCall(low, EnvelopeDepth)} \in SUBSET AllStarts(low, EnvelopeDepth)
  BY <1>1
<1>4. /\ {RootCall(low, EnvelopeDepth)} \subseteq Inner(low)
      /\ \A visit \in Inner(low) : visit \in AnyCall(low) /\ Made(low, visit) \subseteq Inner(low)
  BY <1>2, <1>3, VisitingCloses DEF Inner
<1>. QED
  BY <1>4

(* The step from the envelope. *)
LEMMA ComeAround ==
  ASSUME NEW doc, IsDocument(doc), NEW n, n = Len(doc.nodes), NEW wire, wire = Wire(doc),
         NEW low, low = Lowered(doc), NEW last \in (n + 1)..(n + 9), NEW path, NEW next,
         Come(low, wire, n, path, last), NEW at \in Onward(wire, last),
         Through(next) = Through(path) \cup {at}, Nested(wire, path) \in Nat,
         Nested(wire, next) = IF IsObject(wire.nodes[last]) /\ at \in Parts(wire.nodes[last])
                              THEN Nested(wire, path) + 1 ELSE Nested(wire, path)
  PROVE  at \in Places(wire) /\ Come(low, wire, n, next, at)
<1>0. Encloses(wire, n, low)
  BY WireLeads
<1>1. /\ n \in Nat \ {0} /\ Places(wire) = 1..(n + 9)
      /\ at \in Parts(wire.nodes[last])
      /\ Parts(wire.nodes[n + 1]) = {n + 2, n + 3, n + 5}
      /\ Parts(wire.nodes[n + 2]) = {} /\ Parts(wire.nodes[n + 3]) = {n + 4, n + 9}
      /\ Parts(wire.nodes[n + 4]) = {n + 8} /\ Parts(wire.nodes[n + 5]) = {n + 6, n + 9}
      /\ Parts(wire.nodes[n + 6]) = {n + 7, 1} /\ Parts(wire.nodes[n + 7]) = {}
      /\ Parts(wire.nodes[n + 8]) = {} /\ Parts(wire.nodes[n + 9]) = {}
      /\ IsObject(wire.nodes[n + 1]) /\ IsObject(wire.nodes[n + 4]) /\ IsObject(wire.nodes[n + 6])
      /\ ~IsObject(wire.nodes[n + 3]) /\ ~IsObject(wire.nodes[n + 5])
  BY <1>0 DEF Encloses
<1>2. Through(path) \cap 1..n = {} /\ Nested(wire, path) = Height(last - n)
  BY <1>1 DEF Come
<1>3. \/ last = n + 1 /\ at \in {n + 2, n + 3, n + 5}
      \/ last = n + 3 /\ at \in {n + 4, n + 9}
      \/ last = n + 4 /\ at = n + 8
      \/ last = n + 5 /\ at \in {n + 6, n + 9}
      \/ last = n + 6 /\ at \in {n + 7, 1}
  <2>1. last = n + 1 \/ last = n + 2 \/ last = n + 3 \/ last = n + 4 \/ last = n + 5 \/ last = n + 6
        \/ last = n + 7 \/ last = n + 8 \/ last = n + 9
    BY <1>1
  <2>. QED
    BY <1>1, <2>1
<1>4. CASE at > n
  <2>1. at \in (n + 1)..(n + 9)
    BY <1>1, <1>3, <1>4
  <2>2. Through(next) \cap 1..n = {}
    BY <1>1, <1>2, <2>1
  <2>3. Nested(wire, next) = Height(at - n)
    <3>1. CASE last = n + 1
      <4>1. at - n \in {2, 3, 5} /\ last - n = 1
        BY <1>1, <1>3, <3>1
      <4>. QED
        BY <1>1, <1>2, <3>1, <4>1 DEF Height
    <3>2. CASE last = n + 3
      <4>1. at - n \in {4, 9} /\ last - n = 3
        BY <1>1, <1>3, <3>2
      <4>. QED
        BY <1>1, <1>2, <3>2, <4>1 DEF Height
    <3>3. CASE last = n + 4
      <4>1. at - n = 8 /\ last - n = 4
        BY <1>1, <1>3, <3>3
      <4>. QED
        BY <1>1, <1>2, <3>3, <4>1 DEF Height
    <3>4. CASE last = n + 5
      <4>1. at - n \in {6, 9} /\ last - n = 5
        BY <1>1, <1>3, <3>4
      <4>. QED
        BY <1>1, <1>2, <3>4, <4>1 DEF Height
    <3>5. CASE last = n + 6
      <4>1. at - n = 7 /\ last - n = 6
        BY <1>1, <1>3, <1>4, <3>5
      <4>. QED
        BY <1>1, <1>2, <3>5, <4>1 DEF Height
    <3>. QED
      BY <1>3, <3>1, <3>2, <3>3, <3>4, <3>5
  <2>4. ~(at <= n)
    BY <1>1, <2>1
  <2>. QED
    BY <1>1, <2>1, <2>2, <2>3, <2>4 DEF Come
<1>5. CASE ~(at > n)
  <2>1. last = n + 6 /\ at = 1 /\ last - n = 6
    BY <1>1, <1>3, <1>5
  <2>2. Nested(wire, next) = 2
    BY <1>1, <1>2, <2>1 DEF Height
  <2>3. IsDocument(low) /\ low.root = 1 /\ low.defs = doc.defs /\ Places(low) = 1..n
    BY LoweredIsDocument, LoweredKeeps DEF Places
  <2>4. \A d \in DOMAIN low.defs : low.defs[d] \in (1..n) \ {1}
    BY <2>3, DocumentShape
  <2>5. {d \in DOMAIN low.defs : low.defs[d] \in Through(next)} = {}
    BY <1>2, <2>1, <2>4
  <2>. DEFINE visit == RootCall(low, EnvelopeDepth)
  <2>6. visit.at = 1 /\ visit.depth = 2 /\ visit.active = {}
    BY <2>3 DEF RootCall, Call, EnvelopeDepth
  <2>7. visit \in Inner(low)
    BY <2>3, InnerCloses
  <2>8. at \in Places(wire)
    BY <1>1, <2>1
  <2>. HIDE DEF visit
  <2>. QED
    BY <1>5, <2>1, <2>2, <2>5, <2>6, <2>7, <2>8 DEF Come
<1>. QED
  BY <1>4, <1>5

(* The step inside the contract. *)
LEMMA ComeInside ==
  ASSUME NEW doc, IsDocument(doc), NEW n, n = Len(doc.nodes), NEW wire, wire = Wire(doc),
         NEW low, low = Lowered(doc), NEW last \in 1..n, NEW path, NEW next,
         Come(low, wire, n, path, last), NEW at \in Onward(wire, last), at \notin Through(path),
         Through(next) = Through(path) \cup {at}, Nested(wire, path) \in Nat,
         Nested(wire, next) = IF IsObject(wire.nodes[last]) /\ at \in Parts(wire.nodes[last])
                              THEN Nested(wire, path) + 1 ELSE Nested(wire, path)
  PROVE  at \in Places(wire) /\ Come(low, wire, n, next, at)
<1>0. Encloses(wire, n, low)
  BY WireLeads
<1>1. /\ n \in Nat \ {0} /\ Places(wire) = 1..(n + 9)
      /\ wire.nodes[last] = low.nodes[last] /\ Onward(wire, last) = Onward(low, last)
      /\ at \in 1..n
  BY <1>0 DEF Encloses
<1>2. IsDocument(low) /\ Places(low) = 1..n
  BY LoweredIsDocument, LoweredKeeps DEF Places
<1>. DEFINE node == low.nodes[last]
<1>3. PICK visit \in Inner(low) :
          /\ visit.at = last /\ visit.depth = Nested(wire, path)
          /\ visit.active = {d \in DOMAIN low.defs : low.defs[d] \in Through(path)}
  <2>1. last <= n
    BY <1>1
  <2>. QED
    BY <2>1, Zenon DEF Come
<1>4. Made(low, visit) \subseteq Inner(low)
  BY <1>2, InnerCloses
<1>. DEFINE deeper == IF IsObject(node) THEN visit.depth + 1 ELSE visit.depth
<1>5. \/ at \in Parts(node)
      \/ \E d \in {node.ref} \cap DOMAIN low.defs : at = low.defs[d]
  BY <1>1 DEF Onward
<1>6. /\ \A part \in Parts(node) : \A d \in DOMAIN low.defs : low.defs[d] # part
      /\ \A d, e \in DOMAIN low.defs : low.defs[d] = low.defs[e] => d = e
  <2>1. \A part \in Parts(node) : part \notin Defined(low)
    BY <1>2, DocumentShape
  <2>2. \A d, e \in DOMAIN low.defs : low.defs[d] = low.defs[e] => d = e
    BY <1>2, DocumentShape
  <2>. QED
    BY <2>1, <2>2 DEF Defined
<1>7. CASE at \in Parts(node)
  <2>1. Call(at, deeper, visit.active) \in Inner(low)
    BY <1>3, <1>4, <1>7 DEF Made
  <2>2. visit.active = {d \in DOMAIN low.defs : low.defs[d] \in Through(next)}
    <3>. HIDE DEF node
    <3>. QED
      BY <1>3, <1>6, <1>7
  <2>3. deeper = Nested(wire, next)
    BY <1>1, <1>3, <1>7
  <2>. DEFINE inner == Call(at, deeper, visit.active)
  <2>4. inner.at = at /\ inner.depth = deeper /\ inner.active = visit.active
    BY DEF Call
  <2>5. ~(at > n)
    BY <1>1
  <2>6. at \in Places(wire)
    BY <1>1
  <2>. HIDE DEF inner, deeper
  <2>7. inner \in Inner(low)
    BY <2>1 DEF inner
  <2>. QED
    BY <2>2, <2>3, <2>4, <2>5, <2>6, <2>7 DEF Come
<1>8. CASE at \notin Parts(node)
  <2>1. PICK d \in {node.ref} \cap DOMAIN low.defs : at = low.defs[d]
    BY <1>5, <1>8
  <2>2. d \in {node.ref} \cap (DOMAIN low.defs \ visit.active)
    BY <1>3, <2>1
  <2>3. Call(at, visit.depth, visit.active \cup {d}) \in Inner(low)
    BY <1>3, <1>4, <2>1, <2>2 DEF Made
  <2>4. visit.active \cup {d} = {e \in DOMAIN low.defs : low.defs[e] \in Through(next)}
    <3>. HIDE DEF node
    <3>. QED
      BY <1>3, <1>6, <2>1
  <2>5. visit.depth = Nested(wire, next)
    BY <1>1, <1>3, <1>8
  <2>. DEFINE inner == Call(at, visit.depth, visit.active \cup {d})
  <2>6. inner.at = at /\ inner.depth = visit.depth /\ inner.active = visit.active \cup {d}
    BY DEF Call
  <2>7. ~(at > n)
    BY <1>1
  <2>8. at \in Places(wire)
    BY <1>1
  <2>9. inner \in Inner(low)
    BY <2>3
  <2>. HIDE DEF inner
  <2>. QED
    BY <2>4, <2>5, <2>6, <2>7, <2>8, <2>9 DEF Come
<1>. QED
  BY <1>7, <1>8

(* The paths of the published schema stay among its places. *)
LEMMA WireCloses ==
  ASSUME NEW wire, NEW n, NEW low, Encloses(wire, n, low), NEW at \in Places(wire)
  PROVE  Onward(wire, at) \subseteq Places(wire)
<1>1. n \in Nat \ {0} /\ Places(wire) = 1..(n + 9)
  BY Zenon DEF Encloses
<1>2. SUFFICES ASSUME NEW to \in Onward(wire, at) PROVE to \in 1..(n + 9)
  BY <1>1
<1>3. at \in 1..n \/ at \in (n + 1)..(n + 9)
  BY <1>1
<1>4. CASE at \in 1..n
  <2>1. Onward(wire, at) \subseteq 1..n
    BY <1>4, Zenon DEF Encloses
  <2>. QED
    BY <1>1, <1>2, <2>1
<1>5. CASE at \in (n + 1)..(n + 9)
  <2>1. to \in Parts(wire.nodes[at])
    BY <1>2, <1>5, Zenon DEF Encloses
  <2>2. /\ Parts(wire.nodes[n + 1]) = {n + 2, n + 3, n + 5}
        /\ Parts(wire.nodes[n + 2]) = {} /\ Parts(wire.nodes[n + 3]) = {n + 4, n + 9}
        /\ Parts(wire.nodes[n + 4]) = {n + 8} /\ Parts(wire.nodes[n + 5]) = {n + 6, n + 9}
        /\ Parts(wire.nodes[n + 6]) = {n + 7, 1} /\ Parts(wire.nodes[n + 7]) = {}
        /\ Parts(wire.nodes[n + 8]) = {} /\ Parts(wire.nodes[n + 9]) = {}
    BY Zenon DEF Encloses
  <2>3. at = n + 1 \/ at = n + 2 \/ at = n + 3 \/ at = n + 4 \/ at = n + 5
        \/ at = n + 6 \/ at = n + 7 \/ at = n + 8 \/ at = n + 9
    BY <1>1, <1>5
  <2>4. to \in {1, n + 2, n + 3, n + 4, n + 5, n + 6, n + 7, n + 8, n + 9}
    BY <2>1, <2>2, <2>3
  <2>. QED
    BY <1>1, <2>4
<1>. QED
  BY <1>1, <1>3, <1>4, <1>5

(* Every path through the published schema. *)
LEMMA WirePathsCome ==
  ASSUME NEW doc, IsDocument(doc), NEW n, n = Len(doc.nodes), NEW wire, wire = Wire(doc),
         NEW low, low = Lowered(doc), NEW f, Walks(f, wire, n + 1, Places(wire))
  PROVE  \A m \in Nat : \A path \in f[m] :
            /\ path[m + 1] \in Places(wire) /\ Come(low, wire, n, path, path[m + 1])
            /\ Nested(wire, path) \in Nat
<1>. DEFINE P == Places(wire)
            Good(path, m) == /\ path[m + 1] \in P /\ Come(low, wire, n, path, path[m + 1])
                             /\ Nested(wire, path) \in Nat
            All(m) == \A path \in f[m] : Good(path, m)
            T == {m \in Nat : All(m)}
<1>0. Encloses(wire, n, low)
  BY WireLeads
<1>1. n \in Nat \ {0} /\ P = 1..(n + 9)
  BY <1>0, Zenon DEF Encloses
<1>2. All(0)
  <2>1. SUFFICES ASSUME NEW path, path = <<n + 1>> PROVE Good(path, 0)
    BY DEF Walks
  <2>2. path[1] = n + 1 /\ Len(path) = 1
    BY <2>1
  <2>3. Through(path) = {n + 1}
    BY <2>2 DEF Through
  <2>4. Nested(wire, path) = 0
    <3>1. Around(wire, path) = {}
      BY <2>2 DEF Around
    <3>. QED
      BY <3>1, FS_EmptySet DEF Nested
  <2>5. Through(path) \cap 1..n = {}
    BY <1>1, <2>3
  <2>6. (n + 1) - n = 1 /\ n + 1 > n /\ ~(n + 1 <= n) /\ n + 1 \in P
    BY <1>1
  <2>7. Height(1) = 0
    BY DEF Height
  <2>. HIDE DEF P
  <2>8. Come(low, wire, n, path, n + 1)
    BY <2>4, <2>5, <2>6, <2>7 DEF Come
  <2>9. path[0 + 1] = n + 1
    BY <2>2
  <2>. QED
    BY <2>4, <2>6, <2>8, <2>9
<1>3. ASSUME NEW m \in Nat, All(m) PROVE All(m + 1)
  <2>1. SUFFICES ASSUME NEW next \in f[m + 1] PROVE Good(next, m + 1)
    BY Zenon
  <2>2. next \in Seq(P)
    BY WalksAreSimple
  <2>3. PICK path \in f[m] : \E at \in Onward(wire, path[m + 1]) :
            at \notin Through(path) /\ next = Append(path, at)
    <3>. HIDE DEF P, All
    <3>1. \A k \in Nat, walk \in Seq(P) :
             walk \in f[k + 1] <=>
                 \E before \in f[k] : \E at \in Onward(wire, before[k + 1]) :
                     at \notin Through(before) /\ walk = Append(before, at)
      BY Zenon DEF Walks, P
    <3>. QED
      BY <2>2, <3>1
  <2>4. PICK at \in Onward(wire, path[m + 1]) : at \notin Through(path) /\ next = Append(path, at)
    BY <2>3
  <2>. DEFINE last == path[m + 1]
  <2>5. Good(path, m)
    BY <1>3, Zenon
  <2>6. path \in Seq(P) /\ Len(path) = m + 1
    BY WalksAreSimple
  <2>7. at \in P
    BY <1>0, <2>4, <2>5, WireCloses
  <2>. HIDE DEF P, All, T
  <2>8. /\ Len(next) = m + 2 /\ next[m + 2] = at /\ Through(next) = Through(path) \cup {at}
        /\ Nested(wire, path) \in Nat
        /\ Nested(wire, next) = IF IsObject(wire.nodes[last]) /\ at \in Parts(wire.nodes[last])
                                THEN Nested(wire, path) + 1 ELSE Nested(wire, path)
    <3>. DEFINE onto == Append(path, at)
    <3>1. /\ Len(onto) = m + 2 /\ onto[m + 2] = at /\ Through(onto) = Through(path) \cup {at}
          /\ Nested(wire, path) \in Nat
          /\ Nested(wire, onto) = IF IsObject(wire.nodes[last]) /\ at \in Parts(wire.nodes[last])
                                  THEN Nested(wire, path) + 1 ELSE Nested(wire, path)
      BY <2>6, <2>7, PathGoesOn
    <3>2. next = onto
      BY <2>4
    <3>. QED
      BY <3>1, <3>2
  <2>9. Come(low, wire, n, next, at)
    <3>1. last \in 1..n \/ last \in (n + 1)..(n + 9)
      BY <1>1, <2>5
    <3>2. CASE last \in 1..n
      BY <2>4, <2>5, <2>8, <3>2, ComeInside
    <3>3. CASE last \in (n + 1)..(n + 9)
      BY <2>4, <2>5, <2>8, <3>3, ComeAround
    <3>. QED
      BY <3>1, <3>2, <3>3
  <2>10. Nested(wire, next) \in Nat
    BY <2>8
  <2>11. (m + 1) + 1 = m + 2
    OBVIOUS
  <2>. QED
    BY <2>7, <2>8, <2>9, <2>10, <2>11
<1>. HIDE DEF All
<1>4. 0 \in T /\ \A m \in Nat : m \in T => m + 1 \in T
  BY <1>2, <1>3
<1>. HIDE DEF T
<1>5. Nat \subseteq T
  BY <1>4, EveryNumber
<1>6. \A m \in Nat : All(m)
  BY <1>5 DEF T
<1>. QED
  BY <1>6, Zenon DEF All

(* If no object of a contract lies too deep in the place of the result,    *)
(* none of the published schema does.                                      *)
LEMMA WireIsShallow ==
  ASSUME NEW doc, IsDocument(doc), Rooted(doc), ~TooDeep(Lowered(doc), 1, EnvelopeDepth)
  PROVE  ~TooDeep(Wire(doc), Wire(doc).root, 0)
<1>. DEFINE n == Len(doc.nodes)
            wire == Wire(doc)
            low == Lowered(doc)
            P == Places(wire)
<1>0. Encloses(wire, n, low)
  BY WireLeads
<1>1. n \in Nat \ {0} /\ P = 1..(n + 9) /\ wire.root = n + 1 /\ Len(wire.nodes) \in Nat
  BY <1>0, Zenon DEF Encloses
<1>2. IsDocument(low) /\ low.root = 1
  BY LoweredIsDocument, LoweredKeeps
<1>3. \A visit \in Inner(low) : Shallow(low, visit)
  <2>. DEFINE starts == {RootCall(low, EnvelopeDepth)}
  <2>1. starts \in SUBSET AllStarts(low, EnvelopeDepth) /\ EnvelopeDepth \in Nat
    BY DEF AllStarts, EnvelopeDepth
  <2>2. \A start \in starts : start.at = 1 /\ start.depth = EnvelopeDepth
    BY <1>2 DEF RootCall, Call
  <2>. HIDE DEF low, starts
  <2>3. \A start \in starts : ~TooDeep(low, start.at, start.depth)
    BY <2>2 DEF low
  <2>4. \A visit \in Visiting(low, starts) : Shallow(low, visit)
    BY <1>2, <2>1, <2>3, DepthIsPaths
  <2>. QED
    BY <2>4 DEF Inner, starts
<1>. HIDE DEF wire, low, n, P
<1>4. 2 < MaxObjectDepth
  <2>1. IsObject(low.nodes[1])
    <3>1. 1 \in Places(doc) /\ doc.root = 1
      BY DocumentShape
    <3>2. IsObject(doc.nodes[1])
      BY <3>1 DEF Rooted, IsObject
    <3>. QED
      BY <3>1, <3>2, LoweredKeeps DEF low
  <2>2. RootCall(low, EnvelopeDepth) \in Inner(low)
    BY <1>2, InnerCloses
  <2>3. RootCall(low, EnvelopeDepth).at = 1 /\ RootCall(low, EnvelopeDepth).depth = 2
    BY <1>2 DEF RootCall, Call, EnvelopeDepth
  <2>. QED
    BY <1>3, <2>1, <2>2, <2>3 DEF Shallow
<1>5. n + 1 \in P
  BY <1>1
<1>6. \A at \in P : Onward(wire, at) \subseteq P
  BY <1>0, WireCloses DEF P
<1>. DEFINE from == n + 1
<1>7. PICK f : /\ Walks(f, wire, from, P)
               /\ Paths(wire, from) = UNION {f[m] : m \in 0..Len(wire.nodes)}
  <2>1. from \in P
    BY <1>5
  <2>2. Len(wire.nodes) \in Nat /\ \A at \in P : Onward(wire, at) \subseteq P
    BY <1>1, <1>6
  <2>. HIDE DEF from
  <2>. QED
    BY <2>1, <2>2, PathsAreWalks
<1>8. ASSUME NEW path \in Paths(wire, n + 1), IsObject(wire.nodes[path[Len(path)]]),
             0 + Cardinality(Around(wire, path)) >= MaxObjectDepth
      PROVE  FALSE
  <2>1. PICK m \in 0..Len(wire.nodes) : path \in f[m]
    BY <1>7
  <2>2. m \in Nat
    BY <1>1
  <2>3. Len(path) = m + 1
    BY <1>7, <2>1, <2>2, WalksAreSimple
  <2>. DEFINE last == path[m + 1]
  <2>4. last \in P /\ Come(low, wire, n, path, last) /\ Nested(wire, path) \in Nat
    BY <1>7, <2>1, <2>2, WirePathsCome DEF n, wire, low, P
  <2>5. IsObject(wire.nodes[last]) /\ Nested(wire, path) >= MaxObjectDepth
    BY <1>8, <2>3, <2>4 DEF Nested
  <2>6. CASE last > n
    <3>1. Nested(wire, path) = Height(last - n)
      BY <2>4, <2>6 DEF Come
    <3>2. /\ ~IsObject(wire.nodes[n + 7]) /\ ~IsObject(wire.nodes[n + 8])
      BY <1>0, Zenon DEF Encloses
    <3>3. last # n + 7 /\ last # n + 8
      BY <2>5, <3>2
    <3>4. last - n # 7 /\ last - n # 8
      BY <1>1, <2>4, <3>3
    <3>5. Nested(wire, path) <= 1
      BY <3>1, <3>4 DEF Height
    <3>. QED
      BY <1>4, <2>4, <2>5, <3>5, SchemaAssumption
  <2>7. CASE ~(last > n)
    <3>1. last \in 1..n /\ last <= n
      BY <1>1, <2>4, <2>7
    <3>2. PICK visit \in Inner(low) : visit.at = last /\ visit.depth = Nested(wire, path)
      BY <2>4, <3>1 DEF Come
    <3>3. wire.nodes[last] = low.nodes[last]
      BY <1>0, <3>1, Zenon DEF Encloses
    <3>4. Nested(wire, path) < MaxObjectDepth
      BY <1>3, <2>5, <3>2, <3>3 DEF Shallow
    <3>. QED
      BY <2>4, <2>5, <3>4, SchemaAssumption
  <2>. QED
    BY <2>6, <2>7
<1>9. ~TooDeep(wire, n + 1, 0)
  BY <1>8, Zenon DEF TooDeep
<1>. QED
  BY <1>1, <1>9 DEF wire
=============================================================================
