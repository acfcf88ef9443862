----------------------------- MODULE IsolatedProofs -----------------------------
(***************************************************************************)
(* What the published schema means, what an answer is taken for, and the   *)
(* theorems about a host's own loop over the public operations.            *)
(***************************************************************************)
EXTENDS SchemaProofs

-----------------------------------------------------------------------------
(* What a schema means, look by look.                                      *)

(* What fits a place after so many looks: nothing after none, and then what*)
(* holds given what fitted one look before.                                *)
Meanings(fits, doc, full, exactly) ==
  /\ \A at \in Places(doc), value \in Values : ~fits[0][at][value]
  /\ \A n \in Nat : \A at \in Places(doc), value \in Values :
        fits[n + 1][at][value] <=> Holds(doc, full, exactly, fits[n], at, value)

(* Whether a node holds is a Boolean. *)
LEMMA HoldsOrNot ==
  ASSUME NEW doc, NEW full, NEW exactly, NEW fits, NEW at, NEW value
  PROVE  Holds(doc, full, exactly, fits, at, value) \in BOOLEAN
<1>. DEFINE holds == Holds(doc, full, exactly, fits, at, value)
<1>1. holds = (holds /\ TRUE)
  BY Zenon DEF Holds
<1>. HIDE DEF holds
<1>2. (holds /\ TRUE) \in BOOLEAN
  BY Zenon
<1>. QED
  BY <1>1, <1>2, Zenon DEF holds

(* Means is such a table. *)
LEMMA MeansIsMeanings ==
  ASSUME NEW doc, NEW full, NEW exactly
  PROVE  \E fits : /\ Meanings(fits, doc, full, exactly)
                   /\ \A n, at, value :
                         Means(doc, full, exactly, n, at, value) = fits[n][at][value]
<1>. DEFINE P == Places(doc)
            S == [P -> [Values -> BOOLEAN]]
            Look(g) == [place \in P |-> [piece \in Values |->
                          Holds(doc, full, exactly, g, place, piece)]]
            base == [place \in P |-> [piece \in Values |-> FALSE]]
            G == [n \in Nat |-> [g \in S |-> Look(g)]]
            Next0(f) == [n \in Nat |-> [place \in P |-> [piece \in Values |->
                            n > 0 /\ Holds(doc, full, exactly, f[n - 1], place, piece)]]]
            fits == CHOOSE f : f = Next0(f)
<1>1. \A n, at, value : Means(doc, full, exactly, n, at, value) = fits[n][at][value]
  BY Zenon DEF Means
<1>2. base \in S
  OBVIOUS
<1>3. ASSUME NEW g \in S PROVE Look(g) \in S
  BY HoldsOrNot, Zenon
<1>4. G \in [Nat -> [S -> S]]
  <2>. HIDE DEF Look, S
  <2>. QED
    BY <1>3
<1>5. \E f \in [Nat -> S] : Goes(f, Nat, base, G)
  <2>. HIDE DEF G, S, base
  <2>. QED
    BY <1>2, <1>4, RecursionExists
<1>6. ASSUME NEW f \in [Nat -> S], Goes(f, Nat, base, G) PROVE f = Next0(f)
  <2>1. f = [n \in Nat |-> IF n = 0 THEN base ELSE G[n][f[n - 1]]]
    BY <1>6 DEF Goes
  <2>2. ASSUME NEW n \in Nat
        PROVE  (IF n = 0 THEN base ELSE G[n][f[n - 1]])
                 = [place \in P |-> [piece \in Values |->
                       n > 0 /\ Holds(doc, full, exactly, f[n - 1], place, piece)]]
    <3>1. CASE n = 0
      <4>1. ~(n > 0)
        BY <3>1
      <4>2. base = [place \in P |-> [piece \in Values |->
                       n > 0 /\ Holds(doc, full, exactly, f[n - 1], place, piece)]]
        BY <4>1, Zenon
      <4>. HIDE DEF base
      <4>. QED
        BY <3>1, <4>2, Zenon
    <3>2. CASE n # 0
      <4>1. n > 0 /\ n - 1 \in Nat
        BY <3>2
      <4>2. f[n - 1] \in S
        BY <1>6, <4>1
      <4>3. G[n][f[n - 1]] = Look(f[n - 1])
        <5>. HIDE DEF Look, S
        <5>. QED
          BY <4>2
      <4>4. Look(f[n - 1]) = [place \in P |-> [piece \in Values |->
                       n > 0 /\ Holds(doc, full, exactly, f[n - 1], place, piece)]]
        <5>1. \A place, piece : Holds(doc, full, exactly, f[n - 1], place, piece)
                    = (n > 0 /\ Holds(doc, full, exactly, f[n - 1], place, piece))
          BY <4>1, HoldsOrNot, Zenon
        <5>. QED
          BY <5>1, Zenon
      <4>. HIDE DEF G, base, Look
      <4>. QED
        BY <3>2, <4>3, <4>4, Zenon
    <3>. QED
      BY <3>1, <3>2
  <2>. HIDE DEF G, base
  <2>. QED
    BY <2>1, <2>2, Zenon
<1>7. ASSUME NEW f, f = Next0(f), NEW n \in Nat, NEW at \in P, NEW value \in Values
      PROVE  f[n][at][value] = (n > 0 /\ Holds(doc, full, exactly, f[n - 1], at, value))
  <2>. DEFINE Cell(place, piece) == n > 0 /\ Holds(doc, full, exactly, f[n - 1], place, piece)
  <2>1. f[n] = [place \in P |-> [piece \in Values |-> Cell(place, piece)]]
    BY <1>7, Zenon
  <2>. HIDE DEF Cell, P
  <2>2. f[n][at][value] = Cell(at, value)
    BY <2>1
  <2>. QED
    BY <2>2, Zenon DEF Cell
<1>. HIDE DEF Next0
<1>8. fits = Next0(fits)
  BY <1>5, <1>6, Zenon
<1>. HIDE DEF fits
<1>9. Meanings(fits, doc, full, exactly)
  <2>1. ASSUME NEW at \in P, NEW value \in Values PROVE ~fits[0][at][value]
    <3>1. fits[0][at][value] = (0 > 0 /\ Holds(doc, full, exactly, fits[0 - 1], at, value))
      <4>1. 0 \in Nat
        OBVIOUS
      <4>. HIDE DEF P
      <4>. QED
        BY <1>7, <1>8, <4>1, Zenon
    <3>2. ~(0 > 0)
      OBVIOUS
    <3>. QED
      BY <3>1, <3>2, Zenon
  <2>2. ASSUME NEW n \in Nat, NEW at \in P, NEW value \in Values
        PROVE  fits[n + 1][at][value] <=> Holds(doc, full, exactly, fits[n], at, value)
    <3>1. n + 1 \in Nat /\ n + 1 > 0 /\ (n + 1) - 1 = n
      OBVIOUS
    <3>2. fits[n + 1][at][value]
             = (n + 1 > 0 /\ Holds(doc, full, exactly, fits[(n + 1) - 1], at, value))
      BY <1>7, <1>8, <3>1, Zenon
    <3>3. fits[(n + 1) - 1] = fits[n]
      BY <3>1
    <3>. QED
      BY <3>1, <3>2, <3>3, Zenon
  <2>. QED
    BY <2>1, <2>2, Zenon DEF Meanings
<1>. QED
  BY <1>1, <1>9

(* What fits a schema, by the number of looks. *)
Fitting(doc, full, exactly) ==
  CHOOSE fits : /\ Meanings(fits, doc, full, exactly)
                /\ \A n, at, value : Means(doc, full, exactly, n, at, value) = fits[n][at][value]

(* It is the table of Means. *)
LEMMA FittingIs ==
  ASSUME NEW doc, NEW full, NEW exactly
  PROVE  /\ Meanings(Fitting(doc, full, exactly), doc, full, exactly)
         /\ \A n, at, value : Means(doc, full, exactly, n, at, value)
                                <=> Fitting(doc, full, exactly)[n][at][value]
<1>. DEFINE P(fits) == /\ Meanings(fits, doc, full, exactly)
                       /\ \A n, at, value :
                             Means(doc, full, exactly, n, at, value) = fits[n][at][value]
<1>1. \E fits : P(fits)
  BY MeansIsMeanings
<1>2. Fitting(doc, full, exactly) = CHOOSE fits : P(fits)
  BY DEF Fitting
<1>. HIDE DEF P
<1>3. P(Fitting(doc, full, exactly))
  BY <1>1, <1>2, Zenon
<1>. QED
  BY <1>3 DEF P

(* A node and a value, part by part. *)
KindFits(node, value) ==
  /\ node.types # {} => value.kind \in node.types
  /\ node.texts # {} => value.kind = "string" /\ value.text \in node.texts

(* A node's reference, *)
RefFits(doc, node, fits, value) == node.ref # "" => fits[doc.defs[node.ref]][value]

(* its properties, *)
ObjectFits(node, full, fits, value) ==
  IsObject(node) /\ value.kind = "object" =>
     /\ DOMAIN value.fields \subseteq DOMAIN node.fields /\ node.required \subseteq DOMAIN value.fields
     /\ full => DOMAIN value.fields = DOMAIN node.fields
     /\ \A k \in DOMAIN value.fields : fits[node.fields[k]][value.fields[k]]

(* its items *)
ArrayFits(node, fits, value) ==
  value.kind = "array" =>
     \A part \in node.items, i \in DOMAIN value.elems : fits[part][value.elems[i]]

(* and the members of its unions. *)
AnyFits(node, fits, value) == node.any # {} => {part \in node.any : fits[part][value]} # {}

(* A oneOf, read exactly or as anyOf. *)
OneFits(node, exactly, fits, value) ==
  node.one # {} => IF exactly THEN \E part \in node.one : {p \in node.one : fits[p][value]} = {part}
                   ELSE {part \in node.one : fits[part][value]} # {}

(* A node holds when each of its keywords does. *)
LEMMA HoldsIs ==
  ASSUME NEW doc, NEW full, NEW exactly, NEW fits, NEW at, NEW value
  PROVE  Holds(doc, full, exactly, fits, at, value)
         <=> /\ KindFits(doc.nodes[at], value) /\ RefFits(doc, doc.nodes[at], fits, value)
             /\ ObjectFits(doc.nodes[at], full, fits, value)
             /\ ArrayFits(doc.nodes[at], fits, value) /\ AnyFits(doc.nodes[at], fits, value)
             /\ OneFits(doc.nodes[at], exactly, fits, value)
  BY Zenon DEF Holds, KindFits, RefFits, ObjectFits, ArrayFits, AnyFits, OneFits

(* The values a value consists of. *)
LEMMA PiecesAreValues ==
  ASSUME NEW value \in Values
  PROVE  /\ \A k \in DOMAIN value.fields : value.fields[k] \in Values
         /\ \A i \in DOMAIN value.elems : value.elems[i] \in Values
<1>1. value.fields \in [DOMAIN value.fields -> Values] /\ value.elems \in Seq(Values)
  BY SchemaAssumption DEF IsValue
<1>2. \A i \in DOMAIN value.elems : value.elems[i] \in Values
  <2>1. value.elems \in [1..Len(value.elems) -> Values]
    BY <1>1, LenProperties
  <2>. QED
    BY <2>1
<1>. QED
  BY <1>1, <1>2

(* The places a node refers to. *)
LEMMA PartsArePlaces ==
  ASSUME NEW doc, IsDocument(doc), NEW at \in Places(doc), NEW node, node = doc.nodes[at],
         Known(doc, node)
  PROVE  /\ \A k \in DOMAIN node.fields : node.fields[k] \in Places(doc)
         /\ node.items \subseteq Places(doc) /\ node.any \subseteq Places(doc)
         /\ node.one \subseteq Places(doc)
         /\ node.ref = "" \/ doc.defs[node.ref] \in Places(doc)
<1>1. Parts(node) \subseteq Places(doc)
  BY DocumentShape
<1>2. doc.defs \in [DOMAIN doc.defs -> Places(doc) \ {1}]
  BY DocumentShape
<1>3. node.ref = "" \/ node.ref \in DOMAIN doc.defs
  BY DEF Known
<1>4. node.ref = "" \/ doc.defs[node.ref] \in Places(doc)
  BY <1>2, <1>3
<1>. QED
  BY <1>1, <1>4 DEF Parts, Fields

(* A schema that has the lowered nodes of a contract. *)
Lowers(schema, doc) ==
  /\ Places(doc) \subseteq Places(schema) /\ schema.defs = doc.defs
  /\ \A at \in Places(doc) : schema.nodes[at] = LoweredNode(doc.nodes[at])

(* A value fits a lowered node exactly when it is complete and fits the    *)
(* logical one, with oneOf read as anyOf.                                  *)
LEMMA LoweredHolds ==
  ASSUME NEW doc, IsDocument(doc), NEW schema, Lowers(schema, doc), NEW exactly,
         NEW at \in Places(doc), Supports(doc.nodes[at]), Known(doc, doc.nodes[at]),
         NEW value \in Values, NEW low, NEW fits,
         \A place \in Places(doc), piece \in Values : low[place][piece] <=> fits[place][piece]
  PROVE  Holds(schema, FALSE, exactly, low, at, value) <=> Holds(doc, TRUE, FALSE, fits, at, value)
<1>. DEFINE node == doc.nodes[at]
            lowered == schema.nodes[at]
<1>1. /\ lowered.ref = node.ref /\ lowered.types = node.types /\ lowered.texts = node.texts
      /\ lowered.has = node.has /\ lowered.fields = node.fields /\ lowered.items = node.items
      /\ lowered.required = DOMAIN node.fields
      /\ lowered.any = node.one \cup node.any /\ lowered.one = {}
  <2>1. DOMAIN node = DOMAIN Anything /\ lowered = LoweredNode(node)
    BY DocumentShape DEF Lowers
  <2>. HIDE DEF node, lowered
  <2>. QED
    BY <2>1, LoweredNodeIs
<1>2. schema.defs = doc.defs
  BY DEF Lowers
<1>3. /\ \A k \in DOMAIN node.fields : node.fields[k] \in Places(doc)
      /\ node.items \subseteq Places(doc) /\ node.any \subseteq Places(doc)
      /\ node.one \subseteq Places(doc)
      /\ node.ref = "" \/ doc.defs[node.ref] \in Places(doc)
  BY PartsArePlaces, Zenon
<1>4. /\ \A k \in DOMAIN value.fields : value.fields[k] \in Values
      /\ \A i \in DOMAIN value.elems : value.elems[i] \in Values
  BY PiecesAreValues
<1>5. /\ node.one = {} \/ node.any = {}
      /\ IsObject(node) => node.required \subseteq DOMAIN node.fields
      /\ IsObject(lowered) <=> IsObject(node)
  BY <1>1 DEF Supports, Closed, IsObject
<1>. HIDE DEF node, lowered
<1>6. KindFits(lowered, value) <=> KindFits(node, value)
  BY <1>1, Zenon DEF KindFits
<1>7. RefFits(schema, lowered, low, value) <=> RefFits(doc, node, fits, value)
  BY <1>1, <1>2, <1>3 DEF RefFits
<1>8. ObjectFits(lowered, FALSE, low, value) <=> ObjectFits(node, TRUE, fits, value)
  <2>. DEFINE keys == DOMAIN value.fields
  <2>1. CASE IsObject(node)
    <3>1. keys \subseteq DOMAIN node.fields =>
            ((\A k \in keys : low[node.fields[k]][value.fields[k]])
               <=> (\A k \in keys : fits[node.fields[k]][value.fields[k]]))
      BY <1>3, <1>4
    <3>2. (keys \subseteq DOMAIN lowered.fields /\ lowered.required \subseteq keys)
            <=> (/\ keys \subseteq DOMAIN node.fields /\ node.required \subseteq keys
                 /\ keys = DOMAIN node.fields)
      BY <1>1, <1>5, <2>1
    <3>. HIDE DEF keys
    <3>. QED
      BY <1>1, <1>5, <2>1, <3>1, <3>2 DEF ObjectFits, keys
  <2>2. CASE ~IsObject(node)
    BY <1>5, <2>2 DEF ObjectFits
  <2>. QED
    BY <2>1, <2>2
<1>9. ArrayFits(lowered, low, value) <=> ArrayFits(node, fits, value)
  BY <1>1, <1>3, <1>4 DEF ArrayFits
<1>10. (AnyFits(lowered, low, value) /\ OneFits(lowered, exactly, low, value))
       <=> (AnyFits(node, fits, value) /\ OneFits(node, FALSE, fits, value))
  <2>1. OneFits(lowered, exactly, low, value)
    BY <1>1 DEF OneFits
  <2>2. AnyFits(lowered, low, value)
          <=> (AnyFits(node, fits, value) /\ OneFits(node, FALSE, fits, value))
    BY <1>1, <1>3, <1>5 DEF AnyFits, OneFits
  <2>. QED
    BY <2>1, <2>2
<1>11. Holds(schema, FALSE, exactly, low, at, value)
       <=> /\ KindFits(lowered, value) /\ RefFits(schema, lowered, low, value)
           /\ ObjectFits(lowered, FALSE, low, value) /\ ArrayFits(lowered, low, value)
           /\ AnyFits(lowered, low, value) /\ OneFits(lowered, exactly, low, value)
  BY HoldsIs, Zenon DEF lowered
<1>12. Holds(doc, TRUE, FALSE, fits, at, value)
       <=> /\ KindFits(node, value) /\ RefFits(doc, node, fits, value)
           /\ ObjectFits(node, TRUE, fits, value) /\ ArrayFits(node, fits, value)
           /\ AnyFits(node, fits, value) /\ OneFits(node, FALSE, fits, value)
  BY HoldsIs, Zenon DEF node
<1>. QED
  BY <1>6, <1>7, <1>8, <1>9, <1>10, <1>11, <1>12, Zenon

(* What fits with oneOf meant exactly fits with oneOf read as anyOf. *)
LEMMA ExactlyHolds ==
  ASSUME NEW doc, IsDocument(doc), NEW at \in Places(doc), Known(doc, doc.nodes[at]),
         NEW value \in Values, NEW exact, NEW fits,
         \A place \in Places(doc), piece \in Values : exact[place][piece] => fits[place][piece],
         Holds(doc, TRUE, TRUE, exact, at, value)
  PROVE  Holds(doc, TRUE, FALSE, fits, at, value)
<1>. DEFINE node == doc.nodes[at]
<1>3. /\ \A k \in DOMAIN node.fields : node.fields[k] \in Places(doc)
      /\ node.items \subseteq Places(doc) /\ node.any \subseteq Places(doc)
      /\ node.one \subseteq Places(doc)
      /\ node.ref = "" \/ doc.defs[node.ref] \in Places(doc)
  BY PartsArePlaces, Zenon
<1>4. /\ \A k \in DOMAIN value.fields : value.fields[k] \in Values
      /\ \A i \in DOMAIN value.elems : value.elems[i] \in Values
  BY PiecesAreValues
<1>. HIDE DEF node
<1>5. /\ KindFits(node, value) /\ RefFits(doc, node, exact, value)
      /\ ObjectFits(node, TRUE, exact, value) /\ ArrayFits(node, exact, value)
      /\ AnyFits(node, exact, value) /\ OneFits(node, TRUE, exact, value)
  BY HoldsIs, Zenon DEF node
<1>6. RefFits(doc, node, fits, value)
  BY <1>3, <1>5 DEF RefFits
<1>7. ObjectFits(node, TRUE, fits, value)
  BY <1>3, <1>4, <1>5 DEF ObjectFits
<1>8. ArrayFits(node, fits, value)
  BY <1>3, <1>4, <1>5 DEF ArrayFits
<1>9. AnyFits(node, fits, value)
  BY <1>3, <1>5 DEF AnyFits
<1>10. OneFits(node, FALSE, fits, value)
  BY <1>3, <1>5 DEF OneFits
<1>. QED
  BY <1>5, <1>6, <1>7, <1>8, <1>9, <1>10, HoldsIs, Zenon DEF node

(* Look by look, the lowered schema means what the logical one means of    *)
(* complete values, with oneOf read as anyOf.                              *)
LEMMA LoweredMeans ==
  ASSUME NEW doc, IsDocument(doc), NEW schema, Lowers(schema, doc), NEW exactly,
         \A at \in Places(doc) : Supports(doc.nodes[at]) /\ Known(doc, doc.nodes[at])
  PROVE  \A n \in Nat : \A at \in Places(doc), value \in Values :
            Means(schema, FALSE, exactly, n, at, value) <=> Means(doc, TRUE, FALSE, n, at, value)
<1>. DEFINE low == Fitting(schema, FALSE, exactly)
<1>1. /\ Meanings(low, schema, FALSE, exactly)
      /\ \A n, at, value : Means(schema, FALSE, exactly, n, at, value) <=> low[n][at][value]
  BY FittingIs, Zenon
<1>. HIDE DEF low
<1>. DEFINE fits == Fitting(doc, TRUE, FALSE)
<1>2. /\ Meanings(fits, doc, TRUE, FALSE)
      /\ \A n, at, value : Means(doc, TRUE, FALSE, n, at, value) <=> fits[n][at][value]
  BY FittingIs, Zenon
<1>. HIDE DEF fits
<1>. DEFINE P == Places(doc)
            Alike(n) == \A at \in P, value \in Values : low[n][at][value] <=> fits[n][at][value]
            T == {n \in Nat : Alike(n)}
<1>3. P \subseteq Places(schema)
  BY DEF Lowers
<1>4. Alike(0)
  BY <1>1, <1>2, <1>3 DEF Meanings
<1>5. ASSUME NEW n \in Nat, Alike(n) PROVE Alike(n + 1)
  <2>1. SUFFICES ASSUME NEW at \in P, NEW value \in Values
                 PROVE  low[n + 1][at][value] <=> fits[n + 1][at][value]
    BY Zenon
  <2>2. low[n + 1][at][value] <=> Holds(schema, FALSE, exactly, low[n], at, value)
    BY <1>1, <1>3, Zenon DEF Meanings
  <2>3. fits[n + 1][at][value] <=> Holds(doc, TRUE, FALSE, fits[n], at, value)
    BY <1>2, Zenon DEF Meanings
  <2>4. Holds(schema, FALSE, exactly, low[n], at, value)
          <=> Holds(doc, TRUE, FALSE, fits[n], at, value)
    BY <1>5, LoweredHolds, Zenon
  <2>. QED
    BY <2>2, <2>3, <2>4, Zenon
<1>. HIDE DEF Alike
<1>6. 0 \in T /\ \A n \in Nat : n \in T => n + 1 \in T
  BY <1>4, <1>5
<1>. HIDE DEF T
<1>7. Nat \subseteq T
  BY <1>6, EveryNumber
<1>8. \A n \in Nat : Alike(n)
  BY <1>7 DEF T
<1>. QED
  BY <1>1, <1>2, <1>8, Zenon DEF Alike

(* What fits a oneOf exactly fits it as anyOf. *)
LEMMA ExactlyMeans ==
  ASSUME NEW doc, IsDocument(doc),
         \A at \in Places(doc) : Known(doc, doc.nodes[at])
  PROVE  \A n \in Nat : \A at \in Places(doc), value \in Values :
            Means(doc, TRUE, TRUE, n, at, value) => Means(doc, TRUE, FALSE, n, at, value)
<1>. DEFINE exact == Fitting(doc, TRUE, TRUE)
<1>1. /\ Meanings(exact, doc, TRUE, TRUE)
      /\ \A n, at, value : Means(doc, TRUE, TRUE, n, at, value) <=> exact[n][at][value]
  BY FittingIs, Zenon
<1>. HIDE DEF exact
<1>. DEFINE fits == Fitting(doc, TRUE, FALSE)
<1>2. /\ Meanings(fits, doc, TRUE, FALSE)
      /\ \A n, at, value : Means(doc, TRUE, FALSE, n, at, value) <=> fits[n][at][value]
  BY FittingIs, Zenon
<1>. HIDE DEF fits
<1>. DEFINE P == Places(doc)
            Alike(n) == \A at \in P, value \in Values : exact[n][at][value] => fits[n][at][value]
            T == {n \in Nat : Alike(n)}
<1>4. Alike(0)
  BY <1>1, Zenon DEF Meanings
<1>5. ASSUME NEW n \in Nat, Alike(n) PROVE Alike(n + 1)
  <2>1. SUFFICES ASSUME NEW at \in P, NEW value \in Values, exact[n + 1][at][value]
                 PROVE  fits[n + 1][at][value]
    BY Zenon
  <2>2. Holds(doc, TRUE, TRUE, exact[n], at, value)
    BY <1>1, <2>1, Zenon DEF Meanings
  <2>3. fits[n + 1][at][value] <=> Holds(doc, TRUE, FALSE, fits[n], at, value)
    BY <1>2, Zenon DEF Meanings
  <2>4. Holds(doc, TRUE, FALSE, fits[n], at, value)
    BY <1>5, <2>2, ExactlyHolds, Zenon
  <2>. QED
    BY <2>3, <2>4, Zenon
<1>. HIDE DEF Alike
<1>6. 0 \in T /\ \A n \in Nat : n \in T => n + 1 \in T
  BY <1>4, <1>5
<1>. HIDE DEF T
<1>7. Nat \subseteq T
  BY <1>6, EveryNumber
<1>8. \A n \in Nat : Alike(n)
  BY <1>7 DEF T
<1>. QED
  BY <1>1, <1>2, <1>8, Zenon DEF Alike

(* The lowered contract has the lowered nodes, *)
LEMMA LoweredLowers ==
  ASSUME NEW doc, IsDocument(doc)
  PROVE  Lowers(Lowered(doc), doc)
<1>1. /\ Lowered(doc).defs = doc.defs /\ Places(Lowered(doc)) = Places(doc)
      /\ \A at \in Places(doc) : Lowered(doc).nodes[at] = LoweredNode(doc.nodes[at])
  BY LoweredKeeps
<1>. QED
  BY <1>1 DEF Lowers

(* and so has the published schema. *)
LEMMA WireLowers ==
  ASSUME NEW doc, IsDocument(doc)
  PROVE  Lowers(Wire(doc), doc)
<1>. DEFINE n == Len(doc.nodes)
            wire == Wire(doc)
<1>1. Encloses(wire, n, Lowered(doc))
  BY WireLeads
<1>2. Lowers(Lowered(doc), doc)
  BY LoweredLowers
<1>3. Places(doc) = 1..n
  BY DEF Places
<1>. HIDE DEF n, wire
<1>4. /\ n \in Nat \ {0} /\ wire.defs = Lowered(doc).defs /\ Places(wire) = 1..(n + 9)
      /\ \A at \in 1..n : wire.nodes[at] = Lowered(doc).nodes[at]
  BY <1>1, Zenon DEF Encloses
<1>5. Places(doc) \subseteq Places(wire)
  BY <1>3, <1>4
<1>6. Lowers(wire, doc)
  BY <1>2, <1>3, <1>4, <1>5 DEF Lowers
<1>. QED
  BY <1>6 DEF wire

(* What the audit asks of one node. *)
AuditedNode(node) ==
  /\ "map" \notin node.has
  /\ IsObject(node) => /\ {"properties", "closed"} \subseteq node.has
                       /\ node.required = DOMAIN node.fields

(* The objects of the envelope pass, *)
LEMMA StrictIsAudited ==
  ASSUME NEW fields
  PROVE  /\ AuditedNode(Strict(fields)) /\ Strict(fields).types = {"object"}
         /\ Strict(fields).any = {} /\ Strict(fields).one = {}
<1>1. /\ Strict(fields).has = {"properties", "required", "closed"}
      /\ Strict(fields).required = DOMAIN fields /\ Strict(fields).fields = fields
      /\ Strict(fields).types = {"object"} /\ Strict(fields).any = {} /\ Strict(fields).one = {}
  BY DEF Strict, Anything
<1>. QED
  BY <1>1 DEF AuditedNode

(* so do its other nodes, *)
LEMMA OthersAreAudited ==
  /\ \A places : AuditedNode(Either(places))
  /\ AuditedNode([Typed({"string"}) EXCEPT !.texts = {"call_tool", "finish"}])
  /\ AuditedNode(Typed({"string", "null"})) /\ AuditedNode(Typed({"string"}))
  /\ AuditedNode(Typed({"null"}))
<1>1. ASSUME NEW places PROVE AuditedNode(Either(places))
  BY DEF Either, Anything, AuditedNode, IsObject
<1>2. ASSUME NEW types, "object" \notin types PROVE AuditedNode(Typed(types))
  BY <1>2 DEF Typed, Anything, AuditedNode, IsObject
<1>3. ASSUME NEW types, "object" \notin types, NEW texts
      PROVE  AuditedNode([Typed(types) EXCEPT !.texts = texts])
  BY <1>3 DEF Typed, Anything, AuditedNode, IsObject
<1>4. "object" \notin {"string"} /\ "object" \notin {"string", "null"} /\ "object" \notin {"null"}
  OBVIOUS
<1>5. AuditedNode([Typed({"string"}) EXCEPT !.texts = {"call_tool", "finish"}])
  BY <1>3, <1>4, Zenon
<1>6. /\ AuditedNode(Typed({"string", "null"})) /\ AuditedNode(Typed({"string"}))
      /\ AuditedNode(Typed({"null"}))
  BY <1>2, <1>4, Zenon
<1>. QED
  BY <1>1, <1>5, <1>6, Zenon

(* each in its place, *)
LEMMA EnvelopeIsAudited ==
  ASSUME NEW n, NEW result
  PROVE  /\ \A k \in 1..9 : AuditedNode(Envelope(n, result)[k])
         /\ Envelope(n, result)[1].types = {"object"} /\ Envelope(n, result)[1].any = {}
         /\ Envelope(n, result)[1].one = {}
<1>. DEFINE env == Envelope(n, result)
<1>0. /\ env[1] = Strict([type |-> n + 2, call_tool |-> n + 3, finish |-> n + 5])
      /\ env[2] = [Typed({"string"}) EXCEPT !.texts = {"call_tool", "finish"}]
      /\ env[3] = Either({n + 4, n + 9})
      /\ env[4] = Strict([tool_id |-> n + 8, arguments |-> n + 8])
      /\ env[5] = Either({n + 6, n + 9})
      /\ env[6] = Strict([reason |-> n + 7, result |-> result])
      /\ env[7] = Typed({"string", "null"})
      /\ env[8] = Typed({"string"})
      /\ env[9] = Typed({"null"})
  BY EnvelopeIs
<1>. HIDE DEF env
<1>1. /\ AuditedNode(env[1]) /\ env[1].types = {"object"} /\ env[1].any = {} /\ env[1].one = {}
  <2>. DEFINE fields == [type |-> n + 2, call_tool |-> n + 3, finish |-> n + 5]
  <2>1. env[1] = Strict(fields)
    BY <1>0
  <2>. HIDE DEF fields
  <2>. QED
    BY <2>1, StrictIsAudited
<1>2. AuditedNode(env[4])
  <2>. DEFINE fields == [tool_id |-> n + 8, arguments |-> n + 8]
  <2>1. env[4] = Strict(fields)
    BY <1>0
  <2>. HIDE DEF fields
  <2>. QED
    BY <2>1, StrictIsAudited
<1>3. AuditedNode(env[6])
  <2>. DEFINE fields == [reason |-> n + 7, result |-> result]
  <2>1. env[6] = Strict(fields)
    BY <1>0
  <2>. HIDE DEF fields
  <2>. QED
    BY <2>1, StrictIsAudited
<1>4. /\ AuditedNode(env[2]) /\ AuditedNode(env[3]) /\ AuditedNode(env[5]) /\ AuditedNode(env[7])
      /\ AuditedNode(env[8]) /\ AuditedNode(env[9])
  <2>1. env[2] = [Typed({"string"}) EXCEPT !.texts = {"call_tool", "finish"}]
    BY <1>0, Zenon
  <2>2. AuditedNode(env[2])
    BY <2>1, OthersAreAudited, Zenon
  <2>3. env[3] = Either({n + 4, n + 9}) /\ env[5] = Either({n + 6, n + 9})
    BY <1>0, Zenon
  <2>4. AuditedNode(env[3]) /\ AuditedNode(env[5])
    BY <2>3, OthersAreAudited, Zenon
  <2>5. env[7] = Typed({"string", "null"}) /\ env[8] = Typed({"string"}) /\ env[9] = Typed({"null"})
    BY <1>0, Zenon
  <2>6. AuditedNode(env[7]) /\ AuditedNode(env[8]) /\ AuditedNode(env[9])
    BY <2>5, OthersAreAudited, Zenon
  <2>. QED
    BY <2>2, <2>4, <2>6, Zenon
<1>5. ASSUME NEW k \in 1..9 PROVE AuditedNode(env[k])
  <2>1. k = 1 \/ k = 2 \/ k = 3 \/ k = 4 \/ k = 5 \/ k = 6 \/ k = 7 \/ k = 8 \/ k = 9
    OBVIOUS
  <2>. QED
    BY <2>1, <1>1, <1>2, <1>3, <1>4, Zenon
<1>. QED
  BY <1>1, <1>5 DEF env

(* and so does a supported node that is lowered. *)
LEMMA LoweredIsAudited ==
  ASSUME NEW node, DOMAIN node = DOMAIN Anything, Supports(node)
  PROVE  AuditedNode(LoweredNode(node))
<1>. DEFINE low == LoweredNode(node)
<1>1. /\ low.types = node.types /\ low.has = node.has /\ low.fields = node.fields
      /\ low.required = DOMAIN node.fields
  BY LoweredNodeIs
<1>. HIDE DEF low
<1>2. IsObject(low) <=> IsObject(node)
  BY <1>1 DEF IsObject
<1>3. node.has # {} => IsObject(node)
  BY DEF IsObject
<1>4. IsObject(node) => "map" \notin node.has /\ {"properties", "closed"} \subseteq node.has
  BY DEF Supports, Closed
<1>5. "map" \notin node.has
  BY <1>3, <1>4
<1>6. AuditedNode(low)
  BY <1>1, <1>2, <1>4, <1>5 DEF AuditedNode
<1>. QED
  BY <1>6 DEF low

(* The envelope uses none of the names the audit misreads. *)
LEMMA EnvelopeNames ==
  ASSUME NEW n, NEW result, NEW k \in 1..9
  PROVE  {"properties", "additionalProperties"} \cap DOMAIN Envelope(n, result)[k].fields = {}
<1>. DEFINE env == Envelope(n, result)
            Misleads(node) == {"properties", "additionalProperties"} \cap DOMAIN node.fields # {}
<1>0. /\ env[1] = Strict([type |-> n + 2, call_tool |-> n + 3, finish |-> n + 5])
      /\ env[2] = [Typed({"string"}) EXCEPT !.texts = {"call_tool", "finish"}]
      /\ env[3] = Either({n + 4, n + 9})
      /\ env[4] = Strict([tool_id |-> n + 8, arguments |-> n + 8])
      /\ env[5] = Either({n + 6, n + 9})
      /\ env[6] = Strict([reason |-> n + 7, result |-> result])
      /\ env[7] = Typed({"string", "null"})
      /\ env[8] = Typed({"string"})
      /\ env[9] = Typed({"null"})
  BY EnvelopeIs
<1>. HIDE DEF env
<1>1. \A fields : Strict(fields).fields = fields
  BY DEF Strict, Anything
<1>2. \A places : Either(places).fields = <<>>
  BY DEF Either, Anything
<1>3. \A types : Typed(types).fields = <<>>
  BY DEF Typed, Anything
<1>4. ~Misleads(env[1]) /\ ~Misleads(env[4]) /\ ~Misleads(env[6])
  BY <1>0, <1>1
<1>5. env[2].fields = <<>> /\ env[3].fields = <<>> /\ env[5].fields = <<>>
  <2>1. env[2].fields = <<>>
    BY <1>0 DEF Typed, Anything
  <2>. QED
    BY <1>0, <1>2, <2>1, Zenon
<1>6. env[7].fields = <<>> /\ env[8].fields = <<>> /\ env[9].fields = <<>>
  BY <1>0, <1>3, Zenon
<1>7. \A node : node.fields = <<>> => ~Misleads(node)
  OBVIOUS
<1>8. k = 1 \/ k = 2 \/ k = 3 \/ k = 4 \/ k = 5 \/ k = 6 \/ k = 7 \/ k = 8 \/ k = 9
  OBVIOUS
<1>. HIDE DEF Misleads
<1>9. ~Misleads(env[k])
  BY <1>4, <1>5, <1>6, <1>7, <1>8, Zenon
<1>. QED
  BY <1>9 DEF Misleads, env

(* The published schema passes the audit unless it uses a name the audit   *)
(* misreads (protocol.py:245-272).                                         *)
LEMMA WireIsAudited ==
  ASSUME NEW doc, IsDocument(doc), \A at \in Places(doc) : Supports(doc.nodes[at]),
         "properties" \notin Names(doc)
  PROVE  Audited(Wire(doc)) <=> "additionalProperties" \notin Names(doc)
<1>. DEFINE n == Len(doc.nodes)
            wire == Wire(doc)
            env == Envelope(n, 1)
<1>1. /\ n \in Nat \ {0} /\ wire.root = n + 1 /\ Places(wire) = 1..(n + 9) /\ Places(doc) = 1..n
      /\ \A at \in 1..n : wire.nodes[at] = Lowered(doc).nodes[at]
      /\ \A k \in 1..9 : wire.nodes[n + k] = env[k]
  BY WireIs
<1>2. /\ \A k \in 1..9 : AuditedNode(env[k])
      /\ \A k \in 1..9 : {"properties", "additionalProperties"} \cap DOMAIN env[k].fields = {}
  BY EnvelopeIsAudited, EnvelopeNames
<1>3. env[1].types = {"object"} /\ env[1].any = {} /\ env[1].one = {}
  BY EnvelopeIsAudited
<1>. HIDE DEF env, wire, n
<1>4. ASSUME NEW at \in 1..n PROVE AuditedNode(wire.nodes[at])
  <2>1. /\ DOMAIN doc.nodes[at] = DOMAIN Anything /\ Supports(doc.nodes[at])
        /\ Lowered(doc).nodes[at] = LoweredNode(doc.nodes[at])
    BY <1>1, LoweredKeeps
  <2>2. AuditedNode(LoweredNode(doc.nodes[at]))
    BY <2>1, LoweredIsAudited
  <2>. QED
    BY <1>1, <2>1, <2>2
<1>5. ASSUME NEW at \in (n + 1)..(n + 9) PROVE AuditedNode(wire.nodes[at])
  <2>1. at - n \in 1..9 /\ at = n + (at - n)
    BY <1>1
  <2>. QED
    BY <1>1, <1>2, <2>1
<1>6. \A at \in Places(wire) : AuditedNode(wire.nodes[at])
  BY <1>1, <1>4, <1>5
<1>7. wire.nodes[wire.root] = env[1]
  BY <1>1
<1>8. ASSUME NEW name \in {"properties", "additionalProperties"}
      PROVE  name \in Names(wire) <=> name \in Names(doc)
  <2>1. wire.defs = doc.defs
    BY DEF wire, Wire
  <2>2. ASSUME NEW at \in 1..n PROVE wire.nodes[at].fields = doc.nodes[at].fields
    <3>1. Lowered(doc).nodes[at] = LoweredNode(doc.nodes[at])
      BY <1>1, LoweredKeeps
    <3>2. LoweredNode(doc.nodes[at]).fields = doc.nodes[at].fields
      BY <1>1, LoweredKeeps, LoweredNodeIs
    <3>. QED
      BY <1>1, <3>1, <3>2
  <2>3. ASSUME NEW at \in (n + 1)..(n + 9) PROVE name \notin DOMAIN wire.nodes[at].fields
    <3>1. at - n \in 1..9 /\ at = n + (at - n)
      BY <1>1
    <3>. QED
      BY <1>1, <1>2, <3>1
  <2>4. name \in Names(doc)
          <=> name \in DOMAIN doc.defs \/ \E at \in 1..n : name \in DOMAIN doc.nodes[at].fields
    BY <1>1 DEF Names
  <2>5. name \in Names(wire)
          <=> name \in DOMAIN doc.defs
              \/ \E at \in 1..(n + 9) : name \in DOMAIN wire.nodes[at].fields
    BY <1>1, <2>1 DEF Names
  <2>6. 1..(n + 9) = (1..n) \cup ((n + 1)..(n + 9))
    BY <1>1
  <2>. QED
    BY <2>2, <2>3, <2>4, <2>5, <2>6
<1>9. Audited(wire) <=> {"properties", "additionalProperties"} \cap Names(wire) = {}
  BY <1>3, <1>6, <1>7, Zenon DEF Audited, AuditedNode
<1>10. Audited(wire) <=> "additionalProperties" \notin Names(doc)
  BY <1>8, <1>9
<1>. QED
  BY <1>10 DEF wire

(* Every contract that is accepted is representable, and published so that *)
(* nothing is lost.                                                        *)
LEMMA AcceptedIsRepresentable ==
  ASSUME NEW doc \in Contracts, Publishes(doc)
  PROVE  doc \in Representable
<1>1. IsDocument(doc)
  BY IsolatedAssumption
<1>2. Expressible(doc) /\ ~TooDeep(Lowered(doc), 1, EnvelopeDepth)
  BY <1>1, AcceptedIsExpressible
<1>3. Rooted(doc)
  BY <1>2 DEF Expressible
<1>4. ~TooDeep(Wire(doc), Wire(doc).root, 0)
  BY <1>1, <1>2, <1>3, WireIsShallow
<1>. QED
  BY <1>2, <1>4, Zenon DEF Representable

(* It is published so that nothing is lost. *)
LEMMA AcceptedIsFaithful ==
  ASSUME NEW doc \in Contracts, Publishes(doc)
  PROVE  doc \in Faithful
<1>1. IsDocument(doc)
  BY IsolatedAssumption
<1>2. doc \in Representable
  BY AcceptedIsRepresentable
<1>3. \A at \in Places(doc) : Supports(doc.nodes[at]) /\ Known(doc, doc.nodes[at])
  BY <1>1, AcceptedIsExpressible, Zenon DEF Expressible
<1>4. Unfoldings \in Nat /\ doc.root \in Places(doc)
  BY <1>1, DocumentShape, SchemaAssumption
<1>5. ASSUME NEW value \in Values
      PROVE  /\ Means(Lowered(doc), FALSE, TRUE, Unfoldings, doc.root, value)
                  <=> Means(doc, TRUE, FALSE, Unfoldings, doc.root, value)
             /\ Means(doc, TRUE, TRUE, Unfoldings, doc.root, value)
                  => Means(Lowered(doc), FALSE, TRUE, Unfoldings, doc.root, value)
  <2>1. Means(Lowered(doc), FALSE, TRUE, Unfoldings, doc.root, value)
          <=> Means(doc, TRUE, FALSE, Unfoldings, doc.root, value)
    BY <1>1, <1>3, <1>4, LoweredMeans, LoweredLowers, Zenon
  <2>2. Means(doc, TRUE, TRUE, Unfoldings, doc.root, value)
          => Means(doc, TRUE, FALSE, Unfoldings, doc.root, value)
    BY <1>1, <1>3, <1>4, ExactlyMeans, Zenon
  <2>. QED
    BY <2>1, <2>2, Zenon
<1>. QED
  BY <1>2, <1>5, Zenon DEF Faithful

(* The audit fails of the misread ones alone. *)
LEMMA AcceptedIsAudited ==
  ASSUME NEW doc \in Contracts, Publishes(doc)
  PROVE  Audited(Wire(doc)) <=> doc \notin Misread
<1>1. IsDocument(doc)
  BY IsolatedAssumption
<1>2. /\ \A at \in Places(doc) : Supports(doc.nodes[at])
      /\ "properties" \notin Names(doc)
  BY <1>1, AcceptedIsExpressible, Zenon DEF Expressible
<1>. QED
  BY <1>1, <1>2, WireIsAudited DEF Misread

(* Every contract that is refused has a flaw. *)
LEMMA RefusedIsFlawed ==
  ASSUME NEW doc \in Contracts, ~Publishes(doc)
  PROVE  doc \in Excessive
<1>1. IsDocument(doc)
  BY IsolatedAssumption
<1>. QED
  BY <1>1, RefusedIsExcessive, Zenon DEF Excessive

-----------------------------------------------------------------------------
(* What the published schema admits.                                       *)

(* An object of the envelope admits what has exactly its fields. *)
LEMMA StrictHolds ==
  ASSUME NEW doc, NEW at, NEW fields, doc.nodes[at] = Strict(fields), NEW fits, NEW value
  PROVE  Holds(doc, FALSE, FALSE, fits, at, value)
         <=> /\ value.kind = "object" /\ DOMAIN value.fields = DOMAIN fields
             /\ \A k \in DOMAIN fields : fits[fields[k]][value.fields[k]]
<1>. DEFINE node == Strict(fields)
<1>1. /\ IsObject(node) /\ node.ref = "" /\ node.fields = fields
      /\ node.required = DOMAIN fields /\ node.types = {"object"}
      /\ node.any = {} /\ node.one = {} /\ node.items = {} /\ node.texts = {}
  BY DEF Strict, Anything, IsObject
<1>. HIDE DEF node
<1>2. KindFits(node, value) <=> value.kind = "object"
  BY <1>1 DEF KindFits
<1>3. RefFits(doc, node, fits, value)
  BY <1>1 DEF RefFits
<1>4. ArrayFits(node, fits, value) /\ AnyFits(node, fits, value) /\ OneFits(node, FALSE, fits, value)
  BY <1>1 DEF ArrayFits, AnyFits, OneFits
<1>5. ASSUME value.kind = "object"
      PROVE  ObjectFits(node, FALSE, fits, value)
             <=> /\ DOMAIN value.fields = DOMAIN fields
                 /\ \A k \in DOMAIN fields : fits[fields[k]][value.fields[k]]
  <2>1. ObjectFits(node, FALSE, fits, value)
        <=> /\ DOMAIN value.fields \subseteq DOMAIN fields /\ DOMAIN fields \subseteq DOMAIN value.fields
            /\ \A k \in DOMAIN value.fields : fits[fields[k]][value.fields[k]]
    BY <1>1, <1>5 DEF ObjectFits
  <2>2. (DOMAIN value.fields \subseteq DOMAIN fields /\ DOMAIN fields \subseteq DOMAIN value.fields)
        <=> DOMAIN value.fields = DOMAIN fields
    BY Zenon
  <2>. QED
    BY <2>1, <2>2, Zenon
<1>6. Holds(doc, FALSE, FALSE, fits, at, value)
      <=> /\ KindFits(node, value) /\ RefFits(doc, node, fits, value)
          /\ ObjectFits(node, FALSE, fits, value)
          /\ ArrayFits(node, fits, value) /\ AnyFits(node, fits, value)
          /\ OneFits(node, FALSE, fits, value)
  BY HoldsIs, Zenon DEF node
<1>. QED
  BY <1>2, <1>3, <1>4, <1>5, <1>6, Zenon

(* A union admits what one of its members admits. *)
LEMMA EitherHolds ==
  ASSUME NEW doc, NEW at, NEW places, places # {}, doc.nodes[at] = Either(places), NEW fits, NEW value
  PROVE  Holds(doc, FALSE, FALSE, fits, at, value) <=> \E place \in places : fits[place][value]
<1>. DEFINE node == Either(places)
<1>1. /\ ~IsObject(node) /\ node.ref = "" /\ node.types = {} /\ node.texts = {}
      /\ node.any = places /\ node.one = {} /\ node.items = {}
  BY EitherIs
<1>. HIDE DEF node
<1>2. KindFits(node, value)
  BY <1>1 DEF KindFits
<1>3. RefFits(doc, node, fits, value) /\ ObjectFits(node, FALSE, fits, value)
  BY <1>1 DEF RefFits, ObjectFits
<1>4. ArrayFits(node, fits, value) /\ OneFits(node, FALSE, fits, value)
  BY <1>1 DEF ArrayFits, OneFits
<1>5. AnyFits(node, fits, value) <=> \E place \in places : fits[place][value]
  BY <1>1 DEF AnyFits
<1>6. Holds(doc, FALSE, FALSE, fits, at, value)
      <=> /\ KindFits(node, value) /\ RefFits(doc, node, fits, value)
          /\ ObjectFits(node, FALSE, fits, value)
          /\ ArrayFits(node, fits, value) /\ AnyFits(node, fits, value)
          /\ OneFits(node, FALSE, fits, value)
  BY HoldsIs, Zenon DEF node
<1>. QED
  BY <1>2, <1>3, <1>4, <1>5, <1>6, Zenon

(* A node of some types and of some texts. *)
Choice(types, texts) == [Typed(types) EXCEPT !.texts = texts]

(* Such a node admits these texts, *)
LEMMA ChoiceHolds ==
  ASSUME NEW doc, NEW at, NEW texts, texts # {}, doc.nodes[at] = Choice({"string"}, texts),
         NEW fits, NEW value
  PROVE  Holds(doc, FALSE, FALSE, fits, at, value) <=> value.kind = "string" /\ value.text \in texts
<1>. DEFINE node == Choice({"string"}, texts)
<1>1. /\ ~IsObject(node) /\ node.ref = "" /\ node.types = {"string"} /\ node.texts = texts
      /\ node.any = {} /\ node.one = {} /\ node.items = {}
  BY DEF Choice, Typed, Anything, IsObject
<1>. HIDE DEF node
<1>2. KindFits(node, value) <=> value.kind = "string" /\ value.text \in texts
  BY <1>1 DEF KindFits
<1>3. RefFits(doc, node, fits, value) /\ ObjectFits(node, FALSE, fits, value)
  BY <1>1 DEF RefFits, ObjectFits
<1>4. /\ ArrayFits(node, fits, value) /\ AnyFits(node, fits, value)
      /\ OneFits(node, FALSE, fits, value)
  BY <1>1 DEF ArrayFits, AnyFits, OneFits
<1>6. Holds(doc, FALSE, FALSE, fits, at, value)
      <=> /\ KindFits(node, value) /\ RefFits(doc, node, fits, value)
          /\ ObjectFits(node, FALSE, fits, value)
          /\ ArrayFits(node, fits, value) /\ AnyFits(node, fits, value)
          /\ OneFits(node, FALSE, fits, value)
  BY HoldsIs, Zenon DEF node
<1>. QED
  BY <1>2, <1>3, <1>4, <1>6, Zenon

(* and one that has only types these kinds. *)
LEMMA TypedHolds ==
  ASSUME NEW doc, NEW at, NEW types, types # {}, "object" \notin types,
         doc.nodes[at] = Typed(types), NEW fits, NEW value
  PROVE  Holds(doc, FALSE, FALSE, fits, at, value) <=> value.kind \in types
<1>. DEFINE node == Typed(types)
<1>1. /\ ~IsObject(node) /\ node.ref = "" /\ node.types = types /\ node.texts = {}
      /\ node.any = {} /\ node.one = {} /\ node.items = {}
  BY TypedIs
<1>. HIDE DEF node
<1>2. KindFits(node, value) <=> value.kind \in types
  BY <1>1 DEF KindFits
<1>3. RefFits(doc, node, fits, value) /\ ObjectFits(node, FALSE, fits, value)
  BY <1>1 DEF RefFits, ObjectFits
<1>4. /\ ArrayFits(node, fits, value) /\ AnyFits(node, fits, value)
      /\ OneFits(node, FALSE, fits, value)
  BY <1>1 DEF ArrayFits, AnyFits, OneFits
<1>6. Holds(doc, FALSE, FALSE, fits, at, value)
      <=> /\ KindFits(node, value) /\ RefFits(doc, node, fits, value)
          /\ ObjectFits(node, FALSE, fits, value)
          /\ ArrayFits(node, fits, value) /\ AnyFits(node, fits, value)
          /\ OneFits(node, FALSE, fits, value)
  BY HoldsIs, Zenon DEF node
<1>. QED
  BY <1>2, <1>3, <1>4, <1>6, Zenon

(* What the envelope asks of a value, branch by branch. *)
AdmitsCall(value) ==
  /\ value.kind = "object" /\ DOMAIN value.fields = {"tool_id", "arguments"}
  /\ value.fields["tool_id"].kind = "string" /\ value.fields["arguments"].kind = "string"

(* A finish with a complete result, *)
AdmitsFinish(doc, value) ==
  /\ value.kind = "object" /\ DOMAIN value.fields = {"reason", "result"}
  /\ value.fields["reason"].kind \in {"string", "null"} /\ Complete(doc, value.fields["result"])

(* the name of a branch *)
AdmitsType(value) == value.kind = "string" /\ value.text \in {"call_tool", "finish"}

(* and the whole step: each branch is given or null. *)
AdmitsStep(doc, value) ==
  /\ value.kind = "object" /\ DOMAIN value.fields = {"type", "call_tool", "finish"}
  /\ AdmitsType(value.fields["type"])
  /\ AdmitsCall(value.fields["call_tool"]) \/ value.fields["call_tool"].kind = "null"
  /\ AdmitsFinish(doc, value.fields["finish"]) \/ value.fields["finish"].kind = "null"

(* The nodes of the envelope, one by one. *)
EnvelopeNodes(env, n, result) ==
  /\ env[1] = Strict([type |-> n + 2, call_tool |-> n + 3, finish |-> n + 5])
  /\ env[2] = [Typed({"string"}) EXCEPT !.texts = {"call_tool", "finish"}]
  /\ env[3] = Either({n + 4, n + 9})
  /\ env[4] = Strict([tool_id |-> n + 8, arguments |-> n + 8])
  /\ env[5] = Either({n + 6, n + 9})
  /\ env[6] = Strict([reason |-> n + 7, result |-> result])
  /\ env[7] = Typed({"string", "null"})
  /\ env[8] = Typed({"string"})
  /\ env[9] = Typed({"null"})

(* Envelope is this sequence. *)
LEMMA EnvelopeHasNodes ==
  ASSUME NEW n, NEW result
  PROVE  EnvelopeNodes(Envelope(n, result), n, result)
  BY DEF Envelope, EnvelopeNodes

(* A contract, its size, its published schema with the envelope, and what  *)
(* fits that by the number of looks.                                       *)
Publication(doc, n, wire, env, fits) ==
  /\ IsDocument(doc) /\ n = Len(doc.nodes) /\ wire = Wire(doc) /\ env = Envelope(n, 1)
  /\ fits = Fitting(wire, FALSE, FALSE)

(* A look at a place of the envelope. *)
Look(wire, fits, looks, at, value) ==
  fits[looks + 1][at][value] <=> Holds(wire, FALSE, FALSE, fits[looks], at, value)

(* Every place of the envelope is looked at. *)
LEMMA WireLooks ==
  ASSUME NEW doc, NEW n, NEW wire, NEW env, NEW fits, Publication(doc, n, wire, env, fits),
         NEW k \in 1..9, NEW looks \in Nat, NEW value \in Values
  PROVE  wire.nodes[n + k] = env[k] /\ Look(wire, fits, looks, n + k, value)
<1>1. /\ n \in Nat /\ Places(wire) = 1..(n + 9) /\ wire.nodes[n + k] = env[k]
  BY WireIs DEF Publication
<1>2. n + k \in Places(wire)
  BY <1>1
<1>3. Meanings(fits, wire, FALSE, FALSE)
  BY FittingIs DEF Publication
<1>4. Look(wire, fits, looks, n + k, value)
  BY <1>2, <1>3, Zenon DEF Meanings, Look
<1>. QED
  BY <1>1, <1>4

(* What the leaves of the envelope admit. *)
LEMMA LeavesAdmit ==
  ASSUME NEW doc, NEW n, NEW wire, NEW env, NEW fits, Publication(doc, n, wire, env, fits),
         NEW looks \in Nat, NEW value \in Values
  PROVE  /\ fits[looks + 1][n + 2][value] <=> AdmitsType(value)
         /\ fits[looks + 1][n + 7][value] <=> value.kind \in {"string", "null"}
         /\ fits[looks + 1][n + 8][value] <=> value.kind = "string"
         /\ fits[looks + 1][n + 9][value] <=> value.kind = "null"
<1>1. \A k \in 1..9 : wire.nodes[n + k] = env[k] /\ Look(wire, fits, looks, n + k, value)
  BY WireLooks, Zenon
<1>2. EnvelopeNodes(env, n, 1)
  BY EnvelopeHasNodes, Zenon DEF Publication
<1>20. /\ env[2] = [Typed({"string"}) EXCEPT !.texts = {"call_tool", "finish"}]
       /\ env[7] = Typed({"string", "null"}) /\ env[8] = Typed({"string"})
       /\ env[9] = Typed({"null"})
  BY <1>2, Zenon DEF EnvelopeNodes
<1>3. 2 \in 1..9 /\ 7 \in 1..9 /\ 8 \in 1..9 /\ 9 \in 1..9
  OBVIOUS
<1>4. "object" \notin {"string"} /\ "object" \notin {"string", "null"} /\ "object" \notin {"null"}
  OBVIOUS
<1>5. fits[looks + 1][n + 2][value] <=> AdmitsType(value)
  <2>. DEFINE texts == {"call_tool", "finish"}
  <2>1. wire.nodes[n + 2] = Choice({"string"}, texts)
    BY <1>1, <1>20, <1>3, Zenon DEF Choice
  <2>2. texts # {}
    OBVIOUS
  <2>3. AdmitsType(value) <=> value.kind = "string" /\ value.text \in texts
    BY Zenon DEF AdmitsType
  <2>. HIDE DEF texts
  <2>4. Holds(wire, FALSE, FALSE, fits[looks], n + 2, value)
          <=> value.kind = "string" /\ value.text \in texts
    BY <2>1, <2>2, ChoiceHolds, Zenon
  <2>. QED
    BY <1>1, <1>3, <2>3, <2>4, Zenon DEF Look
<1>6. fits[looks + 1][n + 7][value] <=> value.kind \in {"string", "null"}
  <2>. DEFINE types == {"string", "null"}
  <2>1. types # {} /\ "object" \notin types /\ wire.nodes[n + 7] = Typed(types)
    BY <1>1, <1>20, <1>3, <1>4, Zenon
  <2>. HIDE DEF types
  <2>2. Holds(wire, FALSE, FALSE, fits[looks], n + 7, value) <=> value.kind \in types
    BY <2>1, TypedHolds, Zenon
  <2>. QED
    BY <1>1, <1>3, <2>2, Zenon DEF types, Look
<1>7. fits[looks + 1][n + 8][value] <=> value.kind = "string"
  <2>. DEFINE types == {"string"}
  <2>1. types # {} /\ "object" \notin types /\ wire.nodes[n + 8] = Typed(types)
    BY <1>1, <1>20, <1>3, <1>4, Zenon
  <2>2. value.kind \in types <=> value.kind = "string"
    OBVIOUS
  <2>. HIDE DEF types
  <2>3. Holds(wire, FALSE, FALSE, fits[looks], n + 8, value) <=> value.kind \in types
    BY <2>1, TypedHolds, Zenon
  <2>. QED
    BY <1>1, <1>3, <2>2, <2>3, Zenon DEF Look
<1>8. fits[looks + 1][n + 9][value] <=> value.kind = "null"
  <2>. DEFINE types == {"null"}
  <2>1. types # {} /\ "object" \notin types /\ wire.nodes[n + 9] = Typed(types)
    BY <1>1, <1>20, <1>3, <1>4, Zenon
  <2>2. value.kind \in types <=> value.kind = "null"
    OBVIOUS
  <2>. HIDE DEF types
  <2>3. Holds(wire, FALSE, FALSE, fits[looks], n + 9, value) <=> value.kind \in types
    BY <2>1, TypedHolds, Zenon
  <2>. QED
    BY <1>1, <1>3, <2>2, <2>3, Zenon DEF Look
<1>. QED
  BY <1>5, <1>6, <1>7, <1>8, Zenon

(* What an object of the envelope admits, one look deeper. *)
LEMMA ObjectsAdmit ==
  ASSUME NEW doc, NEW n, NEW wire, NEW env, NEW fits, Publication(doc, n, wire, env, fits),
         NEW looks \in Nat, NEW value \in Values, NEW k \in 1..9, NEW fields, env[k] = Strict(fields)
  PROVE  fits[looks + 1][n + k][value]
         <=> /\ value.kind = "object" /\ DOMAIN value.fields = DOMAIN fields
             /\ \A f \in DOMAIN fields : fits[looks][fields[f]][value.fields[f]]
<1>1. wire.nodes[n + k] = env[k] /\ Look(wire, fits, looks, n + k, value)
  BY WireLooks, Zenon
<1>2. wire.nodes[n + k] = Strict(fields)
  BY <1>1
<1>3. Holds(wire, FALSE, FALSE, fits[looks], n + k, value)
         <=> /\ value.kind = "object" /\ DOMAIN value.fields = DOMAIN fields
             /\ \A f \in DOMAIN fields : fits[looks][fields[f]][value.fields[f]]
  BY <1>2, StrictHolds, Zenon
<1>. QED
  BY <1>1, <1>3, Zenon DEF Look

(* One of the places a choice names fits. *)
OneFitsOf(fits, looks, places, value) == \E place \in places : fits[looks][place][value]

(* What its unions admit, one look deeper. *)
LEMMA ChoicesAdmit ==
  ASSUME NEW doc, NEW n, NEW wire, NEW env, NEW fits, Publication(doc, n, wire, env, fits),
         NEW looks \in Nat, NEW value \in Values, NEW k \in 1..9, NEW places, places # {},
         env[k] = Either(places)
  PROVE  fits[looks + 1][n + k][value] <=> OneFitsOf(fits, looks, places, value)
<1>1. wire.nodes[n + k] = env[k] /\ Look(wire, fits, looks, n + k, value)
  BY WireLooks, Zenon
<1>2. wire.nodes[n + k] = Either(places)
  BY <1>1
<1>3. Holds(wire, FALSE, FALSE, fits[looks], n + k, value)
         <=> \E place \in places : fits[looks][place][value]
  BY <1>2, EitherHolds, Zenon
<1>. QED
  BY <1>1, <1>3, Zenon DEF Look, OneFitsOf

(* The tool call's node admits tool calls. *)
LEMMA CallAdmits ==
  ASSUME NEW doc, NEW n, NEW wire, NEW env, NEW fits, Publication(doc, n, wire, env, fits),
         NEW looks \in Nat, NEW value \in Values
  PROVE  fits[looks + 2][n + 4][value] <=> AdmitsCall(value)
<1>. DEFINE fields == [tool_id |-> n + 8, arguments |-> n + 8]
<1>1. env[4] = Strict(fields)
  BY EnvelopeHasNodes, Zenon DEF Publication, EnvelopeNodes
<1>2. DOMAIN fields = {"tool_id", "arguments"}
  OBVIOUS
<1>3. \A f \in DOMAIN fields : fields[f] = n + 8
  OBVIOUS
<1>. HIDE DEF fields
<1>4. looks + 1 \in Nat /\ (looks + 1) + 1 = looks + 2 /\ 4 \in 1..9
  OBVIOUS
<1>5. fits[(looks + 1) + 1][n + 4][value]
         <=> /\ value.kind = "object" /\ DOMAIN value.fields = DOMAIN fields
             /\ \A f \in DOMAIN fields : fits[looks + 1][fields[f]][value.fields[f]]
  <2>. DEFINE more == looks + 1
              spot == 4
  <2>1. more \in Nat /\ spot \in 1..9 /\ env[spot] = Strict(fields)
    BY <1>1, <1>4, Zenon
  <2>. HIDE DEF more, spot
  <2>2. fits[more + 1][n + spot][value]
         <=> /\ value.kind = "object" /\ DOMAIN value.fields = DOMAIN fields
             /\ \A f \in DOMAIN fields : fits[more][fields[f]][value.fields[f]]
    BY <2>1, ObjectsAdmit, Zenon
  <2>. QED
    BY <2>2, Zenon DEF more, spot
<1>6. ASSUME DOMAIN value.fields = DOMAIN fields
      PROVE  \A f \in DOMAIN fields :
                fits[looks + 1][fields[f]][value.fields[f]] <=> value.fields[f].kind = "string"
  <2>1. SUFFICES ASSUME NEW f \in DOMAIN fields
                 PROVE  fits[looks + 1][fields[f]][value.fields[f]] <=> value.fields[f].kind = "string"
    BY Zenon
  <2>2. value.fields[f] \in Values
    BY <1>6, PiecesAreValues, Zenon
  <2>3. fits[looks + 1][n + 8][value.fields[f]] <=> value.fields[f].kind = "string"
    BY <2>2, LeavesAdmit, Zenon
  <2>. QED
    BY <1>3, <2>3, Zenon
<1>7. (\A f \in DOMAIN fields : value.fields[f].kind = "string")
      <=> value.fields["tool_id"].kind = "string" /\ value.fields["arguments"].kind = "string"
  BY <1>2
<1>8. fits[(looks + 1) + 1][n + 4][value] <=> AdmitsCall(value)
  BY <1>2, <1>5, <1>6, <1>7, Zenon DEF AdmitsCall
<1>. QED
  BY <1>4, <1>8

(* The finish node admits a finish whose result fits the contract's place. *)
LEMMA FinishAdmits ==
  ASSUME NEW doc, NEW n, NEW wire, NEW env, NEW fits, Publication(doc, n, wire, env, fits),
         NEW looks \in Nat, NEW value \in Values
  PROVE  fits[looks + 2][n + 6][value]
         <=> /\ value.kind = "object" /\ DOMAIN value.fields = {"reason", "result"}
             /\ value.fields["reason"].kind \in {"string", "null"}
             /\ fits[looks + 1][1][value.fields["result"]]
<1>. DEFINE fields == [reason |-> n + 7, result |-> 1]
<1>1. env[6] = Strict(fields)
  BY EnvelopeHasNodes, Zenon DEF Publication, EnvelopeNodes
<1>2. DOMAIN fields = {"reason", "result"}
  OBVIOUS
<1>3. fields["reason"] = n + 7 /\ fields["result"] = 1
  OBVIOUS
<1>. HIDE DEF fields
<1>4. looks + 1 \in Nat /\ (looks + 1) + 1 = looks + 2 /\ 6 \in 1..9
  OBVIOUS
<1>5. fits[(looks + 1) + 1][n + 6][value]
         <=> /\ value.kind = "object" /\ DOMAIN value.fields = DOMAIN fields
             /\ \A f \in DOMAIN fields : fits[looks + 1][fields[f]][value.fields[f]]
  <2>. DEFINE more == looks + 1
              spot == 6
  <2>1. more \in Nat /\ spot \in 1..9 /\ env[spot] = Strict(fields)
    BY <1>1, <1>4, Zenon
  <2>. HIDE DEF more, spot
  <2>2. fits[more + 1][n + spot][value]
         <=> /\ value.kind = "object" /\ DOMAIN value.fields = DOMAIN fields
             /\ \A f \in DOMAIN fields : fits[more][fields[f]][value.fields[f]]
    BY <2>1, ObjectsAdmit, Zenon
  <2>. QED
    BY <2>2, Zenon DEF more, spot
<1>6. (\A f \in DOMAIN fields : fits[looks + 1][fields[f]][value.fields[f]])
      <=> /\ fits[looks + 1][n + 7][value.fields["reason"]]
          /\ fits[looks + 1][1][value.fields["result"]]
  BY <1>2, <1>3
<1>7. ASSUME DOMAIN value.fields = {"reason", "result"}
      PROVE  fits[looks + 1][n + 7][value.fields["reason"]]
             <=> value.fields["reason"].kind \in {"string", "null"}
  <2>1. value.fields["reason"] \in Values
    BY <1>7, PiecesAreValues
  <2>. QED
    BY <2>1, LeavesAdmit, Zenon
<1>8. fits[(looks + 1) + 1][n + 6][value]
      <=> /\ value.kind = "object" /\ DOMAIN value.fields = {"reason", "result"}
          /\ value.fields["reason"].kind \in {"string", "null"}
          /\ fits[looks + 1][1][value.fields["result"]]
  BY <1>2, <1>5, <1>6, <1>7, Zenon
<1>. QED
  BY <1>4, <1>8

(* The two branches of a step may be null. *)
LEMMA BranchesAdmit ==
  ASSUME NEW doc, NEW n, NEW wire, NEW env, NEW fits, Publication(doc, n, wire, env, fits),
         NEW looks \in Nat, NEW value \in Values
  PROVE  /\ fits[looks + 3][n + 3][value] <=> AdmitsCall(value) \/ value.kind = "null"
         /\ fits[looks + 3][n + 5][value]
              <=> fits[looks + 2][n + 6][value] \/ value.kind = "null"
<1>1. env[3] = Either({n + 4, n + 9}) /\ env[5] = Either({n + 6, n + 9})
  BY EnvelopeHasNodes, Zenon DEF Publication, EnvelopeNodes
<1>2. looks + 1 \in Nat /\ looks + 2 \in Nat /\ (looks + 2) + 1 = looks + 3
      /\ (looks + 1) + 1 = looks + 2 /\ 3 \in 1..9 /\ 5 \in 1..9
  OBVIOUS
<1>3. fits[(looks + 2) + 1][n + 3][value]
      <=> fits[looks + 2][n + 4][value] \/ fits[looks + 2][n + 9][value]
  <2>. DEFINE places == {n + 4, n + 9}
  <2>1. places # {} /\ env[3] = Either(places)
    BY <1>1, Zenon
  <2>2. OneFitsOf(fits, looks + 2, places, value)
        <=> fits[looks + 2][n + 4][value] \/ fits[looks + 2][n + 9][value]
    BY Zenon DEF OneFitsOf
  <2>. HIDE DEF places
  <2>3. fits[(looks + 2) + 1][n + 3][value] <=> OneFitsOf(fits, looks + 2, places, value)
    <3>. DEFINE more == looks + 2
                spot == 3
    <3>1. more \in Nat /\ spot \in 1..9 /\ env[spot] = Either(places)
      BY <1>2, <2>1, Zenon
    <3>. HIDE DEF more, spot
    <3>2. fits[more + 1][n + spot][value] <=> OneFitsOf(fits, more, places, value)
      BY <2>1, <3>1, ChoicesAdmit, Zenon
    <3>. QED
      BY <3>2, Zenon DEF more, spot
  <2>. QED
    BY <2>2, <2>3, Zenon
<1>4. fits[(looks + 2) + 1][n + 5][value]
      <=> fits[looks + 2][n + 6][value] \/ fits[looks + 2][n + 9][value]
  <2>. DEFINE places == {n + 6, n + 9}
  <2>1. places # {} /\ env[5] = Either(places)
    BY <1>1, Zenon
  <2>2. OneFitsOf(fits, looks + 2, places, value)
        <=> fits[looks + 2][n + 6][value] \/ fits[looks + 2][n + 9][value]
    BY Zenon DEF OneFitsOf
  <2>. HIDE DEF places
  <2>3. fits[(looks + 2) + 1][n + 5][value] <=> OneFitsOf(fits, looks + 2, places, value)
    <3>. DEFINE more == looks + 2
                spot == 5
    <3>1. more \in Nat /\ spot \in 1..9 /\ env[spot] = Either(places)
      BY <1>2, <2>1, Zenon
    <3>. HIDE DEF more, spot
    <3>2. fits[more + 1][n + spot][value] <=> OneFitsOf(fits, more, places, value)
      BY <2>1, <3>1, ChoicesAdmit, Zenon
    <3>. QED
      BY <3>2, Zenon DEF more, spot
  <2>. QED
    BY <2>2, <2>3, Zenon
<1>5. fits[looks + 2][n + 9][value] <=> value.kind = "null"
  <2>1. fits[(looks + 1) + 1][n + 9][value] <=> value.kind = "null"
    BY <1>2, LeavesAdmit, Zenon
  <2>. QED
    BY <1>2, <2>1
<1>6. fits[looks + 2][n + 4][value] <=> AdmitsCall(value)
  BY CallAdmits, Zenon
<1>7. fits[(looks + 2) + 1] = fits[looks + 3]
  BY <1>2
<1>. QED
  BY <1>3, <1>4, <1>5, <1>6, <1>7, Zenon

(* The root asks for all three fields. *)
LEMMA RootAdmits ==
  ASSUME NEW doc, NEW n, NEW wire, NEW env, NEW fits, Publication(doc, n, wire, env, fits),
         NEW looks \in Nat, NEW value \in Values
  PROVE  fits[looks + 4][n + 1][value]
         <=> /\ value.kind = "object" /\ DOMAIN value.fields = {"type", "call_tool", "finish"}
             /\ AdmitsType(value.fields["type"])
             /\ fits[looks + 3][n + 3][value.fields["call_tool"]]
             /\ fits[looks + 3][n + 5][value.fields["finish"]]
<1>. DEFINE fields == [type |-> n + 2, call_tool |-> n + 3, finish |-> n + 5]
<1>1. env[1] = Strict(fields)
  BY EnvelopeHasNodes, Zenon DEF Publication, EnvelopeNodes
<1>2. DOMAIN fields = {"type", "call_tool", "finish"}
  OBVIOUS
<1>3. fields["type"] = n + 2 /\ fields["call_tool"] = n + 3 /\ fields["finish"] = n + 5
  OBVIOUS
<1>. HIDE DEF fields
<1>4. looks + 3 \in Nat /\ (looks + 3) + 1 = looks + 4 /\ 1 \in 1..9
      /\ looks + 2 \in Nat /\ (looks + 2) + 1 = looks + 3
  OBVIOUS
<1>5. fits[(looks + 3) + 1][n + 1][value]
         <=> /\ value.kind = "object" /\ DOMAIN value.fields = DOMAIN fields
             /\ \A f \in DOMAIN fields : fits[looks + 3][fields[f]][value.fields[f]]
  <2>. DEFINE more == looks + 3
              spot == 1
  <2>1. more \in Nat /\ spot \in 1..9 /\ env[spot] = Strict(fields)
    BY <1>1, <1>4, Zenon
  <2>. HIDE DEF more, spot
  <2>2. fits[more + 1][n + spot][value]
         <=> /\ value.kind = "object" /\ DOMAIN value.fields = DOMAIN fields
             /\ \A f \in DOMAIN fields : fits[more][fields[f]][value.fields[f]]
    BY <2>1, ObjectsAdmit, Zenon
  <2>. QED
    BY <2>2, Zenon DEF more, spot
<1>6. (\A f \in DOMAIN fields : fits[looks + 3][fields[f]][value.fields[f]])
      <=> /\ fits[looks + 3][n + 2][value.fields["type"]]
          /\ fits[looks + 3][n + 3][value.fields["call_tool"]]
          /\ fits[looks + 3][n + 5][value.fields["finish"]]
  BY <1>2, <1>3
<1>7. ASSUME DOMAIN value.fields = {"type", "call_tool", "finish"}
      PROVE  fits[looks + 3][n + 2][value.fields["type"]] <=> AdmitsType(value.fields["type"])
  <2>1. value.fields["type"] \in Values
    BY <1>7, PiecesAreValues
  <2>2. fits[(looks + 2) + 1][n + 2][value.fields["type"]] <=> AdmitsType(value.fields["type"])
    BY <1>4, <2>1, LeavesAdmit, Zenon
  <2>. QED
    BY <1>4, <2>2
<1>8. fits[(looks + 3) + 1][n + 1][value]
         <=> /\ value.kind = "object" /\ DOMAIN value.fields = {"type", "call_tool", "finish"}
             /\ AdmitsType(value.fields["type"])
             /\ fits[looks + 3][n + 3][value.fields["call_tool"]]
             /\ fits[looks + 3][n + 5][value.fields["finish"]]
  BY <1>2, <1>5, <1>6, <1>7, Zenon
<1>. QED
  BY <1>4, <1>8

(* The published schema admits exactly the encodings whose result is       *)
(* complete.                                                               *)
LEMMA WireAdmitsSteps ==
  ASSUME NEW doc, IsDocument(doc), NEW value \in Values,
         \A at \in Places(doc) : Supports(doc.nodes[at]) /\ Known(doc, doc.nodes[at])
  PROVE  WireAdmits(doc, value) <=> AdmitsStep(doc, value)
<1>. DEFINE n == Len(doc.nodes)
            wire == Wire(doc)
            env == Envelope(n, 1)
            fits == Fitting(wire, FALSE, FALSE)
            looks == Unfoldings - 1
<1>1. Publication(doc, n, wire, env, fits)
  BY Zenon DEF Publication
<1>2. /\ looks \in Nat /\ looks + 1 = Unfoldings /\ looks + 4 = Unfoldings + 3
      /\ Unfoldings \in Nat /\ 1 \in Places(doc) /\ doc.root = 1
  BY SchemaAssumption, DocumentShape
<1>3. wire.root = n + 1
  BY WireIs
<1>4. \A m, at, piece : Means(wire, FALSE, FALSE, m, at, piece) <=> fits[m][at][piece]
  BY FittingIs, Zenon
<1>5. WireAdmits(doc, value) <=> Means(wire, FALSE, FALSE, Unfoldings + 3, wire.root, value)
  BY Zenon DEF WireAdmits
<1>6. Lowers(wire, doc)
  BY WireLowers
<1>. HIDE DEF wire, env, fits, looks, n
<1>7. WireAdmits(doc, value) <=> fits[looks + 4][n + 1][value]
  <2>1. fits[looks + 4] = fits[Unfoldings + 3]
    BY <1>2
  <2>. QED
    BY <1>3, <1>4, <1>5, <2>1, Zenon
<1>8. ASSUME NEW piece \in Values PROVE fits[looks + 1][1][piece] <=> Complete(doc, piece)
  <2>1. Means(wire, FALSE, FALSE, Unfoldings, 1, piece) <=> Means(doc, TRUE, FALSE, Unfoldings, 1, piece)
    BY <1>2, <1>6, LoweredMeans, Zenon
  <2>2. fits[looks + 1] = fits[Unfoldings]
    BY <1>2
  <2>. QED
    BY <1>2, <1>4, <2>1, <2>2, Zenon DEF Complete
<1>9. ASSUME NEW piece \in Values
      PROVE  fits[looks + 3][n + 3][piece] <=> AdmitsCall(piece) \/ piece.kind = "null"
  BY <1>1, <1>2, BranchesAdmit, Zenon
<1>10. ASSUME NEW piece \in Values
       PROVE  fits[looks + 3][n + 5][piece] <=> AdmitsFinish(doc, piece) \/ piece.kind = "null"
  <2>1. fits[looks + 3][n + 5][piece] <=> fits[looks + 2][n + 6][piece] \/ piece.kind = "null"
    BY <1>1, <1>2, BranchesAdmit, Zenon
  <2>2. fits[looks + 2][n + 6][piece]
         <=> /\ piece.kind = "object" /\ DOMAIN piece.fields = {"reason", "result"}
             /\ piece.fields["reason"].kind \in {"string", "null"}
             /\ fits[looks + 1][1][piece.fields["result"]]
    BY <1>1, <1>2, FinishAdmits, Zenon
  <2>3. ASSUME DOMAIN piece.fields = {"reason", "result"}
        PROVE  fits[looks + 1][1][piece.fields["result"]] <=> Complete(doc, piece.fields["result"])
    <3>1. piece.fields["result"] \in Values
      BY <2>3, PiecesAreValues
    <3>. QED
      BY <1>8, <3>1, Zenon
  <2>4. fits[looks + 2][n + 6][piece] <=> AdmitsFinish(doc, piece)
    BY <2>2, <2>3, Zenon DEF AdmitsFinish
  <2>. QED
    BY <2>1, <2>4, Zenon
<1>11. fits[looks + 4][n + 1][value]
         <=> /\ value.kind = "object" /\ DOMAIN value.fields = {"type", "call_tool", "finish"}
             /\ AdmitsType(value.fields["type"])
             /\ fits[looks + 3][n + 3][value.fields["call_tool"]]
             /\ fits[looks + 3][n + 5][value.fields["finish"]]
  BY <1>1, <1>2, RootAdmits, Zenon
<1>12. ASSUME DOMAIN value.fields = {"type", "call_tool", "finish"}
       PROVE  value.fields["call_tool"] \in Values /\ value.fields["finish"] \in Values
  BY <1>12, PiecesAreValues
<1>13. fits[looks + 4][n + 1][value] <=> AdmitsStep(doc, value)
  BY <1>9, <1>10, <1>11, <1>12, Zenon DEF AdmitsStep
<1>. QED
  BY <1>7, <1>13, Zenon

(* A result is an object. *)
LEMMA ResultIsObject ==
  ASSUME NEW doc, IsDocument(doc), Rooted(doc), NEW value \in Values, ResultFits(doc, value)
  PROVE  value.kind = "object"
<1>. DEFINE fits == Fitting(doc, FALSE, TRUE)
            looks == Unfoldings - 1
<1>1. looks \in Nat /\ looks + 1 = Unfoldings /\ 1 \in Places(doc) /\ doc.root = 1
  BY SchemaAssumption, DocumentShape
<1>2. fits[Unfoldings][1][value]
  BY <1>1, FittingIs, Zenon DEF ResultFits
<1>. HIDE DEF looks
<1>30. Meanings(fits, doc, FALSE, TRUE)
  BY FittingIs, Zenon
<1>. HIDE DEF fits
<1>3. fits[looks + 1][1][value] <=> Holds(doc, FALSE, TRUE, fits[looks], 1, value)
  BY <1>1, <1>30, Zenon DEF Meanings
<1>4. Holds(doc, FALSE, TRUE, fits[looks], 1, value)
  BY <1>1, <1>2, <1>3
<1>5. doc.nodes[1].types = {"object"}
  BY <1>1, Zenon DEF Rooted
<1>6. doc.nodes[1].types # {} => value.kind \in doc.nodes[1].types
  BY <1>4, Zenon DEF Holds
<1>. QED
  BY <1>5, <1>6

(* An answer names one branch. *)
LEMMA OneEnvelope ==
  ASSUME NEW value PROVE ~(Enveloped(value, "call_tool") /\ Enveloped(value, "finish"))
<1>1. Text("call_tool").text # Text("finish").text
  BY DEF Text, Value
<1>. QED
  BY <1>1, Zenon DEF Enveloped

(* The branch an answer names and gives is what it decodes to: a tool call, *)
LEMMA DecodedCall ==
  ASSUME NEW value, Enveloped(value, "call_tool"), DecodesCall(value)
  PROVE  Decoded(value) = CallTool(value.fields["call_tool"].fields["tool_id"].text,
                                   value.fields["call_tool"].fields["arguments"].text)
  BY OneEnvelope DEF Decoded

(* a finish *)
LEMMA DecodedFinish ==
  ASSUME NEW value, Enveloped(value, "finish"), DecodesFinish(value)
  PROVE  Decoded(value) = FinishStep(value.fields["finish"].fields["reason"],
                                     value.fields["finish"].fields["result"])
  BY OneEnvelope DEF Decoded

(* or nothing. *)
LEMMA DecodedElse ==
  ASSUME NEW value, ~(Enveloped(value, "call_tool") /\ DecodesCall(value)),
         ~(Enveloped(value, "finish") /\ DecodesFinish(value))
  PROVE  Decoded(value) = NoStep
  BY DEF Decoded

(* Values that are known by what they consist of. *)
LEMMA ValueIs ==
  ASSUME NEW value \in Values
  PROVE  /\ value.kind = "null" => value = Null
         /\ value.kind = "string" => value = Text(value.text)
         /\ value.kind = "object" => value = Struct(value.fields)
         /\ value.fields = [f \in DOMAIN value.fields |-> value.fields[f]]
<1>1. IsValue(value)
  BY SchemaAssumption
<1>2. value.fields \in [DOMAIN value.fields -> Values]
  BY <1>1, Zenon DEF IsValue
<1>. QED
  BY <1>1, <1>2 DEF IsValue

(* A step's object, *)
LEMMA SentIs ==
  ASSUME NEW value \in Values, value.kind = "object",
         DOMAIN value.fields = {"type", "call_tool", "finish"}
  PROVE  value = Struct([type |-> value.fields["type"], call_tool |-> value.fields["call_tool"],
                         finish |-> value.fields["finish"]])
<1>1. value.fields = [f \in {"type", "call_tool", "finish"} |-> value.fields[f]]
  BY ValueIs
<1>2. [f \in {"type", "call_tool", "finish"} |-> value.fields[f]]
      = [type |-> value.fields["type"], call_tool |-> value.fields["call_tool"],
         finish |-> value.fields["finish"]]
  OBVIOUS
<1>. QED
  BY <1>1, <1>2, ValueIs, Zenon

(* a tool call's *)
LEMMA ProposalIs ==
  ASSUME NEW value \in Values, value.kind = "object", DOMAIN value.fields = {"tool_id", "arguments"}
  PROVE  value = Struct([tool_id |-> value.fields["tool_id"], arguments |-> value.fields["arguments"]])
<1>1. value.fields = [f \in {"tool_id", "arguments"} |-> value.fields[f]]
  BY ValueIs
<1>2. [f \in {"tool_id", "arguments"} |-> value.fields[f]]
      = [tool_id |-> value.fields["tool_id"], arguments |-> value.fields["arguments"]]
  OBVIOUS
<1>. QED
  BY <1>1, <1>2, ValueIs, Zenon

(* and a finish's, from their fields. *)
LEMMA EndingIs ==
  ASSUME NEW value \in Values, value.kind = "object", DOMAIN value.fields = {"reason", "result"}
  PROVE  value = Struct([reason |-> value.fields["reason"], result |-> value.fields["result"]])
<1>1. value.fields = [f \in {"reason", "result"} |-> value.fields[f]]
  BY ValueIs
<1>2. [f \in {"reason", "result"} |-> value.fields[f]]
      = [reason |-> value.fields["reason"], result |-> value.fields["result"]]
  OBVIOUS
<1>. QED
  BY <1>1, <1>2, ValueIs, Zenon

(* The two encodings. *)
SentCall(tool, arguments) ==
  Struct([type |-> Text("call_tool"),
          call_tool |-> Struct([tool_id |-> Text(tool), arguments |-> Text(arguments)]),
          finish |-> Null])

(* A finish as the model has to write it. *)
SentFinish(reason, result) ==
  Struct([type |-> Text("finish"), call_tool |-> Null,
          finish |-> Struct([reason |-> reason, result |-> result])])

(* They are what Encode writes. *)
LEMMA EncodeIs ==
  /\ \A tool, arguments : Encode(CallTool(tool, arguments)) = SentCall(tool, arguments)
  /\ \A reason, result : Encode(FinishStep(reason, result)) = SentFinish(reason, result)
<1>1. ASSUME NEW tool, NEW arguments
      PROVE  /\ CallTool(tool, arguments).type = "call_tool" /\ CallTool(tool, arguments).tool = tool
             /\ CallTool(tool, arguments).arguments = arguments
  BY DEF CallTool, NoStep
<1>2. ASSUME NEW reason, NEW result
      PROVE  /\ FinishStep(reason, result).type # "call_tool"
             /\ FinishStep(reason, result).reason = reason
             /\ FinishStep(reason, result).result = result
  BY DEF FinishStep, NoStep
<1>3. ASSUME NEW taken, taken.type = "call_tool"
      PROVE  Encode(taken) = SentCall(taken.tool, taken.arguments)
  BY <1>3 DEF Encode, SentCall
<1>4. ASSUME NEW taken, taken.type # "call_tool"
      PROVE  Encode(taken) = SentFinish(taken.reason, taken.result)
  BY <1>4 DEF Encode, SentFinish
<1>5. ASSUME NEW tool, NEW arguments
      PROVE  Encode(CallTool(tool, arguments)) = SentCall(tool, arguments)
  <2>. DEFINE taken == CallTool(tool, arguments)
  <2>1. taken.type = "call_tool" /\ taken.tool = tool /\ taken.arguments = arguments
    BY <1>1, Zenon
  <2>. HIDE DEF taken
  <2>2. Encode(taken) = SentCall(tool, arguments)
    BY <1>3, <2>1
  <2>. QED
    BY <2>2, Zenon DEF taken
<1>6. ASSUME NEW reason, NEW result
      PROVE  Encode(FinishStep(reason, result)) = SentFinish(reason, result)
  <2>. DEFINE taken == FinishStep(reason, result)
  <2>1. taken.type # "call_tool" /\ taken.reason = reason /\ taken.result = result
    BY <1>2, Zenon
  <2>. HIDE DEF taken
  <2>2. Encode(taken) = SentFinish(reason, result)
    BY <1>4, <2>1
  <2>. QED
    BY <2>2, Zenon DEF taken
<1>. QED
  BY <1>5, <1>6, Zenon

(* The kinds of the values a step is built from. *)
LEMMA KindsOfValue ==
  /\ Null.kind = "null"
  /\ \A text : Text(text).kind = "string" /\ Text(text).text = text
  /\ \A fields : Struct(fields).kind = "object" /\ Struct(fields).fields = fields
  BY DEF Null, Text, Struct, Value

(* An answer that decodes is the encoding of what it decodes to. *)
LEMMA CallIsSent ==
  ASSUME NEW value \in Values, Enveloped(value, "call_tool"), DecodesCall(value)
  PROVE  value = SentCall(value.fields["call_tool"].fields["tool_id"].text,
                          value.fields["call_tool"].fields["arguments"].text)
<1>. DEFINE proposal == value.fields["call_tool"]
            tool == proposal.fields["tool_id"]
            arguments == proposal.fields["arguments"]
<1>1. /\ value.kind = "object" /\ DOMAIN value.fields = {"type", "call_tool", "finish"}
      /\ value.fields["type"] = Text("call_tool")
  BY Zenon DEF Enveloped
<1>2. /\ proposal.kind = "object" /\ value.fields["finish"] = Null
      /\ DOMAIN proposal.fields = {"tool_id", "arguments"}
      /\ tool.kind = "string" /\ arguments.kind = "string"
  BY Zenon DEF DecodesCall, Selected
<1>3. proposal \in Values
  BY <1>1, PiecesAreValues
<1>4. tool \in Values /\ arguments \in Values
  BY <1>2, <1>3, PiecesAreValues
<1>5. value = Struct([type |-> value.fields["type"], call_tool |-> proposal,
                      finish |-> value.fields["finish"]])
  BY <1>1, SentIs, Zenon
<1>6. proposal = Struct([tool_id |-> tool, arguments |-> arguments])
  BY <1>2, <1>3, ProposalIs, Zenon
<1>7. tool = Text(tool.text) /\ arguments = Text(arguments.text)
  BY <1>2, <1>4, ValueIs, Zenon
<1>. HIDE DEF proposal, tool, arguments
<1>8. value = SentCall(tool.text, arguments.text)
  BY <1>1, <1>2, <1>5, <1>6, <1>7 DEF SentCall
<1>. QED
  BY <1>8, Zenon DEF proposal, tool, arguments

(* A finish is the encoding of what it decodes to. *)
LEMMA FinishIsSent ==
  ASSUME NEW value \in Values, Enveloped(value, "finish"), DecodesFinish(value)
  PROVE  value = SentFinish(value.fields["finish"].fields["reason"],
                            value.fields["finish"].fields["result"])
<1>. DEFINE ending == value.fields["finish"]
            reason == ending.fields["reason"]
            result == ending.fields["result"]
<1>1. /\ value.kind = "object" /\ DOMAIN value.fields = {"type", "call_tool", "finish"}
      /\ value.fields["type"] = Text("finish")
  BY Zenon DEF Enveloped
<1>2. /\ ending.kind = "object" /\ value.fields["call_tool"] = Null
      /\ DOMAIN ending.fields = {"reason", "result"}
  BY Zenon DEF DecodesFinish, Selected
<1>3. ending \in Values
  BY <1>1, PiecesAreValues
<1>5. value = Struct([type |-> value.fields["type"], call_tool |-> value.fields["call_tool"],
                      finish |-> ending])
  BY <1>1, SentIs, Zenon
<1>6. ending = Struct([reason |-> reason, result |-> result])
  BY <1>2, <1>3, EndingIs, Zenon
<1>. HIDE DEF ending, reason, result
<1>8. value = SentFinish(reason, result)
  BY <1>1, <1>2, <1>5, <1>6 DEF SentFinish
<1>. QED
  BY <1>8, Zenon DEF ending, reason, result

(* What an encoding decodes to. *)
LEMMA SentCallDecodes ==
  ASSUME NEW tool, NEW arguments, StrictObject(arguments), NEW value, value = SentCall(tool, arguments)
  PROVE  /\ Enveloped(value, "call_tool") /\ DecodesCall(value)
         /\ Decoded(value) = CallTool(tool, arguments)
         /\ \A doc : AdmitsStep(doc, value)
<1>. DEFINE proposal == [tool_id |-> Text(tool), arguments |-> Text(arguments)]
            sent == [type |-> Text("call_tool"), call_tool |-> Struct(proposal), finish |-> Null]
<1>1. value = Struct(sent)
  BY DEF SentCall
<1>2. /\ DOMAIN sent = {"type", "call_tool", "finish"}
      /\ sent["type"] = Text("call_tool") /\ sent["call_tool"] = Struct(proposal)
      /\ sent["finish"] = Null
  OBVIOUS
<1>3. /\ DOMAIN proposal = {"tool_id", "arguments"}
      /\ proposal["tool_id"] = Text(tool) /\ proposal["arguments"] = Text(arguments)
  OBVIOUS
<1>. HIDE DEF sent, proposal
<1>4. value.kind = "object" /\ value.fields = sent
  BY <1>1, KindsOfValue
<1>5. Enveloped(value, "call_tool")
  BY <1>2, <1>4 DEF Enveloped
<1>6. value.fields["call_tool"].kind = "object" /\ value.fields["call_tool"].fields = proposal
  BY <1>2, <1>4, KindsOfValue
<1>7. /\ proposal["tool_id"].kind = "string" /\ proposal["tool_id"].text = tool
      /\ proposal["arguments"].kind = "string" /\ proposal["arguments"].text = arguments
  BY <1>3, KindsOfValue
<1>8. DecodesCall(value)
  <2>1. Selected(value, "call_tool", "finish")
    BY <1>2, <1>4, <1>6 DEF Selected
  <2>. QED
    BY <1>3, <1>6, <1>7, <2>1 DEF DecodesCall
<1>9. Decoded(value) = CallTool(tool, arguments)
  BY <1>5, <1>6, <1>7, <1>8, DecodedCall
<1>10. ASSUME NEW doc PROVE AdmitsStep(doc, value)
  <2>1. AdmitsType(value.fields["type"])
    BY <1>2, <1>4, KindsOfValue DEF AdmitsType
  <2>2. AdmitsCall(value.fields["call_tool"])
    BY <1>3, <1>6, <1>7 DEF AdmitsCall
  <2>3. value.fields["finish"].kind = "null"
    BY <1>2, <1>4, KindsOfValue
  <2>. QED
    BY <1>2, <1>4, <2>1, <2>2, <2>3 DEF AdmitsStep
<1>. QED
  BY <1>5, <1>8, <1>9, <1>10

(* So does the encoding of a finish, if its result is complete. *)
LEMMA SentFinishDecodes ==
  ASSUME NEW reason, NEW result, reason.kind \in {"string", "null"}, result.kind = "object",
         NEW value, value = SentFinish(reason, result)
  PROVE  /\ Enveloped(value, "finish") /\ DecodesFinish(value)
         /\ Decoded(value) = FinishStep(reason, result)
         /\ \A doc : Complete(doc, result) => AdmitsStep(doc, value)
<1>. DEFINE ending == [reason |-> reason, result |-> result]
            sent == [type |-> Text("finish"), call_tool |-> Null, finish |-> Struct(ending)]
<1>1. value = Struct(sent)
  BY DEF SentFinish
<1>2. /\ DOMAIN sent = {"type", "call_tool", "finish"}
      /\ sent["type"] = Text("finish") /\ sent["call_tool"] = Null
      /\ sent["finish"] = Struct(ending)
  OBVIOUS
<1>3. DOMAIN ending = {"reason", "result"} /\ ending["reason"] = reason /\ ending["result"] = result
  OBVIOUS
<1>. HIDE DEF sent, ending
<1>4. value.kind = "object" /\ value.fields = sent
  BY <1>1, KindsOfValue
<1>5. Enveloped(value, "finish")
  BY <1>2, <1>4 DEF Enveloped
<1>6. value.fields["finish"].kind = "object" /\ value.fields["finish"].fields = ending
  BY <1>2, <1>4, KindsOfValue
<1>8. DecodesFinish(value)
  <2>1. Selected(value, "finish", "call_tool")
    BY <1>2, <1>4, <1>6 DEF Selected
  <2>. QED
    BY <1>3, <1>6, <2>1 DEF DecodesFinish
<1>9. Decoded(value) = FinishStep(reason, result)
  BY <1>3, <1>5, <1>6, <1>8, DecodedFinish
<1>10. ASSUME NEW doc, Complete(doc, result) PROVE AdmitsStep(doc, value)
  <2>1. AdmitsType(value.fields["type"])
    BY <1>2, <1>4, KindsOfValue DEF AdmitsType
  <2>2. AdmitsFinish(doc, value.fields["finish"])
    BY <1>3, <1>6, <1>10 DEF AdmitsFinish
  <2>3. value.fields["call_tool"].kind = "null"
    BY <1>2, <1>4, KindsOfValue
  <2>. QED
    BY <1>2, <1>4, <2>1, <2>2, <2>3 DEF AdmitsStep
<1>. QED
  BY <1>5, <1>8, <1>9, <1>10

(* The type of what an answer decodes to says which branch it took. *)
LEMMA StepKinds ==
  /\ \A tool, arguments : /\ CallTool(tool, arguments).type = "call_tool"
                          /\ CallTool(tool, arguments).type # "finish"
                          /\ CallTool(tool, arguments).tool = tool
                          /\ CallTool(tool, arguments).arguments = arguments
  /\ \A reason, result : /\ FinishStep(reason, result).type = "finish"
                         /\ FinishStep(reason, result).type # "call_tool"
                         /\ FinishStep(reason, result).reason = reason
                         /\ FinishStep(reason, result).result = result
  /\ NoStep.type # "call_tool" /\ NoStep.type # "finish"
  BY DEF CallTool, FinishStep, NoStep

(* What validate_model_step takes. *)
LEMMA ValidIs ==
  ASSUME NEW doc
  PROVE  /\ \A tool, arguments : Valid(doc, CallTool(tool, arguments))
                                    <=> tool \in Granted /\ arguments = "object"
         /\ \A reason, result : Valid(doc, FinishStep(reason, result))
                                  <=> reason # Blank /\ ResultFits(doc, result)
         /\ ~Valid(doc, NoStep)
<1>1. ASSUME NEW tool, NEW arguments
      PROVE  Valid(doc, CallTool(tool, arguments)) <=> tool \in Granted /\ arguments = "object"
  <2>. DEFINE taken == CallTool(tool, arguments)
  <2>1. /\ taken.type = "call_tool" /\ taken.type # "finish"
        /\ taken.tool = tool /\ taken.arguments = arguments
    BY StepKinds, Zenon
  <2>. HIDE DEF taken
  <2>2. Valid(doc, taken) <=> ValidCall(taken)
    BY <2>1, Zenon DEF Valid
  <2>3. ValidCall(taken) <=> tool \in Granted /\ arguments = "object"
    BY <2>1 DEF ValidCall
  <2>. QED
    BY <2>2, <2>3, Zenon DEF taken
<1>2. ASSUME NEW reason, NEW result
      PROVE  Valid(doc, FinishStep(reason, result)) <=> reason # Blank /\ ResultFits(doc, result)
  <2>. DEFINE taken == FinishStep(reason, result)
  <2>1. /\ taken.type = "finish" /\ taken.type # "call_tool"
        /\ taken.reason = reason /\ taken.result = result
    BY StepKinds, Zenon
  <2>. HIDE DEF taken
  <2>2. Valid(doc, taken) <=> ValidFinish(doc, taken)
    BY <2>1, Zenon DEF Valid
  <2>3. ValidFinish(doc, taken) <=> reason # Blank /\ ResultFits(doc, result)
    BY <2>1 DEF ValidFinish
  <2>. QED
    BY <2>2, <2>3, Zenon DEF taken
<1>3. ~Valid(doc, NoStep)
  BY StepKinds, Zenon DEF Valid
<1>. QED
  BY <1>1, <1>2, <1>3, Zenon

(* What may be said at the end, and what it may end with. *)
Sayable(reason) == reason \in Values /\ reason.kind \in {"null", "string"} /\ reason # Blank

(* A result a run may end with. *)
Final(doc, result) == result \in Values /\ ResultFits(doc, result) /\ Complete(doc, result)

(* The steps that may be meant are the granted calls and these finishes. *)
LEMMA MeantIs ==
  ASSUME NEW doc
  PROVE  /\ \A tool \in Granted : CallTool(tool, "object") \in Meant(doc)
         /\ \A reason, result : Sayable(reason) /\ Final(doc, result)
                                  => FinishStep(reason, result) \in Meant(doc)
         /\ \A meant \in Meant(doc) :
               \/ \E tool \in Granted : meant = CallTool(tool, "object")
               \/ \E reason, result : /\ Sayable(reason) /\ Final(doc, result)
                                      /\ meant = FinishStep(reason, result)
<1>. DEFINE reasons == {v \in Values : v.kind \in {"null", "string"} /\ v # Blank}
            results == {v \in Values : ResultFits(doc, v) /\ Complete(doc, v)}
            calls   == {CallTool(tool, "object") : tool \in Granted}
            ends    == {FinishStep(reason, result) : reason \in reasons, result \in results}
<1>1. Meant(doc) = calls \cup ends
  BY DEF Meant
<1>2. \A v : v \in reasons <=> Sayable(v)
  BY DEF Sayable
<1>3. \A v : v \in results <=> Final(doc, v)
  BY Zenon DEF Final
<1>. HIDE DEF reasons, results
<1>4. \A v : v \in calls <=> \E tool \in Granted : v = CallTool(tool, "object")
  BY Zenon
<1>5. \A v : v \in ends <=> \E reason \in reasons, result \in results : v = FinishStep(reason, result)
  OBVIOUS
<1>. HIDE DEF calls, ends
<1>. QED
  BY <1>1, <1>2, <1>3, <1>4, <1>5, Zenon

(* An answer that is taken is the encoding of the step it is taken for.    *)
LEMMA TakenIsMeant ==
  ASSUME NEW doc, NEW value \in Values, AdmitsStep(doc, value), Valid(doc, Decoded(value))
  PROVE  Decoded(value) \in Meant(doc) /\ value = Encode(Decoded(value))
<1>1. CASE Enveloped(value, "call_tool") /\ DecodesCall(value)
  <2>. DEFINE tool == value.fields["call_tool"].fields["tool_id"].text
              arguments == value.fields["call_tool"].fields["arguments"].text
  <2>1. Decoded(value) = CallTool(tool, arguments)
    BY <1>1, DecodedCall
  <2>11. value = SentCall(tool, arguments)
    BY <1>1, CallIsSent
  <2>. HIDE DEF tool, arguments
  <2>12. Valid(doc, CallTool(tool, arguments))
    BY <2>1
  <2>2. tool \in Granted /\ arguments = "object"
    BY <2>12, ValidIs
  <2>3. CallTool(tool, "object") \in Meant(doc)
    BY <2>2, MeantIs, Zenon
  <2>. QED
    BY <2>1, <2>11, <2>2, <2>3, EncodeIs, Zenon
<1>2. CASE Enveloped(value, "finish") /\ DecodesFinish(value)
  <2>. DEFINE reason == value.fields["finish"].fields["reason"]
              result == value.fields["finish"].fields["result"]
  <2>1. Decoded(value) = FinishStep(reason, result) /\ value = SentFinish(reason, result)
    BY <1>2, DecodedFinish, FinishIsSent, Zenon
  <2>2. reason \in Values /\ result \in Values
    <3>1. DOMAIN value.fields = {"type", "call_tool", "finish"}
      BY <1>2, Zenon DEF Enveloped
    <3>2. value.fields["finish"] \in Values
      BY <3>1, PiecesAreValues
    <3>3. DOMAIN value.fields["finish"].fields = {"reason", "result"}
      BY <1>2, Zenon DEF DecodesFinish
    <3>. QED
      BY <3>2, <3>3, PiecesAreValues
  <2>3. reason.kind \in {"null", "string"}
    <3>1. reason.kind \in {"string", "null"}
      BY <1>2, Zenon DEF DecodesFinish
    <3>. QED
      BY <3>1
  <2>4. Complete(doc, result)
    <3>1. value.fields["finish"].kind # "null"
      BY <1>2 DEF DecodesFinish, Selected
    <3>2. AdmitsFinish(doc, value.fields["finish"])
      BY <3>1, Zenon DEF AdmitsStep
    <3>. QED
      BY <3>2, Zenon DEF AdmitsFinish
  <2>. HIDE DEF reason, result
  <2>5. reason # Blank /\ ResultFits(doc, result)
    BY <2>1, ValidIs, Zenon
  <2>6. Sayable(reason) /\ Final(doc, result)
    BY <2>2, <2>3, <2>4, <2>5, Zenon DEF Sayable, Final
  <2>7. FinishStep(reason, result) \in Meant(doc)
    BY <2>6, MeantIs, Zenon
  <2>. QED
    BY <2>1, <2>7, EncodeIs, Zenon
<1>3. CASE /\ ~(Enveloped(value, "call_tool") /\ DecodesCall(value))
           /\ ~(Enveloped(value, "finish") /\ DecodesFinish(value))
  <2>1. Decoded(value) = NoStep
    BY <1>3, DecodedElse, Zenon
  <2>. QED
    BY <2>1, ValidIs, Zenon
<1>. QED
  BY <1>1, <1>2, <1>3, Zenon

(* The encoding of a step that is valid is taken. *)
LEMMA MeantIsTaken ==
  ASSUME NEW doc, IsDocument(doc), Rooted(doc), NEW meant \in Meant(doc),
         NEW value \in Values, value = Encode(meant)
  PROVE  AdmitsStep(doc, value) /\ Valid(doc, Decoded(value))
<1>1. ASSUME NEW tool \in Granted, meant = CallTool(tool, "object")
      PROVE  AdmitsStep(doc, value) /\ Valid(doc, Decoded(value))
  <2>. DEFINE arguments == "object"
  <2>1. StrictObject(arguments)
    BY DEF StrictObject
  <2>2. value = SentCall(tool, arguments)
    BY <1>1, EncodeIs, Zenon
  <2>3. Valid(doc, CallTool(tool, arguments))
    BY ValidIs, Zenon
  <2>. HIDE DEF arguments
  <2>4. Decoded(value) = CallTool(tool, arguments) /\ AdmitsStep(doc, value)
    BY <2>1, <2>2, SentCallDecodes, Zenon
  <2>. QED
    BY <2>3, <2>4, Zenon
<1>2. ASSUME NEW reason, NEW result, Sayable(reason), Final(doc, result),
             meant = FinishStep(reason, result)
      PROVE  AdmitsStep(doc, value) /\ Valid(doc, Decoded(value))
  <2>1. reason.kind \in {"string", "null"}
    BY <1>2 DEF Sayable
  <2>2. result.kind = "object" /\ Complete(doc, result)
    BY <1>2, ResultIsObject, Zenon DEF Final
  <2>3. value = SentFinish(reason, result)
    BY <1>2, EncodeIs, Zenon
  <2>4. Decoded(value) = FinishStep(reason, result) /\ AdmitsStep(doc, value)
    BY <2>1, <2>2, <2>3, SentFinishDecodes
  <2>5. Valid(doc, FinishStep(reason, result))
    BY <1>2, ValidIs, Zenon DEF Sayable, Final
  <2>. QED
    BY <2>4, <2>5, Zenon
<1>. QED
  BY <1>1, <1>2, MeantIs, Zenon

(* A contract that is accepted takes exactly the encodings of valid steps. *)
LEMMA AcceptedTakesExactly ==
  ASSUME NEW doc \in Contracts, Publishes(doc), NEW value \in Answers
  PROVE  LET taken == StepOf(doc, value)
         IN  \/ taken \in Meant(doc) /\ value = Encode(taken)
             \/ taken = NoStep /\ \A meant \in Meant(doc) : value # Encode(meant)
<1>1. IsDocument(doc) /\ value \in Values
  BY IsolatedAssumption
<1>2. Expressible(doc)
  BY <1>1, AcceptedIsExpressible
<1>3. /\ Rooted(doc)
      /\ \A at \in Places(doc) : Supports(doc.nodes[at]) /\ Known(doc, doc.nodes[at])
  BY <1>2, Zenon DEF Expressible
<1>4. WireAdmits(doc, value) <=> AdmitsStep(doc, value)
  BY <1>1, <1>3, WireAdmitsSteps, Zenon
<1>5. CASE WireAdmits(doc, value) /\ Valid(doc, Decoded(value))
  <2>1. Decoded(value) \in Meant(doc) /\ value = Encode(Decoded(value))
    BY <1>1, <1>4, <1>5, TakenIsMeant, Zenon
  <2>2. StepOf(doc, value) = Decoded(value)
    BY <1>5, Zenon DEF StepOf
  <2>. QED
    BY <2>1, <2>2, Zenon
<1>6. CASE ~(WireAdmits(doc, value) /\ Valid(doc, Decoded(value)))
  <2>1. StepOf(doc, value) = NoStep
    BY <1>6, Zenon DEF StepOf
  <2>2. ASSUME NEW meant \in Meant(doc), value = Encode(meant) PROVE FALSE
    BY <1>1, <1>3, <1>4, <1>6, <2>2, MeantIsTaken, Zenon
  <2>. QED
    BY <2>1, <2>2, Zenon
<1>. QED
  BY <1>5, <1>6, Zenon

(* A run in which a contract was defined: it is refused, the audit failed, *)
(* or what was made of the last answer is what the contract takes it for.  *)
Settled ==
  /\ phase # "new" => /\ contract \in Contracts
                      /\ phase = "refused" <=> ~Publishes(contract)
                      /\ phase = "defect" <=> Publishes(contract) /\ ~Audited(Wire(contract))
  /\ phase \in {"answered", "finished"} => answer \in Answers /\ step = StepOf(contract, answer)
  /\ phase = "answered" => outcome = "none"
  /\ phase \in {"new", "refused", "defect", "ready", "answered", "finished"}

(* No step of a host's loop disturbs this: a contract is defined once, and *)
(* an answer and its step are replaced together.                           *)
LEMMA SettledInductive == Spec => []Settled
<1>1. Init => Settled
  BY DEF Init, ProjectionInit, Settled
<1>2. Settled /\ [Next]_vars => Settled'
  <2>1. SUFFICES ASSUME Settled, [Next]_vars PROVE Settled'
    OBVIOUS
  <2>2. CASE Define
    BY <2>1, <2>2 DEF Define, projection, Settled
  <2>3. CASE BootstrapCall
    BY <2>1, <2>3 DEF BootstrapCall, Project, Settled
  <2>4. CASE Projecting
    BY <2>1, <2>4 DEF Projecting, Fit, Omit, Exceed, Settled
  <2>5. CASE AnswerArrives
    BY <2>1, <2>5 DEF AnswerArrives, Drop, Settled
  <2>6. CASE ContinuationCall
    BY <2>1, <2>6 DEF ContinuationCall, Project, Settled
  <2>7. CASE Ended \/ UNCHANGED vars
    BY <2>1, <2>7 DEF Ended, vars, projection, Settled
  <2>. QED
    BY <2>1, <2>2, <2>3, <2>4, <2>5, <2>6, <2>7 DEF Next
<1>. QED
  BY <1>1, <1>2, PTL DEF Spec

(* For every set of contracts, every depth and property limit: what        *)
(* StructuredOutput accepts is representable, no object of it too deep     *)
(* however its references are followed, and what it refuses has a flaw     *)
(* (_schema.py:64-69, 216-264, definitions.py:607-617); of what it accepts *)
(* the audit fails of those contracts, and only those, that use the name   *)
(* "additionalProperties" (protocol.py:245-272).                           *)
THEOREM ContractsJustified == Spec => []AcceptanceJustified
<1>1. Settled => AcceptanceJustified
  <2>1. ASSUME Settled, phase \in {"ready", "answered", "finished"}
        PROVE  contract \in Representable \ Misread
    <3>1. contract \in Contracts /\ Publishes(contract) /\ Audited(Wire(contract))
      BY <2>1 DEF Settled
    <3>. QED
      BY <3>1, AcceptedIsRepresentable, AcceptedIsAudited
  <2>2. ASSUME Settled, phase = "defect" PROVE contract \in Representable \cap Misread
    <3>1. contract \in Contracts /\ Publishes(contract) /\ ~Audited(Wire(contract))
      BY <2>2 DEF Settled
    <3>. QED
      BY <3>1, AcceptedIsRepresentable, AcceptedIsAudited
  <2>3. ASSUME Settled, phase = "refused" PROVE contract \in Excessive
    <3>1. contract \in Contracts /\ ~Publishes(contract)
      BY <2>3 DEF Settled
    <3>. QED
      BY <3>1, RefusedIsFlawed
  <2>. QED
    BY <2>1, <2>2, <2>3 DEF AcceptanceJustified
<1>. QED
  BY <1>1, SettledInductive, PTL

(* The schema that an accepted contract is compiled to admits exactly the  *)
(* complete results of the logical schema (_schema.py:54-58, 73-213).      *)
THEOREM PublishedFaithfully == Spec => []WireFaithful
<1>1. Settled => WireFaithful
  <2>1. SUFFICES ASSUME Settled, phase \notin {"new", "refused"} PROVE contract \in Faithful
    BY DEF WireFaithful
  <2>2. contract \in Contracts /\ Publishes(contract)
    BY <2>1 DEF Settled
  <2>. QED
    BY <2>2, AcceptedIsFaithful
<1>. QED
  BY <1>1, SettledInductive, PTL

(* An answer is taken for a step exactly when it is the encoding of one    *)
(* that is valid, and for that step (protocol.py:113-242).                 *)
THEOREM AnswersTakenExactly == Spec => []StepExact
<1>1. Settled => StepExact
  <2>1. SUFFICES ASSUME Settled, phase \in {"answered", "finished"}
                 PROVE  \/ step \in Meant(contract) /\ answer = Encode(step)
                        \/ step = NoStep /\ \A meant \in Meant(contract) : answer # Encode(meant)
    BY DEF StepExact
  <2>2. contract \in Contracts /\ Publishes(contract) /\ answer \in Answers
        /\ step = StepOf(contract, answer)
    BY <2>1 DEF Settled
  <2>. QED
    BY <2>2, AcceptedTakesExactly
<1>. QED
  BY <1>1, SettledInductive, PTL

(* What a host here projects, any host may project. *)
LEMMA ProjectsAsAHost ==
  ASSUME Settled, [Next]_vars PROVE [ProjectionNext]_projection
<1>1. \A inputs \in Inputs : \A request : Batch(inputs, request) \in Nat
  BY IsolatedAssumption DEF Inputs, Batch
<1>2. CASE BootstrapCall
  <2>1. PICK source \in 0..1, inputs \in Inputs \ {0}, history \in Histories, request \in BOOLEAN :
          /\ \A i \in DOMAIN history : Constructible(history[i])
          /\ Project(Bootstrap(source, inputs, request), history, 0, request)
    BY <1>2 DEF BootstrapCall
  <2>2. outcome # "projecting"
    BY <1>2 DEF BootstrapCall
  <2>3. Bootstrap(source, inputs, request) \in Nat
    BY <1>1, ProjectionAssumption DEF Bootstrap
  <2>4. history \in Offers
    <3>1. history \in Seq(Observations)
      BY IsolatedAssumption
    <3>. QED
      BY <2>1, <3>1 DEF Offers
  <2>. QED
    BY <2>1, <2>2, <2>3, <2>4 DEF ProjectionNext
<1>3. CASE ContinuationCall
  <2>1. PICK inputs \in Inputs, request \in BOOLEAN, observed \in Observations :
          /\ Constructible(observed)
          /\ \/ Project(Continuation(0, inputs, request), <<observed>>, 0, request)
             \/ Project(Continuation(0, inputs, request), <<>>, 1, request)
    BY <1>3 DEF ContinuationCall
  <2>2. outcome # "projecting"
    BY <1>3 DEF ContinuationCall, Settled
  <2>3. Continuation(0, inputs, request) \in Nat
    BY <1>1 DEF Continuation
  <2>4. <<observed>> \in Offers /\ <<>> \in Offers
    BY <2>1 DEF Offers
  <2>. QED
    BY <2>1, <2>2, <2>3, <2>4 DEF ProjectionNext
<1>4. CASE Projecting
  BY <1>4 DEF Projecting, ProjectionNext
<1>5. CASE AnswerArrives
  BY <1>5 DEF AnswerArrives, ProjectionNext
<1>6. CASE Define \/ Ended \/ UNCHANGED vars
  BY <1>6 DEF Define, Ended, vars
<1>. QED
  BY <1>2, <1>3, <1>4, <1>5, <1>6 DEF Next

(* The loop over the public operations is one of the hosts that            *)
(* ContextProofs is about.                                                 *)
THEOREM HostProjects == Spec => ProjectionSpec
<1>1. Init => ProjectionInit
  BY DEF Init
<1>2. Settled /\ [Next]_vars => [ProjectionNext]_projection
  BY ProjectsAsAHost
<1>. QED
  BY <1>1, <1>2, SettledInductive, PTL DEF Spec, ProjectionSpec

(* So what it omits is right, and what it is refused could not have been   *)
(* shown (context.py:219-245).                                             *)
THEOREM HostOmitsExactly == Spec => []OmissionExact /\ []NoBetterOmission
  BY HostProjects, OmissionCorrect, RefusedContextCannotFit, PTL
=============================================================================
