----------------------------- MODULE ContextProofs -----------------------------
(***************************************************************************)
(* What the loop of _project omits is right for every call, limit and size *)
(* of section, and what it refuses no other omissions would have saved. The *)
(* first needs only that the same sum is compared every time; the second   *)
(* needs the sum.                                                          *)
(***************************************************************************)
EXTENDS ContextProjection, WellFoundedInduction, TLAPS

(* Only what ToolObservation accepts reaches the loop, and only what it    *)
(* declares recomputable is omitted.                                       *)
Offered ==
    /\ DOMAIN call.observations \subseteq Nat
    /\ \A i \in DOMAIN call.observations : Constructible(call.observations[i])
    /\ omitted \subseteq Recomputable(call)

OldestFirst == \A i \in omitted, j \in Recomputable(call) : j < i => j \in omitted

NotNeedless ==
    omitted # {} => \E i \in omitted : /\ \A j \in omitted : j <= i
                                       /\ ~FitsLimit(call, omitted \ {i})

Kept == outcome = "projected" => visible = Cumulative(call, omitted) /\ visible <= Limit

Exhausted == outcome = "exceeded" => /\ Recomputable(call) \subseteq omitted
                                     /\ ~FitsLimit(call, omitted)

ProjectionInv == Offered /\ OldestFirst /\ NotNeedless /\ Kept /\ Exhausted

(* The empty context of a run that has projected nothing is in order. *)
LEMMA ProjectionStarts == ProjectionInit => ProjectionInv
  BY DEF ProjectionInit, ProjectionInv, NoCall, Offered, OldestFirst, NotNeedless, Kept,
         Exhausted, Recomputable

(* The next observation to go is newer than all that have gone. *)
LEMMA OmitsNewest ==
  ASSUME ProjectionInv, NEW i \in Removable, \A j \in Removable : i <= j
  PROVE  /\ i \in Recomputable(call) /\ i \in Nat /\ i \notin omitted
         /\ \A j \in omitted : j \in Nat /\ j < i
         /\ \A j \in Recomputable(call) : j < i => j \in omitted
<1>1. i \in Recomputable(call) /\ i \notin omitted
  BY DEF Removable
<1>2. Recomputable(call) \subseteq Nat
  BY DEF ProjectionInv, Offered, Recomputable
<1>3. ASSUME NEW j \in Recomputable(call), j < i PROVE j \in omitted
  <2>1. SUFFICES ASSUME j \notin omitted PROVE FALSE
    OBVIOUS
  <2>2. i <= j
    BY <2>1 DEF Removable
  <2> QED
    BY <1>1, <1>2, <1>3, <2>2
<1>4. ASSUME NEW j \in omitted PROVE j \in Nat /\ j < i
  <2>1. j \in Recomputable(call)
    BY DEF ProjectionInv, Offered
  <2>2. j # i
    BY <1>1
  <2>3. ~(i < j)
    BY <1>1 DEF ProjectionInv, OldestFirst
  <2> QED
    BY <1>1, <1>2, <2>1, <2>2, <2>3
<1> QED
  BY <1>1, <1>2, <1>3, <1>4

(* A new call starts with everything shown. *)
LEMMA ProjectKeeps ==
  ASSUME ProjectionInv,
         NEW base \in Nat, NEW suffix \in Nat, NEW observations \in Offers,
         NEW request \in BOOLEAN, outcome # "projecting",
         Project(base, observations, suffix, request)
  PROVE  ProjectionInv'
<1>1. CASE Prohibited(request)
  BY <1>1 DEF ProjectionInv, Project, Offered, OldestFirst, NotNeedless, Kept, Exhausted,
              Recomputable, FitsLimit
<1>2. CASE ~Prohibited(request)
  <2>1. call'.observations = observations /\ omitted' = {} /\ outcome' = "projecting"
    BY <1>2 DEF Project
  <2>2. DOMAIN observations \subseteq Nat
    BY DEF Offers
  <2>3. \A i \in DOMAIN observations : Constructible(observations[i])
    BY DEF Offers
  <2> QED
    BY <2>1, <2>2, <2>3 DEF ProjectionInv, Offered, OldestFirst, NotNeedless, Kept, Exhausted
<1> QED
  BY <1>1, <1>2

(* An omission takes the oldest observation that is left. *)
LEMMA OmitKeeps == ASSUME ProjectionInv, Omit PROVE ProjectionInv'
<1>1. PICK i \in Removable : /\ \A j \in Removable : i <= j
                             /\ omitted' = omitted \cup {i}
  BY DEF Omit
<1>2. /\ i \in Recomputable(call) /\ i \in Nat /\ i \notin omitted
      /\ \A j \in omitted : j \in Nat /\ j < i
      /\ \A j \in Recomputable(call) : j < i => j \in omitted
  BY <1>1, OmitsNewest
<1>3. call' = call /\ outcome' = outcome /\ outcome = "projecting" /\ ~FitsLimit(call, omitted)
  BY DEF Omit
<1>4. Offered'
  BY <1>1, <1>2, <1>3 DEF ProjectionInv, Offered, Recomputable
<1>5. OldestFirst'
  <2>1. SUFFICES ASSUME NEW k \in omitted', NEW j \in Recomputable(call), j < k
                 PROVE  j \in omitted'
    BY <1>3 DEF OldestFirst, Recomputable
  <2>2. CASE k = i
    BY <1>1, <1>2, <2>1, <2>2
  <2>3. CASE k \in omitted
    BY <1>1, <2>1, <2>3 DEF ProjectionInv, OldestFirst
  <2> QED
    BY <1>1, <2>2, <2>3
<1>6. NotNeedless'
  <2>1. omitted' \ {i} = omitted
    BY <1>1, <1>2
  <2>2. i \in omitted' /\ \A j \in omitted' : j <= i
    BY <1>1, <1>2
  <2>3. ~FitsLimit(call', omitted' \ {i})
    BY <1>3, <2>1
  <2> QED
    BY <2>2, <2>3 DEF NotNeedless, FitsLimit
<1> QED
  BY <1>3, <1>4, <1>5, <1>6 DEF ProjectionInv, Kept, Exhausted

(* A projection that is returned or refused omits nothing more. *)
LEMMA EndKeeps == ASSUME ProjectionInv, Fit \/ Exceed PROVE ProjectionInv'
<1>1. call' = call /\ omitted' = omitted
  BY DEF Fit, Exceed
<1>2. Offered' /\ OldestFirst' /\ NotNeedless'
  BY <1>1 DEF ProjectionInv, Offered, OldestFirst, NotNeedless, Recomputable, FitsLimit
<1>3. CASE Fit
  BY <1>1, <1>2, <1>3 DEF Fit, ProjectionInv, Kept, Exhausted, FitsLimit
<1>4. CASE Exceed
  BY <1>1, <1>2, <1>4 DEF Exceed, ProjectionInv, Kept, Exhausted, FitsLimit, Removable,
                          Recomputable
<1> QED
  BY <1>3, <1>4

(* Without a projection nothing is omitted. *)
LEMMA DropKeeps == ASSUME ProjectionInv, Drop PROVE ProjectionInv'
  BY DEF Drop, NoCall, ProjectionInv, Offered, OldestFirst, NotNeedless, Kept, Exhausted,
         Recomputable

LEMMA ProjectionInductive == ProjectionSpec => []ProjectionInv
<1>1. ProjectionInit => ProjectionInv
  BY ProjectionStarts
<1>2. ProjectionInv /\ [ProjectionNext]_projection => ProjectionInv'
  <2>1. SUFFICES ASSUME ProjectionInv, [ProjectionNext]_projection PROVE ProjectionInv'
    OBVIOUS
  <2>2. CASE UNCHANGED projection
    BY <2>1, <2>2 DEF projection, ProjectionInv, Offered, OldestFirst, NotNeedless, Kept,
                      Exhausted, Recomputable, FitsLimit
  <2>3. CASE /\ outcome # "projecting"
             /\ \E base, suffix \in Nat, observations \in Offers, request \in BOOLEAN :
                   Project(base, observations, suffix, request)
    BY <2>1, <2>3, ProjectKeeps
  <2>4. CASE Omit
    BY <2>1, <2>4, OmitKeeps
  <2>5. CASE Fit \/ Exceed
    BY <2>1, <2>5, EndKeeps
  <2>6. CASE Drop
    BY <2>1, <2>6, DropKeeps
  <2> QED
    BY <2>1, <2>2, <2>3, <2>4, <2>5, <2>6 DEF ProjectionNext
<1> QED
  BY <1>1, <1>2, PTL DEF ProjectionSpec

(* Whatever a host projects, it omits exactly what it may and must: only   *)
(* Reads that can be read again, the oldest first, none needlessly, within *)
(* the limit (context.py:219-245).                                         *)
THEOREM OmissionCorrect == ProjectionSpec => []OmissionExact
<1>1. ProjectionInv => OmissionExact
  BY DEF ProjectionInv, OmissionExact, Offered, OldestFirst, NotNeedless, Kept, Exhausted,
         Recomputable, Constructible
<1> QED
  BY <1>1, ProjectionInductive, PTL

-----------------------------------------------------------------------------
(* What is rendered, as a sum.  The sums are recursive functions: facts    *)
(* about them come from the least number for which they would fail.        *)

LEMMA LeastNumber ==
  ASSUME NEW T, T \subseteq Nat, T # {}
  PROVE  \E x \in T : \A y \in T : x <= y
<1>. DEFINE below == OpToRel(<, Nat)
<1>1. IsWellFoundedOn(below, Nat)
  BY NatLessThanWellFounded
<1>2. \A x, y \in Nat : y < x => <<y, x>> \in below
  BY DEF OpToRel
<1>. HIDE DEF below
<1>3. PICK x \in T : \A y \in T : ~(<<y, x>> \in below)
  BY <1>1, WFMin
<1>4. ASSUME NEW y \in T PROVE x <= y
  <2>1. x \in Nat /\ y \in Nat
    OBVIOUS
  <2>2. ~(y < x)
    BY <1>2, <1>3, <2>1
  <2>. QED
    BY <2>1, <2>2
<1>. QED
  BY <1>4

(* f is the running sum of the weights w, from start. *)
RunningSum(f, n, start, w) ==
  f = [i \in 0..n |-> IF i = 0 THEN start ELSE f[i - 1] + w[i]]

(* Every sequence of weights has a running sum. *)
LEMMA SumExists ==
  ASSUME NEW n \in Nat, NEW start, NEW w
  PROVE  \E f : RunningSum(f, n, start, w)
<1>. DEFINE Summed(m) == \E f : RunningSum(f, m, start, w)
            Missing == {m \in 0..n : ~Summed(m)}
<1>1. Summed(0)
  <2>1. RunningSum([i \in 0..0 |-> start], 0, start, w)
    BY DEF RunningSum
  <2>. QED
    BY <2>1
<1>2. ASSUME NEW m \in 1..n, Summed(m - 1) PROVE Summed(m)
  <2>1. PICK f : RunningSum(f, m - 1, start, w)
    BY <1>2
  <2>. DEFINE g == [i \in 0..m |-> IF i = m THEN f[m - 1] + w[m] ELSE f[i]]
  <2>2. ASSUME NEW i \in 0..m PROVE g[i] = IF i = 0 THEN start ELSE g[i - 1] + w[i]
    <3>1. CASE i = m
      <4>1. m # 0 /\ m - 1 \in 0..m /\ m - 1 # m
        OBVIOUS
      <4>2. g[m] = f[m - 1] + w[m] /\ g[m - 1] = f[m - 1]
        BY <4>1
      <4>. QED
        BY <3>1, <4>1, <4>2
    <3>2. CASE i # m
      <4>1. i \in 0..(m - 1) /\ g[i] = f[i]
        BY <3>2
      <4>2. f[i] = IF i = 0 THEN start ELSE f[i - 1] + w[i]
        BY <2>1, <4>1 DEF RunningSum
      <4>3. i # 0 => i - 1 \in 0..m /\ i - 1 # m /\ g[i - 1] = f[i - 1]
        BY <4>1
      <4>. QED
        BY <4>1, <4>2, <4>3
    <3>. QED
      BY <3>1, <3>2
  <2>3. RunningSum(g, m, start, w)
    BY <2>2 DEF RunningSum
  <2>. QED
    BY <2>3
<1>. HIDE DEF Summed
<1>3. Missing = {}
  <2>1. SUFFICES ASSUME Missing # {} PROVE FALSE
    OBVIOUS
  <2>2. Missing \subseteq Nat
    OBVIOUS
  <2>. HIDE DEF Missing
  <2>3. PICK m \in Missing : \A k \in Missing : m <= k
    BY <2>1, <2>2, LeastNumber
  <2>4. m \in 0..n /\ ~Summed(m)
    BY DEF Missing
  <2>5. m \in 1..n
    BY <1>1, <2>4
  <2>6. m - 1 \in 0..n /\ m - 1 \notin Missing
    BY <2>3, <2>5
  <2>. QED
    BY <1>2, <2>4, <2>5, <2>6 DEF Missing
<1>4. Summed(n)
  BY <1>3
<1>. QED
  BY <1>4 DEF Summed

(* Smaller weights have a smaller sum, and sums are numbers. *)
LEMMA SumsCompare ==
  ASSUME NEW n \in Nat, NEW start \in Nat,
         NEW v \in [1..n -> Nat], NEW w \in [1..n -> Nat], \A i \in 1..n : v[i] <= w[i],
         NEW f, RunningSum(f, n, start, v), NEW g, RunningSum(g, n, start, w)
  PROVE  f[n] \in Nat /\ g[n] \in Nat /\ f[n] <= g[n]
<1>. DEFINE Below(i) == f[i] \in Nat /\ g[i] \in Nat /\ f[i] <= g[i]
            Above == {i \in 0..n : ~Below(i)}
<1>1. \A i \in 0..n : /\ f[i] = IF i = 0 THEN start ELSE f[i - 1] + v[i]
                      /\ g[i] = IF i = 0 THEN start ELSE g[i - 1] + w[i]
  BY DEF RunningSum
<1>2. Below(0)
  BY <1>1
<1>3. ASSUME NEW i \in 1..n, Below(i - 1) PROVE Below(i)
  <2>1. f[i] = f[i - 1] + v[i] /\ g[i] = g[i - 1] + w[i]
    BY <1>1
  <2>2. v[i] \in Nat /\ w[i] \in Nat /\ v[i] <= w[i]
    OBVIOUS
  <2>. QED
    BY <1>3, <2>1, <2>2
<1>. HIDE DEF Below
<1>4. Above = {}
  <2>1. SUFFICES ASSUME Above # {} PROVE FALSE
    OBVIOUS
  <2>2. Above \subseteq Nat
    OBVIOUS
  <2>. HIDE DEF Above
  <2>3. PICK i \in Above : \A k \in Above : i <= k
    BY <2>1, <2>2, LeastNumber
  <2>4. i \in 0..n /\ ~Below(i)
    BY DEF Above
  <2>5. i \in 1..n
    BY <1>2, <2>4
  <2>6. i - 1 \in 0..n /\ i - 1 \notin Above
    BY <2>3, <2>5
  <2>. QED
    BY <1>3, <2>4, <2>5, <2>6 DEF Above
<1>5. Below(n)
  BY <1>4
<1>. QED
  BY <1>5 DEF Below

(* The calls a host can make. *)
Calls == [base : Nat, observations : Seq(Observation), suffix : Nat, prior : Nat]

(* What an observation counts, shown or omitted. *)
Weights(c, gone) ==
  [i \in 1..Len(c.observations) |-> IF i \in gone THEN c.observations[i].marker
                                    ELSE c.observations[i].size]

(* What is rendered is the running sum of these weights. *)
LEMMA RenderedIsSum ==
  ASSUME NEW c \in Calls, NEW gone
  PROVE  LET n == Len(c.observations)
         IN  /\ n \in Nat /\ Weights(c, gone) \in [1..n -> Nat]
             /\ \E f : /\ RunningSum(f, n, c.base + c.suffix, Weights(c, gone))
                       /\ Rendered(c, gone) = f[n]
<1>. DEFINE n == Len(c.observations)
            start == c.base + c.suffix
            Next0(f) == [i \in 0..n |-> IF i = 0 THEN start
                                        ELSE f[i - 1] + (IF i \in gone THEN c.observations[i].marker
                                                         ELSE c.observations[i].size)]
            sum == CHOOSE f : f = Next0(f)
<1>1. /\ n \in Nat /\ start \in Nat
      /\ \A i \in 1..n : c.observations[i].marker \in Nat /\ c.observations[i].size \in Nat
  <2>1. c.observations \in Seq(Observation) /\ c.base \in Nat /\ c.suffix \in Nat
    BY DEF Calls
  <2>2. \A i \in 1..n : c.observations[i] \in Observation
    BY <2>1
  <2>. QED
    BY <2>1, <2>2 DEF Observation
<1>2. Weights(c, gone) \in [1..n -> Nat]
  BY <1>1 DEF Weights
<1>3. ASSUME NEW f PROVE RunningSum(f, n, start, Weights(c, gone)) <=> f = Next0(f)
  <2>1. \A i \in 0..n : i # 0 => i \in 1..n
    BY <1>1
  <2>2. Next0(f) = [i \in 0..n |-> IF i = 0 THEN start ELSE f[i - 1] + Weights(c, gone)[i]]
    BY <2>1 DEF Weights
  <2>. QED
    BY <2>2 DEF RunningSum
<1>4. \E f : f = Next0(f)
  BY <1>1, <1>3, SumExists
<1>5. Rendered(c, gone) = sum[n]
  BY Zenon DEF Rendered
<1>. HIDE DEF Next0, n, start
<1>6. sum = Next0(sum)
  BY <1>4, Zenon
<1>. HIDE DEF sum
<1>7. RunningSum(sum, n, start, Weights(c, gone))
  BY <1>3, <1>6
<1>. QED
  BY <1>1, <1>2, <1>5, <1>7 DEF n, start

-----------------------------------------------------------------------------
(* No choice of omissions does better than all of them. *)

(* Omitting all that may be omitted renders least, where no marker is      *)
(* larger than what it stands for.                                         *)
LEMMA AllOmittedIsLeast ==
  ASSUME NEW c \in Calls, NEW gone \in SUBSET Recomputable(c),
         \A i \in Recomputable(c) : c.observations[i].marker <= c.observations[i].size
  PROVE  /\ Rendered(c, gone) \in Nat
         /\ Rendered(c, Recomputable(c)) <= Rendered(c, gone)
<1>. DEFINE n == Len(c.observations)
            start == c.base + c.suffix
            v == Weights(c, Recomputable(c))
            w == Weights(c, gone)
<1>1. n \in Nat /\ v \in [1..n -> Nat] /\ w \in [1..n -> Nat]
  BY RenderedIsSum
<1>2. PICK f : RunningSum(f, n, start, v) /\ Rendered(c, Recomputable(c)) = f[n]
  BY RenderedIsSum
<1>3. PICK g : RunningSum(g, n, start, w) /\ Rendered(c, gone) = g[n]
  BY RenderedIsSum
<1>4. start \in Nat
  BY DEF Calls
<1>5. ASSUME NEW i \in 1..n PROVE v[i] <= w[i]
  <2>1. v[i] \in Nat /\ w[i] \in Nat
    BY <1>1
  <2>2. CASE i \in Recomputable(c) /\ i \notin gone
    BY <2>2 DEF Weights
  <2>3. CASE i \in gone \/ i \notin Recomputable(c)
    <3>1. v[i] = w[i]
      BY <2>3 DEF Weights
    <3>. QED
      BY <2>1, <3>1
  <2>. QED
    BY <2>2, <2>3
<1>. HIDE DEF n, start, v, w
<1>6. f[n] \in Nat /\ g[n] \in Nat /\ f[n] <= g[n]
  BY <1>1, <1>2, <1>3, <1>4, <1>5, SumsCompare
<1>. QED
  BY <1>2, <1>3, <1>6

(* What a host carries from call to call is a number. *)
Carried == visible \in Nat /\ call \in Calls

LEMMA CallIsCarried ==
  ASSUME Carried, ProjectionInv, [ProjectionNext]_projection
  PROVE  Carried'
<1>1. CASE UNCHANGED projection
  BY <1>1 DEF projection, Carried
<1>2. CASE /\ outcome # "projecting"
           /\ \E base, suffix \in Nat, observations \in Offers, request \in BOOLEAN :
                 Project(base, observations, suffix, request)
  <2>1. PICK base \in Nat, suffix \in Nat, observations \in Offers, request \in BOOLEAN :
            Project(base, observations, suffix, request)
    BY <1>2
  <2>2. observations \in Seq(Observation)
    BY ProjectionAssumption DEF Offers
  <2>3. CASE call' = call
    BY <2>1, <2>3 DEF Project, Carried
  <2>4. CASE call' = [base |-> base, observations |-> observations, suffix |-> suffix,
                      prior |-> visible]
    BY <2>1, <2>2, <2>4 DEF Project, Carried, Calls
  <2>. QED
    BY <2>1, <2>3, <2>4 DEF Project
<1>3. CASE Fit
  <2>1. Rendered(call, omitted) \in Nat
    <3>. DEFINE n == Len(call.observations)
                w == Weights(call, omitted)
    <3>1. n \in Nat /\ w \in [1..n -> Nat] /\ call.base + call.suffix \in Nat
      BY RenderedIsSum DEF Carried, Calls
    <3>2. PICK f : RunningSum(f, n, call.base + call.suffix, w) /\ Rendered(call, omitted) = f[n]
      BY RenderedIsSum DEF Carried
    <3>3. \A i \in 1..n : w[i] <= w[i]
      BY <3>1
    <3>. HIDE DEF n, w
    <3>4. f[n] \in Nat
      BY <3>1, <3>2, <3>3, SumsCompare
    <3>. QED
      BY <3>2, <3>4
  <2>. QED
    BY <1>3, <2>1 DEF Fit, Cumulative, Carried, Calls
<1>4. CASE Omit \/ Exceed
  BY <1>4 DEF Omit, Exceed, Carried
<1>5. CASE Drop
  BY <1>5 DEF Drop, NoCall, Carried, Calls
<1>. QED
  BY <1>1, <1>2, <1>3, <1>4, <1>5 DEF ProjectionNext

(* A context that is refused could not have been shown with any choice of  *)
(* omissions, where no marker is larger than what it stands for            *)
(* (context.py:31-32, 236-240).                                            *)
THEOREM RefusedContextCannotFit == ProjectionSpec => []NoBetterOmission
<1>1. ProjectionInit => Carried
  BY DEF ProjectionInit, NoCall, Carried, Calls
<1>2. Carried /\ ProjectionInv => NoBetterOmission
  <2>1. SUFFICES ASSUME Carried, ProjectionInv, outcome = "exceeded",
                        \A i \in Recomputable(call) :
                            call.observations[i].marker <= call.observations[i].size,
                        NEW gone \in SUBSET Recomputable(call)
                 PROVE  ~FitsLimit(call, gone)
    BY DEF NoBetterOmission
  <2>2. omitted = Recomputable(call) /\ ~FitsLimit(call, omitted)
    BY <2>1 DEF ProjectionInv, Offered, Exhausted
  <2>3. /\ Rendered(call, gone) \in Nat /\ Rendered(call, omitted) \in Nat
        /\ Rendered(call, omitted) <= Rendered(call, gone)
    BY <2>1, <2>2, AllOmittedIsLeast DEF Carried
  <2>4. call.prior \in Nat /\ Limit \in Nat
    BY <2>1, ProjectionAssumption DEF Carried, Calls
  <2>. QED
    BY <2>2, <2>3, <2>4 DEF FitsLimit, Cumulative
<1>. QED
  BY <1>1, <1>2, ProjectionInductive, CallIsCarried, PTL DEF ProjectionSpec
=============================================================================
