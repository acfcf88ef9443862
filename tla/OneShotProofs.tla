----------------------------- MODULE OneShotProofs -----------------------------
(***************************************************************************)
(* run_one_shot for every budget, size of an item, decision policy and     *)
(* environment.  StoreInv is about the journal and the world and is kept   *)
(* wherever a call may be interrupted; RunInv says what the run that is    *)
(* going on may rely on, place by place.                                   *)
(***************************************************************************)
EXTENDS OneShotProperties, SequenceTheorems, FiniteSetTheorems, TLAPS

Top == MaxTurns + MaxRefusals + 1

(* The counters an attempt leaves to the next one.                         *)
StepAfter(k) ==
    IF k = 0 THEN 0
    ELSE request[k].step + (IF rec[k] = "completed" /\ reply[k] = "tool" THEN 1 ELSE 0)

RepairsAfter(k) ==
    IF k = 0 THEN 0
    ELSE request[k].repairs + (IF rec[k] = "completed" /\ reply[k] = "invalid" THEN 1 ELSE 0)

(* Nothing is left to do about an attempt: another one may be made.        *)
Settled(k) ==
    \/ k = 0
    \/ rec[k] = "refused"
    \/ rec[k] = "completed" /\ reply[k] = "invalid"
    \/ rec[k] = "completed" /\ reply[k] = "tool" /\ \E p \in positions : p[1] = k

Paid(k) == {j \in 1..k : rec[j] = "completed"}

-----------------------------------------------------------------------------
StoreTypes ==
    /\ policy \in Policies
    /\ rec \in [Ordinal -> {"none", "armed", "completed", "refused"}]
    /\ reply \in [Ordinal -> Reply \cup {"none"}]
    /\ request \in [Ordinal -> Requests]
    /\ submitted \in [Ordinal -> Nat]
    /\ positions \subseteq Ordinal \X Nat

(* Attempts are numbered without a gap.                                    *)
Numbered ==
    /\ Latest \in 0..Top
    /\ \A k \in Ordinal : rec[k] # "none" <=> k <= Latest

RepliesKept ==
    \A k \in Ordinal : IF rec[k] = "completed" THEN reply[k] \in Reply ELSE reply[k] = "none"

(* Each attempt was made when the one before it was settled, with what     *)
(* that one left to it, within the budgets.                                *)
Chained ==
    \A k \in 1..Latest :
        /\ Settled(k - 1)
        /\ request[k].step = StepAfter(k - 1)
        /\ request[k].repairs = RepairsAfter(k - 1) /\ request[k].repairs <= MaxRepairs
        /\ request[k].canonical = Continued(k - 1)
        /\ request[k].step + request[k].repairs < MaxTurns
        /\ Cardinality(Paid(k - 1)) = request[k].step + request[k].repairs

(* Steps only grow.                                                        *)
Climbing == \A j, k \in 1..Latest : j < k => StepAfter(j) <= request[k].step

(* Who was asked has been recorded, and is asked once.                     *)
SentOnce ==
    \A k \in Ordinal : /\ submitted[k] <= 1
                       /\ submitted[k] = 1 => rec[k] \in {"armed", "completed"}

(* Tools run where their decision puts them.                               *)
Positioned ==
    \A p \in positions : /\ rec[p[1]] = "completed" /\ reply[p[1]] = "tool"
                         /\ p[2] = request[p[1]].step + 1

StoreInv == StoreTypes /\ Numbered /\ RepliesKept /\ Chained /\ Climbing /\ SentOnce /\ Positioned

-----------------------------------------------------------------------------
RunTypes ==
    /\ view \in Seq(Item)
    /\ bill \in [asked : Nat, told : Nat]
    /\ visible \in Nat /\ turns \in Nat /\ tokens \in Nat \cup {Unknown}
    /\ partial \in BOOLEAN /\ metered \in Nat \cup {Unknown} /\ meter \in Meter
    /\ at \in Awaits \cup Running \cup {"rest"}
    /\ cancelled \in BOOLEAN /\ replay \in BOOLEAN /\ lease \in BOOLEAN
    /\ armedRequest \in BOOLEAN /\ revoked \in BOOLEAN
    /\ result \in Stops \cup {"none", "completed", "raised", "crashed"}
    /\ ordinal \in 0..Top
    /\ step \in 0..MaxTurns /\ repairs \in 0..MaxRepairs
    /\ canonical \in Seq(Item) /\ pending \in Seq(Item) /\ prefix \in 0..Len(pending)
    /\ answer \in Reply \cup {"none"}
    /\ error \in Faults \cup {"none"}

Unopened == ~lease /\ view = <<>>

(* Nothing has been done yet.                                              *)
Resting ==
    at \in {"rest", "latest"} =>
        /\ Unopened /\ ~armedRequest /\ ~replay
        /\ at = "rest" => ~cancelled

(* What the journal says has been taken up.                                *)
TakenUp ==
    /\ Latest # 0 => rec[Latest] # "armed"
    /\ Unopened /\ ~armedRequest
    /\ replay <=> Decided
    /\ ordinal = IF Decided THEN Latest - 1 ELSE Latest
    /\ step = Saved.step /\ repairs = Saved.repairs

(* A recorded decision is about to be replayed.                            *)
Replaying ==
    /\ TakenUp /\ replay
    /\ canonical = Saved.canonical /\ pending = canonical /\ prefix = Len(canonical)

TokensLeft == bill.told = bill.asked => bill.told <= MaxTokens

(* The next attempt is due, and what it is to be asked with.               *)
Due(k) ==
    /\ ~replay
    /\ Settled(k)
    /\ step = StepAfter(k) /\ repairs = RepairsAfter(k)
    /\ view \o pending = Continued(k)
    /\ TokensLeft

Affordable == step + repairs < MaxTurns

Heading ==
    /\ at = "head" /\ replay => Replaying
    /\ (at = "head" /\ ~replay) \/ at \in {"open", "prepare"} =>
          ordinal = Latest /\ ~armedRequest /\ Due(Latest) /\ Extended = Continued(Latest)
    /\ at \in {"open", "prepare"} => Affordable

Prepared(k) ==
    /\ Due(k) /\ Affordable
    /\ canonical = Continued(k) /\ prefix = 0
    /\ Size(canonical) <= MaxBytes

(* The attempt at hand is the newest, and stands in the journal as it is.  *)
Attempting ==
    /\ ~replay /\ (armedRequest <=> Durable) /\ prefix = 0
    /\ ordinal = Latest /\ ordinal # 0
    /\ step = request[ordinal].step /\ repairs = request[ordinal].repairs
    /\ canonical = request[ordinal].canonical

Asking ==
    /\ at = "turn_owner" => ordinal = Latest /\ ~armedRequest /\ Prepared(Latest)
    /\ at = "arm" => /\ ordinal = Latest + 1 /\ (armedRequest <=> Durable) /\ answer = "none"
                     /\ Prepared(Latest)
    /\ at \in {"submit", "events", "interrupt", "draining", "accept", "turnclose", "refuse"} =>
          Attempting
    /\ at \in {"submit", "events", "interrupt", "draining", "accept", "refuse"} =>
          rec[ordinal] = "armed"
    /\ at \in {"submit", "refuse"} => submitted[ordinal] = 0
    /\ at = "submit" => /\ view \o pending = canonical /\ Size(canonical) <= MaxBytes
                        /\ TokensLeft /\ answer = "none"
    /\ at \in {"events", "interrupt", "draining", "accept"} => view = canonical
    /\ at = "accept" => answer # "none"

(* A decision is committed and in the session's own history.               *)
Committed ==
    /\ rec[ordinal] = "completed" /\ reply[ordinal] = answer
    /\ view = Append(canonical, Text(ordinal))

(* A decision that is being acted on, of this session or replayed.         *)
Acting ==
    /\ ~replay /\ ~armedRequest
    /\ ordinal = Latest /\ ordinal # 0
    /\ rec[ordinal] = "completed" /\ reply[ordinal] = answer
    /\ repairs = request[ordinal].repairs
    /\ canonical = Append(request[ordinal].canonical, Text(ordinal))
    /\ \/ view = canonical /\ pending = <<>> /\ prefix = 0
       \/ view = <<>> /\ pending = canonical /\ prefix = Len(canonical)

Deciding ==
    /\ at = "turnclose" /\ error = "none" =>
          IF answer = "none" THEN rec[ordinal] = "armed" /\ submitted[ordinal] = 0 ELSE Committed
    /\ at = "usage" => /\ ~replay /\ ~armedRequest /\ prefix = 0 /\ pending = <<>>
                       /\ ordinal = Latest /\ ordinal # 0 /\ Committed
                       /\ step = request[ordinal].step /\ repairs = request[ordinal].repairs
                       /\ canonical = request[ordinal].canonical
    /\ at \in {"answer", "tool_owner", "dispatch"} => Acting
    /\ at = "answer" => step = request[ordinal].step
    /\ at \in {"tool_owner", "dispatch"} =>
          answer = "tool" /\ step = request[ordinal].step + 1 /\ TokensLeft

(* A durable run knows of the attempt it leaves open.                      *)
OpenKnown ==
    at \notin {"rest", "latest", "account", "close"} /\ Durable /\ ~armedRequest =>
        \A k \in Ordinal : rec[k] # "armed"

(* The host gives up in time.                                              *)
Refusals == {k \in Ordinal : rec[k] = "refused"}

RefusalsLeft ==
    at \notin {"rest", "except", "account", "close"} => Cardinality(Refusals) <= MaxRefusals

Ending ==
    /\ at \notin {"rest", "account", "close"} => result = "none"
    /\ at = "except" => error # "none"
    /\ at \in {"account", "close"} => result # "none"
    /\ result = "completed" => Latest # 0 /\ rec[Latest] = "completed" /\ reply[Latest] = "finish"
    /\ Durable /\ result \in Stops \ {"uncertain", "configuration_error"} =>
          \A k \in Ordinal : rec[k] # "armed"

RunInv ==
    /\ RunTypes /\ Resting /\ (at \in {"owner", "read_owner", "read"} => TakenUp)
    /\ Heading /\ Asking /\ Deciding /\ OpenKnown /\ RefusalsLeft /\ Ending

-----------------------------------------------------------------------------
(* What the turns of the session are known to have cost.                   *)
Bill == IF bill.told = bill.asked /\ bill.asked > 0 THEN bill.told ELSE Unknown

Metered ==
    /\ bill.told <= bill.asked
    /\ meter.turns = bill.asked
    /\ meter.complete <=> bill.told = bill.asked
    /\ meter.complete => meter.tokens = bill.told
    /\ ~lease => bill.asked = 0 /\ turns = 0

Accounted ==
    /\ bill.asked = 0 => metered = Unknown /\ tokens = Unknown
    /\ IF partial THEN /\ tokens = Unknown
                       /\ bill.told # bill.asked \/ (bill.asked = 0 /\ at \in {"account", "close"})
       ELSE tokens = metered
    /\ at \in {"head", "answer", "open", "prepare", "turn_owner", "tool_owner", "dispatch"}
           => tokens = Bill
    /\ at = "usage" => bill.asked > 0
    /\ at = "close" /\ result # "raised" => tokens = Bill

TurnsCounted ==
    IF at \in {"arm", "submit", "events", "interrupt", "draining", "accept", "refuse"}
       \/ (at = "turnclose" /\ error = "none" /\ answer = "none")
    THEN turns = bill.asked + 1
    ELSE IF at \in {"except", "account", "close"}
    THEN /\ turns \in {bill.asked, bill.asked + 1}
         /\ result \in {"completed", "protocol_error", "budget_exhausted"} => turns = bill.asked
    ELSE turns = bill.asked

Leased ==
    /\ at \notin {"rest", "latest", "owner", "read_owner", "read", "head", "open", "answer",
                  "tool_owner", "dispatch"} => lease
    /\ at = "turnclose" /\ error = "none" /\ answer # "none" => bill.asked > 0

BillInv == Metered /\ Accounted /\ TurnsCounted /\ Leased

IInv == StoreInv /\ RunInv /\ BillInv

-----------------------------------------------------------------------------
(* The constants, and the ordinals as an initial segment of the numbers.   *)
LEMMA ConstFacts ==
    /\ MaxTurns \in Nat /\ MaxTurns > 0 /\ MaxRepairs \in Nat /\ MaxRefusals \in Nat
    /\ MaxTokens \in Nat /\ MaxTokens > 0 /\ MaxBytes \in Nat /\ Top \in Nat
    /\ Ordinal = 1..Top
    /\ DOMAIN Bytes = {"bootstrap", "decision", "observation", "correction"}
    /\ \A kind \in DOMAIN Bytes : Bytes[kind] \in Nat
BY OneShotAssumption DEF Top, Ordinal

LEMMA ItemFacts ==
    /\ Boot \in Item
    /\ \A k \in Nat : Text(k) \in Item /\ \A r : After(k, r) \in Item
BY ConstFacts DEF Item, Boot, Text, After

(* The size of a context is a number.                                      *)
LEMMA SizeIsNat ==
    ASSUME NEW items \in Seq(Item)
    PROVE  Size(items) \in Nat
<1>1. ASSUME NEW kind PROVE Count(items, kind) \in Nat
    <2>1. DOMAIN items = 1..Len(items) /\ Len(items) \in Nat
        BY LenProperties
    <2>2. IsFiniteSet(DOMAIN items)
        BY <2>1, FS_Interval
    <2>3. IsFiniteSet({i \in DOMAIN items : items[i][1] = kind})
        BY <2>2, FS_Subset
    <2>. QED
        BY <2>3, FS_CardinalityType DEF Count
<1>2. ASSUME NEW a \in Nat, NEW b \in Nat PROVE a * b \in Nat
    BY <1>2
<1>3. ASSUME NEW kind \in {"bootstrap", "decision", "observation", "correction"}
      PROVE  Bytes[kind] * Count(items, kind) \in Nat
    BY <1>1, <1>2, ConstFacts
<1>. QED
    BY <1>3 DEF Size

(* The newest of an initial segment of the ordinals is its length.         *)
LEMMA NewestIs ==
    ASSUME NEW S \in SUBSET Ordinal, NEW n \in 0..Top, \A k \in Ordinal : k \in S <=> k <= n
    PROVE  (IF S = {} THEN 0 ELSE CHOOSE k \in S : \A j \in S : j <= k) = n
<1>1. Ordinal = 1..Top /\ Top \in Nat
    BY ConstFacts
<1>2. CASE n = 0
    BY <1>1, <1>2
<1>3. CASE n # 0
    <2>1. n \in S /\ \A j \in S : j <= n
        BY <1>1, <1>3
    <2>2. \A k \in S : (\A j \in S : j <= k) => k = n
        BY <1>1, <2>1
    <2>. QED
        BY <2>1, <2>2
<1>. QED
    BY <1>2, <1>3

(* How contexts are put together, whatever a session has seen of them.     *)
LEMMA Joins ==
    ASSUME NEW c \in Seq(Item), NEW a \in Item
    PROVE  /\ <<>> \o c = c /\ c \o <<>> = c
           /\ c \o SubSeq(<<>>, 1, 0) = c
           /\ c \o SubSeq(c, Len(c) + 1, Len(c)) = c
           /\ Append(c, a) \in Seq(Item) /\ Len(Append(c, a)) = Len(c) + 1
           /\ Append(<<>>, a) \in Seq(Item) /\ Len(Append(<<>>, a)) = 1
           /\ c \o Append(<<>>, a) = Append(c, a)
           /\ c \o SubSeq(Append(<<>>, a), 1, 1) = Append(c, a)
           /\ c \o SubSeq(Append(c, a), Len(c) + 1, Len(c) + 1) = Append(c, a)
<1>1. <<>> \in Seq(Item) /\ Len(<<>>) = 0
    BY EmptySeq
<1>2. <<>> \o c = c /\ c \o <<>> = c
    BY ConcatEmptySeq
<1>3. SubSeq(<<>>, 1, 0) = <<>> /\ SubSeq(c, Len(c) + 1, Len(c)) = <<>>
    BY <1>1, SubSeqEmpty, LenProperties
<1>4. Append(c, a) \in Seq(Item) /\ Len(Append(c, a)) = Len(c) + 1 /\ Append(c, a) = c \o <<a>>
    BY AppendProperties, AppendIsConcat
<1>5. /\ Append(<<>>, a) \in Seq(Item) /\ Len(Append(<<>>, a)) = 1
      /\ Append(<<>>, a) = <<a>>
    BY <1>1, AppendProperties
<1>6. SubSeq(<<a>>, 1, 1) = <<a>>
    BY <1>5, SubSeqFull
<1>7. SubSeq(Append(c, a), Len(c) + 1, Len(c) + 1) = <<a>>
    <2>1. <<a>> \in Seq(Item) /\ Len(<<a>>) = 1
        BY <1>5
    <2>2. SubSeq(c \o <<a>>, Len(c) + 1, Len(c \o <<a>>)) = <<a>>
        <3>1. Len(c \o <<a>>) = Len(c) + 1 /\ Len(c) \in Nat
            BY <1>4, LenProperties
        <3>2. /\ Len(c) + 1 \in Len(c) + 1 .. Len(c) + Len(<<a>>)
              /\ Len(c) + 1 - Len(c) = 1
            BY <2>1, <3>1
        <3>3. SubSeq(c \o <<a>>, Len(c) + 1, Len(c) + 1) = SubSeq(<<a>>, 1, 1)
            BY <2>1, <3>2, SubSeqOfConcat2
        <3>. QED
            BY <1>6, <3>1, <3>3
    <2>. QED
        BY <1>4, <2>2
<1>. QED
    BY <1>2, <1>3, <1>4, <1>5, <1>6, <1>7

-----------------------------------------------------------------------------
(* What is said of the journal rests on the journal alone.                 *)
LEMMA Frames ==
    ASSUME UNCHANGED <<rec, reply, request, positions>>
    PROVE  /\ Latest' = Latest /\ Saved' = Saved /\ Decided' = Decided /\ Refusals' = Refusals
           /\ \A k : /\ StepAfter(k)' = StepAfter(k) /\ RepairsAfter(k)' = RepairsAfter(k)
                     /\ Continued(k)' = Continued(k) /\ Settled(k)' = Settled(k)
                     /\ Paid(k)' = Paid(k)
<1>1. Latest' = Latest /\ Refusals' = Refusals
    BY DEF Latest, Seen, Refusals
<1>2. Saved' = Saved /\ Decided' = Decided
    BY <1>1 DEF Saved, Decided
<1>3. ASSUME NEW k
      PROVE  /\ StepAfter(k)' = StepAfter(k) /\ RepairsAfter(k)' = RepairsAfter(k)
             /\ Continued(k)' = Continued(k) /\ Settled(k)' = Settled(k)
             /\ Paid(k)' = Paid(k)
    BY DEF StepAfter, RepairsAfter, Continued, Settled, Paid
<1>. QED
    BY <1>1, <1>2, <1>3

LEMMA StoreStays == ASSUME StoreInv, UNCHANGED store PROVE StoreInv'
<1>1. UNCHANGED <<policy, rec, reply, request, submitted, positions>>
    BY DEF store, journal
<1>2. StoreTypes' /\ RepliesKept' /\ SentOnce' /\ Positioned'
    BY <1>1 DEF StoreInv, StoreTypes, RepliesKept, SentOnce, Positioned
<1>3. Numbered'
    BY <1>1, Frames DEF StoreInv, Numbered
<1>4. Chained'
    BY <1>1, Frames DEF StoreInv, Chained
<1>5. Climbing'
    BY <1>1, Frames DEF StoreInv, Climbing
<1>. QED
    BY <1>2, <1>3, <1>4, <1>5 DEF StoreInv

(* Every attempt before the newest is settled, so only the newest may be   *)
(* open.                                                                   *)
LEMMA OnlyNewestOpen ==
    ASSUME StoreInv, NEW k \in Ordinal, rec[k] = "armed"
    PROVE  k = Latest
<1>1. k \in 1..Latest
    BY ConstFacts DEF StoreInv, Numbered
<1>2. CASE k < Latest
    <2>1. k + 1 \in 1..Latest /\ (k + 1) - 1 = k /\ k # 0
        BY <1>1, <1>2, ConstFacts DEF StoreInv, Numbered
    <2>2. Settled(k)
        BY <2>1 DEF StoreInv, Chained
    <2>. QED
        BY <2>1, <2>2 DEF Settled
<1>. QED
    BY <1>1, <1>2, ConstFacts DEF StoreInv, Numbered

LEMMA NewestFacts ==
    ASSUME StoreInv
    PROVE  /\ Latest \in Nat /\ Latest <= Top
           /\ \A k \in 1..Latest : k \in Ordinal /\ rec[k] # "none"
           /\ Latest # 0 => Latest \in Ordinal /\ rec[Latest] \in {"armed", "completed", "refused"}
           /\ \A k \in Ordinal : k <= Latest <=> rec[k] # "none"
<1>1. Latest \in 0..Top /\ \A k \in Ordinal : rec[k] # "none" <=> k <= Latest
    BY DEF StoreInv, Numbered
<1>2. rec \in [Ordinal -> {"none", "armed", "completed", "refused"}]
    BY DEF StoreInv, StoreTypes
<1>. QED
    BY <1>1, <1>2, ConstFacts

(* The counters an attempt leaves are numbers, what it leaves is a context.*)
LEMMA AfterTypes ==
    ASSUME StoreInv, NEW k \in 0..Latest
    PROVE  /\ StepAfter(k) \in Nat /\ RepairsAfter(k) \in Nat
           /\ Continued(k) \in Seq(Item)
<1>1. CASE k = 0
    <2>1. <<Boot>> \in Seq(Item)
        BY ItemFacts, EmptySeq, AppendProperties
    <2>. QED
        BY <1>1, <2>1 DEF StepAfter, RepairsAfter, Continued
<1>2. CASE k # 0
    <2>1. k \in Ordinal /\ k \in Nat
        BY <1>2, NewestFacts
    <2>2. /\ request[k].step \in Nat /\ request[k].repairs \in Nat
          /\ request[k].canonical \in Seq(Item)
        BY <2>1 DEF StoreInv, StoreTypes, Requests
    <2>3. /\ Append(request[k].canonical, Text(k)) \in Seq(Item)
          /\ Append(Append(request[k].canonical, Text(k)), After(k, reply[k])) \in Seq(Item)
        BY <2>1, <2>2, ItemFacts, AppendProperties
    <2>. QED
        BY <1>2, <2>2, <2>3 DEF StepAfter, RepairsAfter, Continued
<1>. QED
    BY <1>1, <1>2

(* The counters count the decisions that were paid and kept.               *)
LEMMA PaidCounted ==
    ASSUME StoreInv, Settled(Latest)
    PROVE  /\ IsFiniteSet(Paid(Latest))
           /\ Cardinality(Paid(Latest)) = StepAfter(Latest) + RepairsAfter(Latest)
<1>1. \A k \in Nat : IsFiniteSet(Paid(k))
    <2> SUFFICES ASSUME NEW k \in Nat PROVE IsFiniteSet(Paid(k))
        OBVIOUS
    <2>1. IsFiniteSet(1..k) /\ Paid(k) \in SUBSET (1..k)
        BY FS_Interval DEF Paid
    <2>. QED
        BY <2>1, FS_Subset
<1>2. Latest \in Nat
    BY NewestFacts
<1>3. CASE Latest = 0
    <2>1. Paid(Latest) = {}
        BY <1>3 DEF Paid
    <2>. QED
        BY <1>3, <2>1, FS_EmptySet DEF StepAfter, RepairsAfter
<1>4. CASE Latest # 0
    <2>1. Latest \in 1..Latest /\ Latest - 1 \in Nat /\ Latest \in Ordinal
        BY <1>2, <1>4, NewestFacts
    <2>2. /\ Cardinality(Paid(Latest - 1)) = request[Latest].step + request[Latest].repairs
          /\ request[Latest].step \in Nat /\ request[Latest].repairs \in Nat
        BY <2>1 DEF StoreInv, Chained, StoreTypes, Requests
    <2>3. Latest \notin Paid(Latest - 1)
        BY <2>1 DEF Paid
    <2>4. CASE rec[Latest] = "completed"
        <3>1. Paid(Latest) = Paid(Latest - 1) \cup {Latest}
            BY <2>1, <2>4 DEF Paid
        <3>2. Cardinality(Paid(Latest)) = Cardinality(Paid(Latest - 1)) + 1
            BY <1>1, <2>1, <2>3, <3>1, FS_AddElement
        <3>3. reply[Latest] \in {"tool", "invalid"}
            BY <1>4, <2>4 DEF Settled
        <3>. QED
            BY <1>1, <1>2, <1>4, <2>2, <2>4, <3>2, <3>3 DEF StepAfter, RepairsAfter
    <2>5. CASE rec[Latest] # "completed"
        <3>1. Paid(Latest) = Paid(Latest - 1)
            BY <2>1, <2>5 DEF Paid
        <3>. QED
            BY <1>1, <1>2, <1>4, <2>2, <2>5, <3>1 DEF StepAfter, RepairsAfter
    <2>. QED
        BY <2>4, <2>5
<1>. QED
    BY <1>3, <1>4

-----------------------------------------------------------------------------
(* What a call of a port leaves in the journal and in the world.           *)

(* arm(): the next attempt stands there as the run holds it.               *)
LEMMA ArmLands ==
    ASSUME StoreInv, RunInv, at = "arm", Armed, UNCHANGED <<policy, submitted, positions>>
    PROVE  /\ StoreInv' /\ Latest' = ordinal /\ ordinal \in Ordinal
           /\ rec' = [rec EXCEPT ![ordinal] = "armed"] /\ rec[ordinal] = "none"
           /\ Refusals' = Refusals
           /\ request'[ordinal] = [step |-> step, repairs |-> repairs, canonical |-> canonical]
<1>1. /\ ordinal = Latest + 1 /\ Prepared(Latest) /\ ordinal \in 0..Top
      /\ canonical \in Seq(Item) /\ step \in Nat /\ repairs \in Nat /\ repairs <= MaxRepairs
    BY ConstFacts DEF RunInv, Asking, RunTypes
<1>2. Latest \in Nat /\ ordinal \in Ordinal /\ rec[ordinal] = "none" /\ ordinal # 0
    BY <1>1, NewestFacts, ConstFacts
<1>3. /\ rec' = [rec EXCEPT ![ordinal] = "armed"] /\ reply' = reply
      /\ request' = [request EXCEPT ![ordinal] =
                        [step |-> step, repairs |-> repairs, canonical |-> canonical]]
      /\ policy' = policy /\ submitted' = submitted /\ positions' = positions
    BY DEF Armed
<1>4. StoreTypes' /\ request'[ordinal] = [step |-> step, repairs |-> repairs, canonical |-> canonical]
    BY <1>1, <1>2, <1>3 DEF StoreInv, StoreTypes, Requests
<1>5. \A k \in Ordinal : /\ k # ordinal => rec'[k] = rec[k] /\ request'[k] = request[k]
                         /\ rec'[ordinal] = "armed"
    BY <1>2, <1>3 DEF StoreInv, StoreTypes
<1>6. \A k \in Ordinal : rec'[k] # "none" <=> k <= ordinal
    BY <1>1, <1>2, <1>5, NewestFacts, ConstFacts
<1>7. Latest' = ordinal
    <2>1. Seen' \in SUBSET Ordinal /\ \A k \in Ordinal : k \in Seen' <=> k <= ordinal
        BY <1>6 DEF Seen
    <2>. QED
        BY <1>1, <2>1, NewestIs DEF Latest
<1>8. ASSUME NEW k \in 0..Latest
      PROVE  /\ StepAfter(k)' = StepAfter(k) /\ RepairsAfter(k)' = RepairsAfter(k)
             /\ Continued(k)' = Continued(k) /\ Settled(k)' = Settled(k) /\ Paid(k)' = Paid(k)
    <2>1. k = 0 \/ (k \in Ordinal /\ k # ordinal)
        BY <1>1, <1>2, NewestFacts
    <2>2. \A j \in 1..k : j \in Ordinal /\ j # ordinal
        BY <1>1, <1>2, NewestFacts
    <2>. QED
        BY <1>3, <1>5, <2>1, <2>2 DEF StepAfter, RepairsAfter, Continued, Settled, Paid
<1>9. Numbered'
    BY <1>1, <1>6, <1>7 DEF Numbered
<1>10. RepliesKept' /\ SentOnce'
    BY <1>2, <1>3, <1>5 DEF StoreInv, RepliesKept, SentOnce
<1>11. Positioned'
    <2>1. \A p \in positions : p[1] \in Ordinal /\ p[1] # ordinal
        BY <1>2 DEF StoreInv, StoreTypes, Positioned
    <2>. QED
        BY <1>3, <1>5, <2>1 DEF StoreInv, Positioned
<1>12. Chained'
    <2> SUFFICES ASSUME NEW k \in 1..ordinal
                 PROVE  /\ Settled(k - 1)'
                        /\ request'[k].step = StepAfter(k - 1)'
                        /\ request'[k].repairs = RepairsAfter(k - 1)'
                        /\ request'[k].repairs <= MaxRepairs
                        /\ request'[k].canonical = Continued(k - 1)'
                        /\ request'[k].step + request'[k].repairs < MaxTurns
                        /\ Cardinality(Paid(k - 1)') = request'[k].step + request'[k].repairs
        BY <1>7 DEF Chained
    <2>1. k - 1 \in 0..Latest
        BY <1>1, <1>2
    <2>2. CASE k = ordinal
        <3>1. k - 1 = Latest
            BY <1>1, <1>2, <2>2
        <3>2. /\ Settled(Latest) /\ step = StepAfter(Latest) /\ repairs = RepairsAfter(Latest)
              /\ canonical = Continued(Latest) /\ step + repairs < MaxTurns
            BY <1>1 DEF Prepared, Due, Affordable
        <3>. QED
            BY <1>1, <1>4, <1>8, <2>1, <2>2, <3>1, <3>2, PaidCounted
    <2>3. CASE k # ordinal
        <3>1. k \in 1..Latest /\ request'[k] = request[k]
            BY <1>1, <1>2, <1>5, <2>3, NewestFacts
        <3>. QED
            BY <1>8, <2>1, <3>1 DEF StoreInv, Chained
    <2>. QED
        BY <2>2, <2>3
<1>13. Climbing'
    <2> SUFFICES ASSUME NEW j \in 1..ordinal, NEW k \in 1..ordinal, j < k
                 PROVE  StepAfter(j)' <= request'[k].step
        BY <1>7 DEF Climbing
    <2>1. j \in 1..Latest /\ StepAfter(j)' = StepAfter(j) /\ StepAfter(j) \in Nat
        BY <1>1, <1>2, <1>8, AfterTypes
    <2>2. CASE k = ordinal
        <3>1. request'[k].step = StepAfter(Latest) /\ StepAfter(Latest) \in Nat
            BY <1>1, <1>2, <1>4, <2>2, AfterTypes DEF Prepared, Due
        <3>2. CASE j < Latest
            <4>1. StepAfter(j) <= request[Latest].step /\ request[Latest].step \in Nat
                BY <1>2, <2>1, <3>2, NewestFacts DEF StoreInv, Climbing, StoreTypes, Requests
            <4>2. request[Latest].step <= StepAfter(Latest)
                BY <1>2, <2>1, <4>1 DEF StepAfter
            <4>. QED
                BY <2>1, <3>1, <4>1, <4>2
        <3>. QED
            BY <1>2, <2>1, <3>1, <3>2
    <2>3. CASE k # ordinal
        <3>1. k \in 1..Latest /\ request'[k] = request[k]
            BY <1>1, <1>2, <1>5, <2>3, NewestFacts
        <3>. QED
            BY <2>1, <3>1 DEF StoreInv, Climbing
    <2>. QED
        BY <2>2, <2>3
<1>14. Refusals' = Refusals
    BY <1>2, <1>5 DEF Refusals
<1>. QED
    BY <1>2, <1>3, <1>4, <1>7, <1>9, <1>10, <1>11, <1>12, <1>13, <1>14 DEF StoreInv

(* complete() and not_submitted() change the newest attempt alone, which   *)
(* is open.                                                                *)
LEMMA NewestEnds ==
    ASSUME StoreInv, ordinal = Latest, ordinal # 0, rec[ordinal] = "armed",
           NEW how \in {"completed", "refused"}, rec' = [rec EXCEPT ![ordinal] = how],
           UNCHANGED <<policy, request, submitted, positions>>,
           \/ how = "completed" /\ \E r \in Reply : reply' = [reply EXCEPT ![ordinal] = r]
           \/ how = "refused" /\ reply' = reply /\ submitted[ordinal] = 0
    PROVE  StoreInv' /\ Latest' = Latest /\ rec'[ordinal] = how
<1>1. ordinal \in Ordinal /\ ordinal \in Nat
    BY NewestFacts
<1>2. /\ rec'[ordinal] = how
      /\ \A k \in Ordinal : k # ordinal => rec'[k] = rec[k] /\ reply'[k] = reply[k]
    BY <1>1 DEF StoreInv, StoreTypes
<1>3. StoreTypes'
    BY <1>1 DEF StoreInv, StoreTypes
<1>4. Latest' = Latest
    <2>1. \A k \in Ordinal : rec'[k] # "none" <=> rec[k] # "none"
        BY <1>2
    <2>2. Seen' = Seen
        BY <2>1 DEF Seen
    <2>. QED
        BY <2>2 DEF Latest
<1>5. Numbered'
    BY <1>1, <1>2, <1>4 DEF StoreInv, Numbered
<1>6. RepliesKept'
    <2>1. reply[ordinal] = "none"
        BY <1>1 DEF StoreInv, RepliesKept
    <2>2. IF how = "completed" THEN reply'[ordinal] \in Reply ELSE reply'[ordinal] = "none"
        BY <1>1, <2>1 DEF StoreInv, StoreTypes
    <2>. QED
        BY <1>1, <1>2, <2>2 DEF StoreInv, RepliesKept
<1>7. SentOnce'
    BY <1>1, <1>2 DEF StoreInv, SentOnce, StoreTypes
<1>8. Positioned'
    <2>1. \A p \in positions : p[1] \in Ordinal /\ p[1] # ordinal
        BY DEF StoreInv, StoreTypes, Positioned
    <2>. QED
        BY <1>2, <2>1 DEF StoreInv, Positioned
<1>9. ASSUME NEW k \in Nat, k < Latest
      PROVE  /\ StepAfter(k)' = StepAfter(k) /\ RepairsAfter(k)' = RepairsAfter(k)
             /\ Continued(k)' = Continued(k) /\ Settled(k)' = Settled(k) /\ Paid(k)' = Paid(k)
    <2>1. k = 0 \/ (k \in Ordinal /\ k # ordinal)
        BY <1>1, <1>9, NewestFacts
    <2>2. \A j \in 1..k : j \in Ordinal /\ j # ordinal
        BY <1>1, <1>9, NewestFacts
    <2>. QED
        BY <1>2, <2>1, <2>2 DEF StepAfter, RepairsAfter, Continued, Settled, Paid
<1>10. Chained'
    <2>1. \A k \in 1..Latest : k - 1 \in Nat /\ k - 1 < Latest
        BY <1>1
    <2>. QED
        BY <1>4, <1>9, <2>1 DEF StoreInv, Chained
<1>11. Climbing'
    BY <1>1, <1>4, <1>9 DEF StoreInv, Climbing
<1>. QED
    BY <1>2, <1>3, <1>4, <1>5, <1>6, <1>7, <1>8, <1>10, <1>11 DEF StoreInv

(* The provider is asked: at most once about an attempt.                   *)
LEMMA SubmitLands ==
    ASSUME StoreInv, ordinal = Latest, ordinal # 0, rec[ordinal] = "armed",
           submitted[ordinal] = 0, submitted' = [submitted EXCEPT ![ordinal] = @ + 1],
           UNCHANGED <<policy, rec, reply, request, positions>>
    PROVE  StoreInv'
<1>1. ordinal \in Ordinal
    BY NewestFacts
<1>2. StoreTypes' /\ RepliesKept' /\ Positioned'
    BY <1>1 DEF StoreInv, StoreTypes, RepliesKept, Positioned
<1>3. SentOnce'
    BY <1>1 DEF StoreInv, StoreTypes, SentOnce
<1>4. Numbered'
    BY Frames DEF StoreInv, Numbered
<1>5. Chained'
    BY Frames DEF StoreInv, Chained
<1>6. Climbing'
    BY Frames DEF StoreInv, Climbing
<1>. QED
    BY <1>2, <1>3, <1>4, <1>5, <1>6 DEF StoreInv

(* A tool runs: the position is the one its decision has.                  *)
LEMMA DispatchLands ==
    ASSUME StoreInv, ordinal = Latest, ordinal # 0, rec[ordinal] = "completed",
           reply[ordinal] = "tool", step = request[ordinal].step + 1,
           positions' = positions \cup {<<ordinal, step>>},
           UNCHANGED <<policy, rec, reply, request, submitted>>
    PROVE  /\ StoreInv' /\ Latest' = Latest
           /\ \A k : /\ StepAfter(k)' = StepAfter(k) /\ RepairsAfter(k)' = RepairsAfter(k)
                     /\ Continued(k)' = Continued(k) /\ (Settled(k) => Settled(k)')
           /\ \A k : k = ordinal => Settled(k)'
<1>1. ordinal \in Ordinal /\ step \in Nat
    BY NewestFacts DEF StoreInv, StoreTypes, Requests
<1>2. StoreTypes' /\ RepliesKept' /\ SentOnce'
    BY <1>1 DEF StoreInv, StoreTypes, RepliesKept, SentOnce
<1>3. Positioned'
    BY <1>1 DEF StoreInv, Positioned
<1>4. Latest' = Latest
    BY DEF Latest, Seen
<1>5. \A k : /\ StepAfter(k)' = StepAfter(k) /\ RepairsAfter(k)' = RepairsAfter(k)
             /\ Continued(k)' = Continued(k) /\ Paid(k)' = Paid(k)
    BY DEF StepAfter, RepairsAfter, Continued, Paid
<1>6. \A k : Settled(k) => Settled(k)'
    BY DEF Settled
<1>7. \A k : k = ordinal => Settled(k)'
    <2>1. <<ordinal, step>> \in positions' /\ <<ordinal, step>>[1] = ordinal
        OBVIOUS
    <2>. QED
        BY <2>1 DEF Settled
<1>8. Numbered'
    BY <1>4 DEF StoreInv, Numbered
<1>9. Chained'
    BY <1>4, <1>5, <1>6 DEF StoreInv, Chained
<1>10. Climbing'
    BY <1>4, <1>5 DEF StoreInv, Climbing
<1>. QED
    BY <1>2, <1>3, <1>4, <1>5, <1>6, <1>7, <1>8, <1>9, <1>10 DEF StoreInv

-----------------------------------------------------------------------------
(* How a run ends, and what is left then.                                  *)

(* What a result promises of the journal.                                  *)
Promised(how) ==
    /\ how \in Stops \cup {"completed", "raised", "crashed"}
    /\ how = "completed" => Latest # 0 /\ rec[Latest] = "completed" /\ reply[Latest] = "finish"
    /\ Durable /\ how \in Stops \ {"uncertain", "configuration_error"} =>
          \A k \in Ordinal : rec[k] # "armed"

LEMMA FinishKeeps ==
    ASSUME NEW how, Finish(how), Promised(how)'
    PROVE  RunInv'
<1>1. at' = "rest" /\ result' = how
    BY DEF Finish
<1>2. RunTypes'
    <2>1. <<>> \in Seq(Item) /\ Len(<<>>) = 0
        BY EmptySeq
    <2>2. 0 \in 0..Top /\ 0 \in 0..MaxTurns /\ 0 \in 0..MaxRepairs /\ 0 \in 0..Len(<<>>)
        BY <2>1, ConstFacts
    <2>3. NoMeter \in Meter /\ NoBill \in [asked : Nat, told : Nat]
        BY DEF NoMeter, Meter, NoBill
    <2>4. result' \in Stops \cup {"none", "completed", "raised", "crashed"}
        BY <1>1 DEF Promised
    <2>. QED
        BY <2>1, <2>2, <2>3, <2>4 DEF Finish, RunTypes
<1>3. Resting'
    BY DEF Finish, Resting, Unopened
<1>4. /\ at' \in {"owner", "read_owner", "read"} => TakenUp'
      /\ Heading' /\ Asking' /\ Deciding' /\ OpenKnown' /\ RefusalsLeft'
    BY <1>1 DEF Heading, Asking, Deciding, OpenKnown, RefusalsLeft
<1>5. Ending'
    BY <1>1 DEF Ending, Promised
<1>. QED
    BY <1>2, <1>3, <1>4, <1>5 DEF RunInv

(* What a run is made of, one variable at a time.                          *)
LEMMA RunParts ==
    ASSUME UNCHANGED run
    PROVE  UNCHANGED <<view, bill, replay, ordinal, step, repairs, canonical, pending, prefix,
                       visible, tokens, partial, metered, turns, meter, lease, armedRequest,
                       revoked, answer, error>>
BY DEF run, counts, context, usage, paid, turn

(* The places where a run is being wound up rely on nothing.               *)
LEMMA WoundUp ==
    ASSUME RunTypes', at' \in {"except", "account", "close"}, OpenKnown', Ending'
    PROVE  RunInv'
BY DEF RunInv, Resting, Heading, Asking, Deciding, RefusalsLeft

LEMMA StopKeeps ==
    ASSUME RunInv, NEW how, Stop(how), Promised(how)'
    PROVE  RunInv'
<1>1. CASE lease
    <2>1. at' = "account" /\ result' = how /\ cancelled' = cancelled /\ UNCHANGED run
        BY <1>1 DEF Stop
    <2>2. RunTypes'
        BY <2>1, RunParts DEF RunInv, RunTypes, Awaits, Promised
    <2>3. OpenKnown' /\ Ending'
        BY <2>1 DEF OpenKnown, Ending, Promised, Stops
    <2>. QED
        BY <2>1, <2>2, <2>3, WoundUp
<1>2. CASE ~lease
    BY <1>2, FinishKeeps DEF Stop
<1>. QED
    BY <1>1, <1>2

LEMMA ThrowKeeps ==
    ASSUME RunInv, NEW fault \in Faults, Throw(fault), policy' = policy,
           at \notin {"rest", "account", "close"},
           Durable /\ ~armedRequest => \A k \in Ordinal : rec'[k] # "armed"
    PROVE  RunInv'
<1>1. CASE lease /\ fault # "other"
    <2>1. /\ at' = "except" /\ error' = fault /\ cancelled' = cancelled /\ result' = result
          /\ UNCHANGED <<view, bill, replay, ordinal, step, repairs, canonical, pending, prefix,
                         visible, tokens, partial, metered, turns, meter, lease, armedRequest,
                         revoked, answer>>
        BY <1>1 DEF Throw, counts, context, usage, paid
    <2>2. RunTypes'
        BY <2>1 DEF RunInv, RunTypes, Awaits
    <2>3. OpenKnown'
        BY <2>1 DEF OpenKnown, Durable
    <2>4. Ending'
        BY <2>1 DEF RunInv, Ending, Stops, Faults
    <2>. QED
        BY <2>1, <2>2, <2>3, <2>4, WoundUp
<1>2. CASE ~(lease /\ fault # "other")
    <2>1. Stop(Mapped(fault))
        BY <1>2 DEF Throw
    <2>2. Mapped(fault) \in Stops \cup {"raised"}
        BY DEF Mapped, Faults, Stops
    <2>3. Mapped(fault) \in Stops \ {"uncertain", "configuration_error"} => ~armedRequest
        BY DEF Mapped, Faults, Stops
    <2>4. \A how : how = Mapped(fault) => Promised(how)'
        BY <2>2, <2>3 DEF Promised, Durable, Stops
    <2>. QED
        BY <2>1, <2>4, StopKeeps
<1>. QED
    BY <1>1, <1>2

(* A run starts from nothing.                                              *)
LEMMA OneShotStarts == Init => StoreInv /\ RunInv /\ BillInv
<1>. SUFFICES ASSUME Init PROVE StoreInv /\ RunInv /\ BillInv
    OBVIOUS
<1>1. Latest = 0 /\ Refusals = {}
    BY DEF Init, Latest, Seen, Refusals
<1>2. <<>> \in Seq(Item) /\ Len(<<>>) = 0
    BY EmptySeq
<1>3. StoreTypes
    BY <1>2 DEF Init, StoreTypes, NoRequest, Requests
<1>4. Numbered /\ RepliesKept /\ SentOnce /\ Positioned
    BY <1>1, ConstFacts DEF Init, Numbered, RepliesKept, SentOnce, Positioned
<1>5. Chained /\ Climbing
    BY <1>1 DEF Chained, Climbing
<1>6. RunTypes
    <2>1. 0 \in 0..Top /\ 0 \in 0..MaxTurns /\ 0 \in 0..MaxRepairs /\ 0 \in 0..Len(<<>>)
        BY <1>2, ConstFacts
    <2>2. NoMeter \in Meter /\ NoBill \in [asked : Nat, told : Nat]
        BY DEF NoMeter, Meter, NoBill
    <2>. QED
        BY <1>2, <2>1, <2>2 DEF Init, RunTypes
<1>7. Resting
    BY DEF Init, Resting, Unopened
<1>8. Heading /\ Asking /\ Deciding /\ OpenKnown /\ RefusalsLeft /\ Ending
    BY DEF Init, Heading, Asking, Deciding, OpenKnown, RefusalsLeft, Ending, Stops
<1>9. RunInv
    BY <1>6, <1>7, <1>8 DEF RunInv, Init
<1>10. BillInv
    <2>1. /\ bill.asked = 0 /\ bill.told = 0 /\ meter.turns = 0 /\ meter.tokens = 0
          /\ meter.complete = TRUE /\ turns = 0
        BY DEF Init, NoMeter, NoBill
    <2>2. Metered
        BY <2>1 DEF Metered
    <2>3. Accounted /\ TurnsCounted /\ Leased
        BY <2>1 DEF Init, Accounted, TurnsCounted, Leased
    <2>. QED
        BY <2>2, <2>3 DEF BillInv
<1>. QED
    BY <1>3, <1>4, <1>5, <1>9, <1>10 DEF StoreInv

-----------------------------------------------------------------------------
(* The steps of a run: the host and the token.                             *)

LEMMA StartKeeps == ASSUME IInv, Start PROVE StoreInv' /\ RunInv'
<1>. USE DEF IInv
<1>1. /\ at = "rest" /\ at' = "latest" /\ result' = "none" /\ cancelled' \in BOOLEAN
      /\ policy' = policy /\ Cardinality(Refusals) <= MaxRefusals /\ UNCHANGED run
    BY DEF Start, Refusals
<1>2. StoreInv' /\ Cardinality(Refusals') <= MaxRefusals
    <2>1. CASE Durable
        <3>1. UNCHANGED store
            BY <1>1, <2>1 DEF Start, store
        <3>. QED
            BY <1>1, <3>1, StoreStays, Frames DEF store, journal
    <2>2. CASE ~Durable
        <3>1. /\ rec' = [k \in Ordinal |-> "none"] /\ reply' = [k \in Ordinal |-> "none"]
              /\ request' = [k \in Ordinal |-> NoRequest]
              /\ submitted' = [k \in Ordinal |-> 0] /\ positions' = {}
            BY <2>2 DEF Start
        <3>2. Latest' = 0 /\ Refusals' = {}
            BY <3>1 DEF Latest, Seen, Refusals
        <3>3. StoreTypes'
            BY <1>1, <3>1, EmptySeq DEF StoreInv, StoreTypes, NoRequest, Requests
        <3>4. Numbered' /\ RepliesKept' /\ SentOnce' /\ Positioned'
            BY <3>1, <3>2, ConstFacts DEF Numbered, RepliesKept, SentOnce, Positioned
        <3>5. Chained' /\ Climbing'
            BY <3>2 DEF Chained, Climbing
        <3>. QED
            BY <3>2, <3>3, <3>4, <3>5, FS_EmptySet, ConstFacts DEF StoreInv
    <2>. QED
        BY <2>1, <2>2
<1>3. RunTypes'
    BY <1>1, RunParts DEF RunInv, RunTypes, Awaits
<1>4. Resting'
    BY <1>1, RunParts DEF RunInv, Resting, Unopened
<1>5. Heading' /\ Asking' /\ Deciding' /\ OpenKnown' /\ RefusalsLeft' /\ Ending'
    BY <1>1, <1>2 DEF Heading, Asking, Deciding, OpenKnown, RefusalsLeft, Ending, Stops
<1>. QED
    BY <1>1, <1>2, <1>3, <1>4, <1>5 DEF RunInv

(* A request for cancellation is taken note of, nothing else.              *)
LEMMA SameRun ==
    ASSUME IInv, UNCHANGED <<store, at, result, run>>, cancelled' \in BOOLEAN,
           at = "rest" => cancelled' = cancelled
    PROVE  StoreInv' /\ RunInv'
<1>. USE DEF IInv
<1>1. UNCHANGED <<policy, rec, reply, request, submitted, positions>>
    BY DEF store, journal
<1>2. StoreInv'
    BY <1>1, StoreStays
<1>3. RunTypes'
    BY RunParts DEF RunInv, RunTypes
<1>4. Resting' /\ (at' \in {"owner", "read_owner", "read"} => TakenUp')
    BY <1>1, Frames, RunParts DEF RunInv, Resting, TakenUp, Unopened
<1>5. Heading'
    <2>1. Replaying => Replaying'
        BY <1>1, Frames, RunParts DEF Replaying, TakenUp, Unopened
    <2>2. \A k : (Due(k) => Due(k)') /\ (Extended = Continued(k) => Extended' = Continued(k)')
        BY <1>1, Frames, RunParts DEF Due, TokensLeft, Extended
    <2>3. Affordable => Affordable'
        BY RunParts DEF Affordable
    <2>. QED
        BY <2>1, <2>2, <2>3, Frames, RunParts, <1>1 DEF RunInv, Heading
<1>6. Asking'
    BY <1>1, Frames, RunParts
    DEF RunInv, Asking, Prepared, Due, TokensLeft, Affordable, Attempting, Durable
<1>7. Deciding'
    BY <1>1, Frames, RunParts DEF RunInv, Deciding, Committed, Acting, TokensLeft
<1>8. OpenKnown' /\ RefusalsLeft' /\ Ending'
    BY <1>1, Frames, RunParts DEF RunInv, OpenKnown, RefusalsLeft, Ending, Durable
<1>. QED
    BY <1>2, <1>3, <1>4, <1>5, <1>6, <1>7, <1>8 DEF RunInv

-----------------------------------------------------------------------------
(* Taking up what the journal holds.                                       *)

LEMMA SavedFacts ==
    ASSUME StoreInv
    PROVE  /\ Saved.step \in 0..MaxTurns /\ Saved.repairs \in 0..MaxRepairs
           /\ Saved.canonical \in Seq(Item)
           /\ (Latest # 0 => rec[Latest] # "armed") /\ ~Decided =>
                /\ Settled(Latest) /\ Saved.step = StepAfter(Latest)
                /\ Saved.repairs = RepairsAfter(Latest) /\ Saved.canonical = Continued(Latest)
           /\ Latest # 0 => Saved = request[Latest]
<1>1. CASE Latest = 0
    <2>1. Saved = [step |-> 0, repairs |-> 0, canonical |-> <<Boot>>]
        BY <1>1 DEF Saved
    <2>2. <<Boot>> \in Seq(Item)
        BY ItemFacts, EmptySeq, AppendProperties
    <2>. QED
        BY <1>1, <2>1, <2>2, ConstFacts DEF Settled, StepAfter, RepairsAfter, Continued
<1>2. CASE Latest # 0
    <2>1. Saved = request[Latest]
        BY <1>2 DEF Saved
    <2>2. Latest \in 1..Latest /\ Latest \in Ordinal
          /\ rec[Latest] \in {"armed", "completed", "refused"}
        BY <1>2, NewestFacts
    <2>3. /\ request[Latest].step \in Nat /\ request[Latest].repairs \in Nat
          /\ request[Latest].canonical \in Seq(Item)
          /\ request[Latest].step + request[Latest].repairs < MaxTurns
          /\ request[Latest].repairs <= MaxRepairs
        BY <2>2 DEF StoreInv, StoreTypes, Requests, Chained
    <2>4. rec[Latest] # "armed" /\ ~Decided => rec[Latest] = "refused"
        BY <1>2, <2>2 DEF Decided
    <2>5. /\ Saved.step \in 0..MaxTurns /\ Saved.repairs \in 0..MaxRepairs
          /\ Saved.canonical \in Seq(Item)
        BY <2>1, <2>3, ConstFacts
    <2>6. rec[Latest] = "refused" =>
              /\ Settled(Latest) /\ request[Latest].step = StepAfter(Latest)
              /\ request[Latest].repairs = RepairsAfter(Latest)
              /\ request[Latest].canonical = Continued(Latest)
        BY <1>2, <2>3 DEF Settled, StepAfter, RepairsAfter, Continued
    <2>. QED
        BY <1>2, <2>1, <2>4, <2>5, <2>6
<1>. QED
    BY <1>1, <1>2

LEMMA LatestReturnsKeeps == ASSUME IInv, LatestReturns PROVE StoreInv' /\ RunInv'
<1>. USE DEF IInv
<1>1. UNCHANGED <<policy, rec, reply, request, submitted, positions>> /\ at = "latest"
    BY DEF LatestReturns, store, journal
<1>2. StoreInv'
    BY StoreStays DEF LatestReturns
<1>3. CASE \E how \in {"uncertain", "configuration_error"} : Finish(how)
    <2>1. \A how \in {"uncertain", "configuration_error"} : Promised(how)'
        BY DEF Promised, Stops
    <2>. QED
        BY <1>2, <1>3, <2>1, FinishKeeps
<1>4. CASE /\ ~Uncertain
           /\ replay' = Replays
           /\ ordinal' = IF Decided THEN Latest - 1 ELSE Latest
           /\ step' = Saved.step
           /\ repairs' = Saved.repairs
           /\ Go("owner")
           /\ UNCHANGED <<view, bill, context, usage, paid, lease, turn>>
    <2>1. /\ at' = "owner" /\ result' = result /\ cancelled' = cancelled
          /\ UNCHANGED <<view, bill, canonical, pending, prefix, visible, tokens, partial, metered,
                         turns, meter, lease, armedRequest, revoked, answer, error>>
        BY <1>4 DEF Go, context, usage, paid, turn
    <2>2. Unopened /\ ~armedRequest /\ result = "none"
        BY <1>1 DEF RunInv, Resting, Ending
    <2>3. /\ step' \in 0..MaxTurns /\ repairs' \in 0..MaxRepairs
          /\ ordinal' \in 0..Top
        BY <1>4, SavedFacts, NewestFacts, ConstFacts DEF Decided
    <2>4. replay' \in BOOLEAN /\ (replay' <=> Decided)
        BY <1>4 DEF Replays, Decided
    <2>5. RunTypes'
        BY <2>1, <2>3, <2>4 DEF RunInv, RunTypes, Awaits
    <2>6. Latest # 0 => rec[Latest] # "armed"
        BY <1>4 DEF Uncertain
    <2>7. TakenUp'
        BY <1>1, <1>4, <2>1, <2>2, <2>4, <2>6, Frames DEF TakenUp, Unopened
    <2>8. OpenKnown'
        BY <1>1, <2>1, <2>6, OnlyNewestOpen, NewestFacts, ConstFacts DEF OpenKnown
    <2>9. RefusalsLeft'
        BY <1>1, Frames DEF RunInv, RefusalsLeft
    <2>10. Resting' /\ Heading' /\ Asking' /\ Deciding' /\ Ending'
        BY <2>1, <2>2 DEF Resting, Heading, Asking, Deciding, Ending, Stops
    <2>. QED
        BY <1>2, <2>5, <2>7, <2>8, <2>9, <2>10 DEF RunInv
<1>. QED
    BY <1>3, <1>4 DEF LatestReturns

LEMMA BootstrapKeeps ==
    ASSUME IInv, StoreInv', Bootstrap, UNCHANGED store, TakenUp,
           at \in {"owner", "read"}
    PROVE  RunInv'
<1>. USE DEF IInv
<1>1. /\ UNCHANGED <<policy, rec, reply, request, submitted, positions>>
      /\ UNCHANGED <<view, bill, replay, ordinal, step, repairs, tokens, partial, metered, turns,
                     meter, lease, armedRequest, revoked, answer, error>>
      /\ at' = "head" /\ result' = result /\ cancelled' = cancelled
      /\ canonical' = Saved.canonical /\ pending' = canonical' /\ prefix' = Len(canonical')
    BY DEF Bootstrap, store, journal, counts, usage, paid, turn, Go
<1>2. canonical' \in Seq(Item) /\ Len(canonical') \in Nat
    BY <1>1, SavedFacts, LenProperties
<1>3. visible' \in Nat
    <2>1. <<Boot>> \in Seq(Item)
        BY ItemFacts, EmptySeq, AppendProperties
    <2>2. Size(<<Boot>>) \in Nat
        BY <2>1, SizeIsNat
    <2>. QED
        BY <2>2 DEF Bootstrap
<1>4. RunTypes'
    BY <1>1, <1>2, <1>3 DEF RunInv, RunTypes, Awaits, Running
<1>5. OpenKnown' /\ RefusalsLeft' /\ Ending'
    BY <1>1, Frames DEF RunInv, OpenKnown, RefusalsLeft, Ending, Durable, Stops
<1>6. replay => Replaying'
    BY <1>1, Frames DEF Replaying, TakenUp, Unopened
<1>7. ~replay => /\ ordinal' = Latest' /\ ~armedRequest' /\ Due(Latest)'
                 /\ Extended' = Continued(Latest)'
    <2> SUFFICES ASSUME ~replay
                 PROVE  /\ ordinal' = Latest' /\ ~armedRequest' /\ Due(Latest)'
                        /\ Extended' = Continued(Latest)'
        OBVIOUS
    <2>1. /\ ~Decided /\ ordinal = Latest /\ Settled(Latest) /\ step = StepAfter(Latest)
          /\ repairs = RepairsAfter(Latest) /\ canonical' = Continued(Latest)
          /\ view = <<>> /\ ~lease /\ ~armedRequest
        BY <1>1, SavedFacts DEF TakenUp, Unopened
    <2>2. view' \o pending' = canonical' /\ Extended' = canonical'
        BY <1>1, <1>2, <2>1, Joins, ItemFacts DEF Extended
    <2>3. TokensLeft'
        BY <1>1, <2>1, ConstFacts DEF BillInv, Metered, TokensLeft, RunInv, RunTypes
    <2>4. \A k : k = Latest => Due(k)' /\ Extended' = Continued(k)'
        BY <1>1, <2>1, <2>2, <2>3, Frames DEF Due
    <2>. QED
        BY <1>1, <2>1, <2>4, Frames
<1>8. Heading'
    BY <1>1, <1>6, <1>7 DEF Heading
<1>9. Resting' /\ Asking' /\ Deciding'
    BY <1>1 DEF Resting, Asking, Deciding
<1>. QED
    BY <1>1, <1>4, <1>5, <1>8, <1>9 DEF RunInv

(* Between its first look at the journal and its end a run is not         *)
(* resting, and goes on with the result open.                              *)
LEMMA OnTheWay ==
    ASSUME RunInv, UNCHANGED <<policy, rec, reply, request, positions, result, armedRequest>>,
           at \notin {"rest", "latest", "except", "account", "close"},
           at' \notin {"rest", "latest", "except", "account", "close"}
    PROVE  Resting' /\ OpenKnown' /\ RefusalsLeft' /\ Ending' /\ result' = "none"
<1>1. result = "none"
    BY DEF RunInv, Ending
<1>2. Resting' /\ Ending'
    BY <1>1 DEF Resting, Ending, Stops
<1>3. OpenKnown' /\ RefusalsLeft'
    BY Frames DEF RunInv, OpenKnown, RefusalsLeft, Durable
<1>. QED
    BY <1>1, <1>2, <1>3

LEMMA OwnerReturnsKeeps == ASSUME IInv, OwnerReturns PROVE StoreInv' /\ RunInv'
<1>. USE DEF IInv
<1>1. UNCHANGED <<policy, rec, reply, request, submitted, positions>> /\ at = "owner"
    BY DEF OwnerReturns, store, journal
<1>2. StoreInv'
    BY StoreStays DEF OwnerReturns
<1>3. TakenUp
    BY <1>1 DEF RunInv
<1>4. CASE \E how \in {"cancelled", "configuration_error"} : Finish(how)
    <2>1. \A how \in {"cancelled", "configuration_error"} : Promised(how)'
        BY <1>1, <1>3 DEF Promised, Stops, RunInv, OpenKnown, TakenUp, Durable
    <2>. QED
        BY <1>2, <1>4, <2>1, FinishKeeps
<1>5. CASE Go("read_owner") /\ UNCHANGED run
    <2>1. at' = "read_owner" /\ UNCHANGED <<cancelled, result>>
        BY <1>5 DEF Go
    <2>2. RunTypes'
        BY <1>5, <2>1, RunParts DEF RunInv, RunTypes, Awaits
    <2>3. TakenUp'
        BY <1>1, <1>3, <1>5, Frames, RunParts DEF TakenUp, Unopened
    <2>4. Resting' /\ OpenKnown' /\ RefusalsLeft' /\ Ending'
        BY <1>1, <1>5, <2>1, RunParts, OnTheWay
    <2>5. Heading' /\ Asking' /\ Deciding'
        BY <2>1 DEF Heading, Asking, Deciding
    <2>. QED
        BY <1>2, <2>2, <2>3, <2>4, <2>5 DEF RunInv
<1>6. CASE Bootstrap
    BY <1>1, <1>2, <1>3, <1>6, BootstrapKeeps DEF OwnerReturns
<1>. QED
    BY <1>4, <1>5, <1>6 DEF OwnerReturns

LEMMA ReadOwnerReturnsKeeps == ASSUME IInv, ReadOwnerReturns PROVE StoreInv' /\ RunInv'
<1>. USE DEF IInv
<1>1. /\ UNCHANGED <<policy, rec, reply, request, submitted, positions>> /\ at = "read_owner"
      /\ at' = "read" /\ UNCHANGED <<cancelled, result>> /\ UNCHANGED run
    BY DEF ReadOwnerReturns, store, journal, Go
<1>2. StoreInv'
    BY StoreStays DEF ReadOwnerReturns
<1>3. RunTypes'
    BY <1>1, RunParts DEF RunInv, RunTypes, Awaits
<1>4. TakenUp'
    BY <1>1, Frames, RunParts DEF RunInv, TakenUp, Unopened
<1>5. Resting' /\ OpenKnown' /\ RefusalsLeft' /\ Ending'
    BY <1>1, RunParts, OnTheWay
<1>6. Heading' /\ Asking' /\ Deciding'
    BY <1>1 DEF Heading, Asking, Deciding
<1>. QED
    BY <1>2, <1>3, <1>4, <1>5, <1>6 DEF RunInv

LEMMA ReadReturnsKeeps == ASSUME IInv, ReadReturns PROVE StoreInv' /\ RunInv'
<1>. USE DEF IInv
<1>1. UNCHANGED <<policy, rec, reply, request, submitted, positions>> /\ at = "read"
    BY DEF ReadReturns, store, journal
<1>2. StoreInv'
    BY StoreStays DEF ReadReturns
<1>3. TakenUp
    BY <1>1 DEF RunInv
<1>4. CASE \E how \in {"cancelled", "configuration_error"} : Finish(how)
    <2>1. \A how \in {"cancelled", "configuration_error"} : Promised(how)'
        BY <1>1, <1>3 DEF Promised, Stops, RunInv, OpenKnown, TakenUp, Durable
    <2>. QED
        BY <1>2, <1>4, <2>1, FinishKeeps
<1>5. CASE Bootstrap
    BY <1>1, <1>2, <1>3, <1>5, BootstrapKeeps DEF ReadReturns
<1>. QED
    BY <1>4, <1>5 DEF ReadReturns

-----------------------------------------------------------------------------
(* One pass of the loop.                                                   *)

LEMMA LoopHeadKeeps == ASSUME IInv, LoopHead PROVE StoreInv' /\ RunInv'
<1>. USE DEF IInv
<1>1. UNCHANGED <<policy, rec, reply, request, submitted, positions>> /\ at = "head"
    BY DEF LoopHead, store, journal
<1>2. StoreInv'
    BY StoreStays DEF LoopHead
<1>3. ~armedRequest /\ result = "none"
    BY <1>1 DEF RunInv, Heading, Replaying, TakenUp, Ending
<1>4. CASE \E how \in {"cancelled", "budget_exhausted"} : Stop(how)
    <2>1. \A how \in {"cancelled", "budget_exhausted"} : Promised(how)'
        BY <1>1, <1>3 DEF Promised, Stops, RunInv, OpenKnown, Durable
    <2>. QED
        BY <1>2, <1>4, <2>1, StopKeeps
<1>5. CASE /\ ~TurnsSpent /\ replay
           /\ replay' = FALSE
           /\ ordinal' = ordinal + 1
           /\ Replayed
           /\ answer' = reply[ordinal']
           /\ Go("answer")
           /\ UNCHANGED <<view, bill, step, repairs, visible, usage, paid, lease, armedRequest,
                          revoked, error>>
    <2>1. /\ at' = "answer" /\ cancelled' = cancelled /\ result' = result
          /\ UNCHANGED <<view, bill, step, repairs, visible, tokens, partial, metered, turns,
                         meter, lease, armedRequest, revoked, error>>
        BY <1>5 DEF Go, usage, paid
    <2>2. /\ Decided /\ ordinal' = Latest /\ Latest # 0 /\ Latest \in Ordinal
          /\ Saved = request[Latest] /\ canonical = Saved.canonical
          /\ step = Saved.step /\ repairs = Saved.repairs /\ Unopened
          /\ rec[Latest] = "completed"
        BY <1>1, <1>5, SavedFacts, NewestFacts
        DEF RunInv, Heading, Replaying, TakenUp, Decided
    <2>3. reply[Latest] \in Reply
        BY <2>2 DEF StoreInv, RepliesKept
    <2>4. /\ canonical' = Append(canonical, Text(Latest)) /\ pending' = canonical'
          /\ prefix' = Len(canonical') /\ canonical' \in Seq(Item) /\ Len(canonical') \in Nat
        BY <1>5, <2>2, ItemFacts, NewestFacts, AppendProperties, LenProperties
        DEF Replayed, RunInv, RunTypes
    <2>5. ordinal' \in 0..Top /\ replay' \in BOOLEAN /\ answer' \in Reply
        <3>1. ordinal' \in 0..Top
            BY <2>2, NewestFacts, ConstFacts
        <3>2. answer' = reply[Latest]
            BY <1>5, <2>2
        <3>. QED
            BY <1>1, <1>5, <2>3, <3>1, <3>2
    <2>6. RunTypes'
        <3>1. prefix' \in 0..Len(pending')
            BY <2>4
        <3>. QED
            BY <2>1, <2>4, <2>5, <3>1 DEF RunInv, RunTypes, Running
    <2>7. Acting' /\ step' = request'[ordinal'].step
        BY <1>1, <1>3, <1>5, <2>1, <2>2, <2>4, Frames DEF Acting, Unopened
    <2>8. Resting' /\ OpenKnown' /\ RefusalsLeft' /\ Ending'
        BY <1>1, <2>1, OnTheWay
    <2>9. Heading' /\ Asking' /\ Deciding'
        BY <2>1, <2>7 DEF Heading, Asking, Deciding
    <2>. QED
        BY <1>2, <2>1, <2>6, <2>8, <2>9 DEF RunInv
<1>6. CASE /\ ~TurnsSpent /\ ~replay
           /\ visible' = visible + Uncounted
           /\ Go(IF lease THEN "prepare" ELSE "open")
           /\ UNCHANGED <<view, bill, counts, canonical, pending, prefix, usage, paid, lease, turn>>
    <2>1. /\ at' \in {"prepare", "open"} /\ cancelled' = cancelled /\ result' = result
          /\ UNCHANGED <<view, bill, replay, ordinal, step, repairs, canonical, pending, prefix,
                         tokens, partial, metered, turns, meter, lease, armedRequest, revoked,
                         answer, error>>
        BY <1>6 DEF Go, counts, usage, paid, turn
    <2>2. visible' \in Nat
        <3>1. pending \in Seq(Item) /\ prefix \in 0..Len(pending) /\ visible \in Nat
            BY DEF RunInv, RunTypes
        <3>2. \A i \in 1..prefix : pending[i] \in Item
            BY <3>1, LenProperties, ElementOfSeq
        <3>3. SubSeq(pending, 1, prefix) \in Seq(Item)
            BY <3>1, <3>2, SubSeqProperties, LenProperties
        <3>4. Size(SubSeq(pending, 1, prefix)) \in Nat
            BY <3>3, SizeIsNat
        <3>. QED
            BY <1>6, <3>1, <3>4 DEF Uncounted
    <2>3. RunTypes'
        BY <2>1, <2>2 DEF RunInv, RunTypes, Awaits, Running
    <2>4. Resting' /\ OpenKnown' /\ RefusalsLeft' /\ Ending'
        BY <1>1, <2>1, OnTheWay
    <2>5. /\ ordinal = Latest /\ Due(Latest) /\ Extended = Continued(Latest) /\ Affordable
        <3>1. ordinal = Latest /\ Due(Latest) /\ Extended = Continued(Latest)
            BY <1>1, <1>6 DEF RunInv, Heading
        <3>2. step \in Nat /\ repairs \in Nat /\ ~(step + repairs >= MaxTurns)
            BY <1>6, ConstFacts DEF RunInv, RunTypes, TurnsSpent
        <3>. QED
            BY <3>1, <3>2, ConstFacts DEF Affordable
    <2>6. \A k : k = Latest => Due(k)' /\ Extended' = Continued(k)' /\ Affordable'
        BY <1>1, <2>1, <2>5, Frames DEF Due, TokensLeft, Extended, Affordable
    <2>7. Heading' /\ Asking' /\ Deciding'
        BY <1>1, <1>3, <2>1, <2>5, <2>6, Frames DEF Heading, Asking, Deciding
    <2>. QED
        BY <1>2, <2>1, <2>3, <2>4, <2>7 DEF RunInv
<1>. QED
    BY <1>4, <1>5, <1>6 DEF LoopHead

LEMMA OpenReturnsKeeps == ASSUME IInv, OpenReturns PROVE StoreInv' /\ RunInv'
<1>. USE DEF IInv
<1>1. /\ UNCHANGED <<policy, rec, reply, request, submitted, positions>> /\ at = "open"
      /\ at' = "prepare" /\ lease' = TRUE /\ cancelled' = cancelled /\ result' = result
      /\ UNCHANGED <<view, bill, replay, ordinal, step, repairs, canonical, pending, prefix,
                     visible, tokens, partial, metered, turns, meter, armedRequest, revoked,
                     answer, error>>
    BY DEF OpenReturns, store, journal, Go, counts, context, usage, paid, turn
<1>2. StoreInv'
    BY StoreStays DEF OpenReturns
<1>3. RunTypes'
    BY <1>1 DEF RunInv, RunTypes, Awaits, Running
<1>4. Resting' /\ OpenKnown' /\ RefusalsLeft' /\ Ending'
    BY <1>1, OnTheWay
<1>5. ordinal = Latest /\ ~armedRequest /\ Due(Latest) /\ Extended = Continued(Latest) /\ Affordable
    BY <1>1 DEF RunInv, Heading
<1>6. \A k : k = Latest => Due(k)' /\ Extended' = Continued(k)' /\ Affordable'
    BY <1>1, <1>5, Frames DEF Due, TokensLeft, Extended, Affordable
<1>7. Heading' /\ Asking' /\ Deciding'
    BY <1>1, <1>5, <1>6, Frames DEF Heading, Asking, Deciding
<1>. QED
    BY <1>1, <1>2, <1>3, <1>4, <1>7 DEF RunInv

(* The text of what the session is asked with next.                        *)
LEMMA PrepareKeeps == ASSUME IInv, Prepare PROVE StoreInv' /\ RunInv'
<1>. USE DEF IInv
<1>1. /\ UNCHANGED <<policy, rec, reply, request, submitted, positions>> /\ at = "prepare"
      /\ canonical' = Extended /\ prefix' = 0 /\ cancelled' = cancelled /\ result' = result
      /\ UNCHANGED <<view, bill, replay, ordinal, step, repairs, pending, visible, tokens,
                     partial, metered, turns, meter, lease, armedRequest, revoked, answer>>
    BY DEF Prepare, store, journal, Go, counts, usage, paid
<1>2. StoreInv'
    BY StoreStays DEF Prepare
<1>3. ordinal = Latest /\ ~armedRequest /\ Due(Latest) /\ Extended = Continued(Latest) /\ Affordable
    BY <1>1 DEF RunInv, Heading
<1>4. canonical' \in Seq(Item) /\ prefix' \in 0..Len(pending')
    BY <1>1, <1>3, AfterTypes, NewestFacts, LenProperties DEF RunInv, RunTypes
<1>5. \A k : k = Latest => /\ Due(k)' /\ Affordable' /\ canonical' = Continued(k)'
    BY <1>1, <1>3, Frames DEF Due, TokensLeft, Affordable
<1>6. CASE Fits(canonical') /\ Go("turn_owner") /\ error' = error
    <2>1. at' = "turn_owner"
        BY <1>6 DEF Go
    <2>2. RunTypes'
        BY <1>1, <1>4, <1>6, <2>1 DEF RunInv, RunTypes, Awaits
    <2>3. Resting' /\ OpenKnown' /\ RefusalsLeft' /\ Ending'
        BY <1>1, <2>1, OnTheWay
    <2>4. Size(canonical') <= MaxBytes
        BY <1>6 DEF Fits
    <2>5. \A k : k = Latest => Prepared(k)'
        BY <1>1, <1>5, <2>4 DEF Prepared
    <2>6. Heading' /\ Asking' /\ Deciding'
        BY <1>1, <1>3, <2>1, <2>5, Frames DEF Heading, Asking, Deciding
    <2>. QED
        BY <1>2, <2>1, <2>2, <2>3, <2>6 DEF RunInv
<1>7. CASE at' = "except" /\ error' = "defect"
    <2>1. RunTypes'
        BY <1>1, <1>4, <1>7 DEF RunInv, RunTypes, Awaits, Faults
    <2>2. OpenKnown' /\ Ending'
        BY <1>1, <1>7 DEF RunInv, OpenKnown, Ending, Durable, Stops
    <2>. QED
        BY <1>2, <1>7, <2>1, <2>2, WoundUp
<1>. QED
    BY <1>6, <1>7 DEF Prepare

(* There is an ordinal for every attempt that is due: the ones before it   *)
(* were paid, within the budget, or refused, as often as the host bears.   *)
LEMMA RoomLeft ==
    ASSUME StoreInv, Settled(Latest), StepAfter(Latest) + RepairsAfter(Latest) < MaxTurns,
           Cardinality(Refusals) <= MaxRefusals
    PROVE  Latest + 1 \in Ordinal
<1>1. Latest \in Nat /\ Ordinal = 1..Top /\ Top = MaxTurns + MaxRefusals + 1
    BY NewestFacts, ConstFacts DEF Top
<1>2. ASSUME NEW k \in 1..Latest PROVE k \in Paid(Latest) \cup Refusals
    <2>1. k \in Ordinal /\ k # 0
        BY <1>1, NewestFacts
    <2>2. Settled(k)
        <3>1. CASE k = Latest
            BY <3>1
        <3>2. CASE k # Latest
            <4>1. k + 1 \in 1..Latest /\ (k + 1) - 1 = k
                BY <1>1, <3>2
            <4>. QED
                BY <4>1 DEF StoreInv, Chained
        <3>. QED
            BY <3>1, <3>2
    <2>. QED
        BY <2>1, <2>2 DEF Settled, Paid, Refusals
<1>3. IsFiniteSet(Paid(Latest)) /\ Cardinality(Paid(Latest)) < MaxTurns
    BY PaidCounted
<1>4. IsFiniteSet(Refusals)
    <2>1. IsFiniteSet(1..Top)
        BY <1>1, ConstFacts, FS_Interval
    <2>. QED
        BY <1>1, <2>1, FS_Subset DEF Refusals
<1>5. /\ IsFiniteSet(Paid(Latest) \cup Refusals)
      /\ Cardinality(Paid(Latest) \cup Refusals) <= Cardinality(Paid(Latest)) + Cardinality(Refusals)
    <2>1. /\ IsFiniteSet(Paid(Latest) \cup Refusals)
          /\ IsFiniteSet(Paid(Latest) \cap Refusals)
          /\ Cardinality(Paid(Latest) \cup Refusals) =
                Cardinality(Paid(Latest)) + Cardinality(Refusals)
                - Cardinality(Paid(Latest) \cap Refusals)
        BY <1>3, <1>4, FS_Union, FS_Intersection
    <2>2. /\ Cardinality(Paid(Latest) \cap Refusals) \in Nat /\ Cardinality(Refusals) \in Nat
          /\ Cardinality(Paid(Latest)) \in Nat
        BY <1>3, <1>4, <2>1, FS_CardinalityType
    <2>. QED
        BY <2>1, <2>2
<1>6. Cardinality(1..Latest) = Latest /\ Cardinality(1..Latest) <= Cardinality(Paid(Latest) \cup Refusals)
    BY <1>1, <1>2, <1>5, FS_Subset, FS_Interval
<1>7. /\ Cardinality(Refusals) \in Nat /\ Cardinality(Paid(Latest)) \in Nat
      /\ Cardinality(Paid(Latest) \cup Refusals) \in Nat
    BY <1>3, <1>4, <1>5, FS_CardinalityType
<1>. QED
    BY <1>1, <1>3, <1>5, <1>6, <1>7, ConstFacts

LEMMA TurnOwnerReturnsKeeps == ASSUME IInv, TurnOwnerReturns PROVE StoreInv' /\ RunInv'
<1>. USE DEF IInv
<1>1. /\ UNCHANGED <<policy, rec, reply, request, submitted, positions>> /\ at = "turn_owner"
      /\ at' = "arm" /\ cancelled' = cancelled /\ result' = result
      /\ armedRequest' = Durable /\ ordinal' = ordinal + 1 /\ turns' = turns + 1
      /\ revoked' = cancelled /\ answer' = "none"
      /\ UNCHANGED <<view, bill, replay, step, repairs, canonical, pending, prefix, visible,
                     tokens, partial, metered, meter, lease, error>>
    BY DEF TurnOwnerReturns, store, journal, Go, context, usage
<1>2. StoreInv'
    BY StoreStays DEF TurnOwnerReturns
<1>3. ordinal = Latest /\ ~armedRequest /\ Prepared(Latest)
    BY <1>1 DEF RunInv, Asking
<1>4. ordinal' \in Ordinal
    <2>1. Cardinality(Refusals) <= MaxRefusals
        BY <1>1 DEF RunInv, RefusalsLeft
    <2>. QED
        BY <1>1, <1>3, <2>1, RoomLeft DEF Prepared, Due, Affordable
<1>5. (armedRequest' <=> Durable) /\ armedRequest' \in BOOLEAN
    BY <1>1 DEF Durable
<1>6. RunTypes'
    BY <1>1, <1>4, <1>5, ConstFacts DEF RunInv, RunTypes, Awaits, Running
<1>7. \A k : k = Latest => Prepared(k)'
    BY <1>1, <1>3, Frames DEF Prepared, Due, TokensLeft, Affordable
<1>8. Asking'
    BY <1>1, <1>3, <1>5, <1>7, Frames DEF Asking, Durable
<1>9. Resting' /\ Heading' /\ Deciding'
    BY <1>1 DEF Resting, Heading, Deciding
<1>10. OpenKnown' /\ RefusalsLeft' /\ Ending'
    BY <1>1, <1>5, Frames DEF RunInv, OpenKnown, RefusalsLeft, Ending, Durable, Stops
<1>. QED
    BY <1>1, <1>2, <1>6, <1>8, <1>9, <1>10 DEF RunInv

LEMMA ArmReturnsKeeps == ASSUME IInv, ArmReturns PROVE StoreInv' /\ RunInv'
<1>. USE DEF IInv
<1>1. /\ policy' = policy /\ submitted' = submitted /\ positions' = positions /\ at = "arm"
      /\ Armed /\ revoked' = (revoked \/ cancelled)
      /\ at' = "submit" /\ cancelled' = cancelled /\ result' = result
      /\ UNCHANGED <<view, bill, replay, ordinal, step, repairs, canonical, pending, prefix,
                     visible, tokens, partial, metered, turns, meter, lease, armedRequest, answer,
                     error>>
    BY DEF ArmReturns, world, Go, counts, context, usage, paid, RevokedNow
<1>2. /\ StoreInv' /\ Latest' = ordinal /\ ordinal \in Ordinal
      /\ rec' = [rec EXCEPT ![ordinal] = "armed"] /\ rec[ordinal] = "none"
      /\ Refusals' = Refusals
      /\ request'[ordinal] = [step |-> step, repairs |-> repairs, canonical |-> canonical]
    BY <1>1, ArmLands
<1>3. RunTypes'
    BY <1>1 DEF RunInv, RunTypes, Awaits, Running
<1>4. Prepared(Latest) /\ (armedRequest <=> Durable) /\ answer = "none"
    BY <1>1 DEF RunInv, Asking
<1>5. rec'[ordinal] = "armed" /\ submitted'[ordinal] = 0 /\ ordinal # 0
    <2>1. rec'[ordinal] = "armed" /\ ordinal # 0
        BY <1>2, ConstFacts DEF StoreInv, StoreTypes
    <2>2. submitted[ordinal] \in Nat /\ submitted[ordinal] <= 1 /\ submitted[ordinal] # 1
        BY <1>2 DEF StoreInv, StoreTypes, SentOnce
    <2>. QED
        BY <1>1, <2>1, <2>2
<1>6. /\ ~replay /\ prefix = 0 /\ view \o pending = canonical /\ Size(canonical) <= MaxBytes
      /\ TokensLeft
    BY <1>4 DEF Prepared, Due
<1>7. Attempting'
    BY <1>1, <1>2, <1>4, <1>5, <1>6 DEF Attempting, Durable
<1>8. TokensLeft'
    BY <1>1, <1>6 DEF TokensLeft
<1>9. Asking'
    BY <1>1, <1>4, <1>5, <1>6, <1>7, <1>8 DEF Asking
<1>10. Resting' /\ Heading' /\ Deciding'
    BY <1>1 DEF Resting, Heading, Deciding
<1>11. OpenKnown' /\ RefusalsLeft' /\ Ending'
    BY <1>1, <1>2, <1>4 DEF RunInv, OpenKnown, RefusalsLeft, Ending, Durable, Stops
<1>. QED
    BY <1>1, <1>2, <1>3, <1>9, <1>10, <1>11 DEF RunInv

-----------------------------------------------------------------------------
(* The observed turn.                                                      *)

LEMMA RecordedTypes ==
    ASSUME RunTypes, NEW report \in Reports
    PROVE  Recorded(report) \in Meter
BY DEF RunTypes, Reports, Recorded, Meter, Unknown

(* However a turn ends, it is closed as the attempt it is.                 *)
LEMMA ClosingKeeps ==
    ASSUME RunInv, NEW fault \in Faults \cup {"none"}, NEW report \in Reports,
           Closing(fault, report),
           at \in {"submit", "events", "interrupt", "draining", "accept"},
           UNCHANGED <<policy, counts, context, usage, turns, lease, armedRequest, revoked,
                       answer, request>>,
           view' \in Seq(Item), Latest' = Latest, Refusals' = Refusals,
           fault = "none" => answer # "none" /\ Committed'
    PROVE  RunInv'
<1>1. /\ at' = "turnclose" /\ error' = fault /\ cancelled' = cancelled /\ result' = result
      /\ UNCHANGED <<policy, replay, ordinal, step, repairs, canonical, pending, prefix, visible,
                     tokens, partial, metered, turns, lease, armedRequest, revoked, answer,
                     request>>
    BY DEF Closing, counts, context, usage
<1>2. meter' \in Meter
    BY RecordedTypes DEF RunInv, Closing
<1>3. bill' \in [asked : Nat, told : Nat]
    BY DEF RunInv, RunTypes, Closing
<1>4. RunTypes'
    BY <1>1, <1>2, <1>3 DEF RunInv, RunTypes, Awaits
<1>5. Attempting
    BY DEF RunInv, Asking
<1>6. Attempting'
    BY <1>1, <1>5 DEF Attempting, Durable
<1>7. Asking' /\ Deciding'
    BY <1>1, <1>6 DEF Asking, Deciding
<1>8. Resting' /\ Heading'
    BY <1>1 DEF Resting, Heading
<1>9. OpenKnown' /\ RefusalsLeft' /\ Ending'
    BY <1>1, <1>5 DEF RunInv, OpenKnown, RefusalsLeft, Ending, Durable, Attempting, Stops
<1>. QED
    BY <1>1, <1>4, <1>7, <1>8, <1>9 DEF RunInv

LEMMA SubmitReturnsKeeps == ASSUME IInv, SubmitReturns PROVE StoreInv' /\ RunInv'
<1>. USE DEF IInv
<1>1. /\ policy' = policy /\ rec' = rec /\ reply' = reply /\ request' = request
      /\ positions' = positions /\ at = "submit"
      /\ UNCHANGED <<counts, context, usage, turns, lease, armedRequest, revoked, answer>>
      /\ UNCHANGED <<replay, ordinal, step, repairs, canonical, pending, prefix, visible,
                     tokens, partial, metered, turns, lease, armedRequest, revoked, answer>>
    BY DEF SubmitReturns, journal, counts, context, usage
<1>2. /\ Attempting /\ rec[ordinal] = "armed" /\ submitted[ordinal] = 0
      /\ view \o pending = canonical /\ answer = "none" /\ canonical \in Seq(Item)
    BY <1>1 DEF RunInv, Asking, RunTypes
<1>3. StoreInv'
    <2>1. CASE submitted' = submitted
        BY <1>1, <2>1, StoreStays DEF store, journal
    <2>2. CASE Reached
        BY <1>1, <1>2, <2>2, SubmitLands DEF Reached, Attempting
    <2>. QED
        BY <2>1, <2>2 DEF SubmitReturns
<1>4. Latest' = Latest /\ Refusals' = Refusals
    BY <1>1, Frames
<1>5. CASE Reached /\ Go("events") /\ UNCHANGED <<error, meter, bill>>
    <2>1. /\ at' = "events" /\ cancelled' = cancelled /\ result' = result /\ view' = canonical
          /\ UNCHANGED <<error, meter, bill>>
        BY <1>2, <1>5 DEF Reached, Go
    <2>2. RunTypes'
        BY <1>1, <1>2, <2>1 DEF RunInv, RunTypes, Awaits
    <2>3. Attempting'
        BY <1>1, <1>2, <1>4 DEF Attempting, Durable
    <2>4. Asking'
        BY <1>1, <1>2, <2>1, <2>3 DEF Asking
    <2>5. Heading' /\ Deciding'
        BY <2>1 DEF Heading, Deciding
    <2>6. Resting' /\ OpenKnown' /\ RefusalsLeft' /\ Ending'
        BY <1>1, <2>1, OnTheWay
    <2>. QED
        BY <1>3, <2>1, <2>2, <2>4, <2>5, <2>6 DEF RunInv
<1>6. CASE /\ at' = "turnclose" /\ error' = "none" /\ UNCHANGED <<cancelled, result>>
           /\ UNCHANGED <<submitted, view, meter, bill>>
    <2>1. RunTypes'
        BY <1>1, <1>6 DEF RunInv, RunTypes, Awaits
    <2>2. Attempting'
        BY <1>1, <1>2, <1>4 DEF Attempting, Durable
    <2>3. Asking' /\ Deciding'
        BY <1>1, <1>2, <1>6, <2>2 DEF Asking, Deciding
    <2>4. Heading'
        BY <1>6 DEF Heading
    <2>5. Resting' /\ OpenKnown' /\ RefusalsLeft' /\ Ending'
        BY <1>1, <1>6, OnTheWay
    <2>. QED
        BY <1>3, <1>6, <2>1, <2>3, <2>4, <2>5 DEF RunInv
<1>7. CASE (Reached \/ UNCHANGED <<submitted, view>>) /\ Closing("unresolved", Unknown)
    <2>1. view' \in Seq(Item)
        BY <1>2, <1>7 DEF Reached, RunInv, RunTypes
    <2>2. "unresolved" \in Faults \cup {"none"} /\ Unknown \in Reports /\ "unresolved" # "none"
        BY DEF Faults, Reports
    <2>. QED
        BY <1>1, <1>3, <1>4, <1>7, <2>1, <2>2, ClosingKeeps
<1>. QED
    BY <1>5, <1>6, <1>7 DEF SubmitReturns

LEMMA TerminalArrivesKeeps == ASSUME IInv, TerminalArrives PROVE StoreInv' /\ RunInv'
<1>. USE DEF IInv
<1>1. /\ UNCHANGED <<policy, rec, reply, request, submitted, positions>>
      /\ at \in {"events", "draining"} /\ at' = "accept" /\ answer' \in Reply
      /\ cancelled' = cancelled /\ result' = result
      /\ UNCHANGED <<view, bill, replay, ordinal, step, repairs, canonical, pending, prefix,
                     visible, tokens, partial, metered, turns, meter, lease, armedRequest,
                     revoked, error>>
    BY DEF TerminalArrives, store, journal, Go, counts, context, usage, paid
<1>2. StoreInv'
    BY StoreStays DEF TerminalArrives
<1>3. Attempting /\ rec[ordinal] = "armed" /\ view = canonical
    BY <1>1 DEF RunInv, Asking
<1>4. RunTypes'
    BY <1>1 DEF RunInv, RunTypes, Awaits
<1>5. Attempting'
    BY <1>1, <1>3, Frames DEF Attempting, Durable
<1>6. Asking'
    BY <1>1, <1>3, <1>5 DEF Asking, Reply
<1>7. Heading' /\ Deciding'
    BY <1>1 DEF Heading, Deciding
<1>8. Resting' /\ OpenKnown' /\ RefusalsLeft' /\ Ending'
    BY <1>1, OnTheWay
<1>. QED
    BY <1>1, <1>2, <1>4, <1>6, <1>7, <1>8 DEF RunInv

LEMMA InterruptKeeps ==
    ASSUME IInv, Interrupt \/ InterruptReturns
    PROVE  StoreInv' /\ RunInv'
<1>. USE DEF IInv
<1>1. /\ UNCHANGED <<policy, rec, reply, request, submitted, positions>>
      /\ at \in {"events", "interrupt"} /\ at' \in {"interrupt", "draining"}
      /\ cancelled' = cancelled /\ result' = result
      /\ revoked' = TRUE \/ revoked' = revoked
      /\ UNCHANGED <<view, bill, replay, ordinal, step, repairs, canonical, pending, prefix,
                     visible, tokens, partial, metered, turns, meter, lease, armedRequest,
                     answer, error>>
    BY RunParts DEF Interrupt, InterruptReturns, store, journal, Go, counts, context, usage, paid
<1>2. StoreInv'
    BY StoreStays DEF Interrupt, InterruptReturns
<1>3. Attempting /\ rec[ordinal] = "armed" /\ view = canonical
    BY <1>1 DEF RunInv, Asking
<1>4. RunTypes'
    <2>1. CASE revoked' = TRUE
        BY <1>1, <2>1 DEF RunInv, RunTypes, Awaits
    <2>2. CASE revoked' = revoked
        BY <1>1, <2>2 DEF RunInv, RunTypes, Awaits
    <2>. QED
        BY <1>1, <2>1, <2>2
<1>5. Attempting'
    BY <1>1, <1>3, Frames DEF Attempting, Durable
<1>6. Asking'
    BY <1>1, <1>3, <1>5 DEF Asking
<1>7. Heading' /\ Deciding'
    BY <1>1 DEF Heading, Deciding
<1>8. Resting' /\ OpenKnown' /\ RefusalsLeft' /\ Ending'
    BY <1>1, OnTheWay
<1>. QED
    BY <1>1, <1>2, <1>4, <1>6, <1>7, <1>8 DEF RunInv

(* A turn that shows what it may not, or says nothing any more.            *)
LEMMA BadTurnKeeps ==
    ASSUME IInv, BadEvent \/ DrainTimeout
    PROVE  StoreInv' /\ RunInv'
<1>. USE DEF IInv
<1>1. /\ UNCHANGED <<policy, rec, reply, request, submitted, positions>>
      /\ UNCHANGED <<counts, context, usage, turns, lease, armedRequest, revoked, answer>>
      /\ at \in {"events", "draining"} /\ view' = view
    BY DEF BadEvent, DrainTimeout, store, journal
<1>2. StoreInv'
    BY StoreStays DEF BadEvent, DrainTimeout
<1>3. PICK fault \in {"defect", "unresolved", "other"}, report \in Reports : Closing(fault, report)
    BY DEF BadEvent, DrainTimeout
<1>4. fault \in Faults \cup {"none"} /\ fault # "none"
    BY DEF Faults
<1>5. view' \in Seq(Item)
    BY <1>1 DEF RunInv, RunTypes
<1>. QED
    BY <1>1, <1>2, <1>3, <1>4, <1>5, Frames, ClosingKeeps

LEMMA RefusalsStay ==
    ASSUME StoreInv, ordinal \in Ordinal, rec[ordinal] = "armed",
           rec' = [rec EXCEPT ![ordinal] = "completed"]
    PROVE  Refusals' = Refusals
<1>1. \A k \in Ordinal : rec'[k] = "refused" <=> rec[k] = "refused"
    BY DEF StoreInv, StoreTypes
<1>. QED
    BY <1>1 DEF Refusals

(* complete() has answered: the decision is what the run acts on.          *)
LEMMA CompletedLands ==
    ASSUME IInv, at = "accept", Completed, UNCHANGED <<policy, submitted, positions>>
    PROVE  /\ StoreInv' /\ Latest' = Latest /\ Refusals' = Refusals /\ request' = request
           /\ rec'[ordinal] = "completed" /\ reply'[ordinal] = answer
<1>. USE DEF IInv
<1>1. /\ Attempting /\ rec[ordinal] = "armed" /\ view = canonical /\ answer \in Reply
      /\ ordinal = Latest /\ ordinal # 0
    BY DEF RunInv, Asking, RunTypes, Attempting
<1>2. ordinal \in Ordinal
    BY <1>1, NewestFacts
<1>3. StoreInv' /\ Latest' = Latest /\ rec'[ordinal] = "completed"
    BY <1>1, NewestEnds DEF Completed
<1>4. reply'[ordinal] = answer /\ request' = request
    BY <1>2 DEF Completed, StoreInv, StoreTypes
<1>. QED
    BY <1>1, <1>2, <1>3, <1>4, RefusalsStay DEF Completed

LEMMA AcceptReturnsKeeps == ASSUME IInv, AcceptReturns PROVE StoreInv' /\ RunInv'
<1>. USE DEF IInv
<1>1. /\ at = "accept" /\ Completed /\ UNCHANGED <<policy, submitted, positions>>
      /\ UNCHANGED <<counts, context, usage, turns, lease, armedRequest, revoked, answer>>
      /\ UNCHANGED <<ordinal, canonical, answer>>
      /\ view' = Append(view, Text(ordinal))
    BY DEF AcceptReturns, counts, context
<1>2. /\ StoreInv' /\ Latest' = Latest /\ Refusals' = Refusals /\ request' = request
      /\ rec'[ordinal] = "completed" /\ reply'[ordinal] = answer
    BY <1>1, CompletedLands
<1>3. /\ view = canonical /\ answer # "none" /\ view \in Seq(Item) /\ ordinal \in Nat
    BY <1>1, ConstFacts DEF RunInv, Asking, RunTypes
<1>4. view' \in Seq(Item)
    BY <1>1, <1>3, ItemFacts, AppendProperties
<1>5. Committed'
    BY <1>1, <1>2, <1>3 DEF Committed
<1>6. PICK report \in Reports : Closing("none", report)
    BY DEF AcceptReturns
<1>. QED
    BY <1>1, <1>2, <1>3, <1>4, <1>5, <1>6, ClosingKeeps

LEMMA TurnCloseReturnsKeeps == ASSUME IInv, TurnCloseReturns PROVE StoreInv' /\ RunInv'
<1>. USE DEF IInv
<1>1. /\ UNCHANGED <<policy, rec, reply, request, submitted, positions>> /\ at = "turnclose"
    BY DEF TurnCloseReturns, store, journal
<1>2. StoreInv'
    BY StoreStays DEF TurnCloseReturns
<1>3. Attempting
    BY <1>1 DEF RunInv, Asking
<1>4. CASE error # "none" /\ Throw(error)
    <2>1. error \in Faults
        BY <1>4 DEF RunInv, RunTypes
    <2>2. Durable /\ ~armedRequest => \A k \in Ordinal : rec'[k] # "armed"
        BY <1>3 DEF Attempting
    <2>. QED
        BY <1>1, <1>2, <1>4, <2>1, <2>2, ThrowKeeps
<1>5. CASE error = "none" /\ answer = "none" /\ Go("refuse") /\ UNCHANGED run
    <2>1. at' = "refuse" /\ UNCHANGED <<cancelled, result>>
        BY <1>5 DEF Go
    <2>2. rec[ordinal] = "armed" /\ submitted[ordinal] = 0
        BY <1>1, <1>5 DEF RunInv, Deciding
    <2>3. RunTypes'
        BY <1>5, <2>1, RunParts DEF RunInv, RunTypes, Awaits
    <2>4. Attempting'
        BY <1>1, <1>3, <1>5, RunParts, Frames DEF Attempting, Durable
    <2>5. Asking'
        BY <1>1, <1>5, <2>1, <2>2, <2>4, RunParts DEF Asking
    <2>6. Heading' /\ Deciding'
        BY <2>1 DEF Heading, Deciding
    <2>7. Resting' /\ OpenKnown' /\ RefusalsLeft' /\ Ending'
        BY <1>1, <1>5, <2>1, RunParts, OnTheWay
    <2>. QED
        BY <1>2, <2>1, <2>3, <2>5, <2>6, <2>7 DEF RunInv
<1>6. CASE /\ error = "none" /\ answer # "none"
           /\ pending' = <<>> /\ armedRequest' = FALSE /\ Go("usage")
           /\ UNCHANGED <<view, bill, counts, canonical, prefix, visible, usage, paid, lease,
                          revoked, answer, error>>
    <2>1. /\ at' = "usage" /\ cancelled' = cancelled /\ result' = result
          /\ UNCHANGED <<view, bill, replay, ordinal, step, repairs, canonical, prefix, visible,
                         tokens, partial, metered, turns, meter, lease, revoked, answer, error>>
        BY <1>6 DEF Go, counts, usage, paid
    <2>2. Committed
        BY <1>1, <1>6 DEF RunInv, Deciding
    <2>3. /\ ordinal = Latest /\ ordinal # 0 /\ ~replay /\ prefix = 0
          /\ step = request[ordinal].step /\ repairs = request[ordinal].repairs
          /\ canonical = request[ordinal].canonical
        BY <1>3 DEF Attempting
    <2>4. pending' \in Seq(Item) /\ prefix' \in 0..Len(pending')
        BY <1>6, <2>1, <2>3, EmptySeq
    <2>5. RunTypes'
        BY <1>6, <2>1, <2>4 DEF RunInv, RunTypes, Awaits
    <2>6. Deciding'
        BY <1>1, <1>6, <2>1, <2>2, <2>3, Frames DEF Deciding, Committed
    <2>7. Resting' /\ Heading' /\ Asking'
        BY <2>1 DEF Resting, Heading, Asking
    <2>8. OpenKnown'
        BY <1>1, <2>2, <2>3, OnlyNewestOpen DEF OpenKnown, Committed
    <2>9. RefusalsLeft' /\ Ending'
        BY <1>1, <2>1, Frames DEF RunInv, RefusalsLeft, Ending, Stops
    <2>. QED
        BY <1>2, <2>1, <2>5, <2>6, <2>7, <2>8, <2>9 DEF RunInv
<1>. QED
    BY <1>4, <1>5, <1>6 DEF TurnCloseReturns

(* not_submitted() has answered, the attempt is given up.                  *)
LEMMA RefusedLands ==
    ASSUME IInv, at = "refuse", Refused, UNCHANGED <<policy, submitted, positions>>
    PROVE  /\ StoreInv' /\ Latest' = Latest /\ \A k \in Ordinal : rec'[k] # "armed"
<1>. USE DEF IInv
<1>1. /\ Attempting /\ rec[ordinal] = "armed" /\ submitted[ordinal] = 0
      /\ ordinal = Latest /\ ordinal # 0
    BY DEF RunInv, Asking, Attempting
<1>2. ordinal \in Ordinal
    BY <1>1, NewestFacts
<1>3. StoreInv' /\ Latest' = Latest /\ rec'[ordinal] = "refused"
    BY <1>1, NewestEnds DEF Refused
<1>4. ASSUME NEW k \in Ordinal, k # ordinal PROVE rec'[k] # "armed"
    BY <1>1, <1>2, <1>4, OnlyNewestOpen DEF Refused, StoreInv, StoreTypes
<1>. QED
    BY <1>3, <1>4

LEMMA RefuseReturnsKeeps ==
    ASSUME IInv, RefuseReturns
    PROVE  StoreInv' /\ RunInv'
<1>. USE DEF IInv
<1>1. /\ at = "refuse" /\ Refused /\ UNCHANGED <<policy, submitted, positions>>
      /\ at' = "account" /\ turns' = turns - 1 /\ armedRequest' = FALSE
      /\ result' \in {"cancelled", "provider_error"} /\ cancelled' = cancelled
      /\ UNCHANGED <<view, bill, replay, ordinal, step, repairs, canonical, pending, prefix,
                     visible, tokens, partial, metered, meter, lease, revoked, answer, error>>
    BY DEF RefuseReturns, counts, context, usage
<1>2. StoreInv' /\ \A k \in Ordinal : rec'[k] # "armed"
    BY <1>1, RefusedLands
<1>3. turns' \in Nat
    BY <1>1 DEF BillInv, TurnsCounted, RunInv, RunTypes
<1>4. RunTypes'
    BY <1>1, <1>3 DEF RunInv, RunTypes, Awaits, Stops
<1>5. OpenKnown' /\ Ending'
    BY <1>1, <1>2 DEF OpenKnown, Ending, Stops
<1>. QED
    BY <1>1, <1>2, <1>4, <1>5, WoundUp

-----------------------------------------------------------------------------
(* Accounting for the session.                                             *)

(* The lease says what the turns are known to have cost.                   *)
LEMMA LeaseUsageIs == ASSUME RunTypes, BillInv PROVE LeaseUsage = Bill
<1>1. /\ bill.asked \in Nat /\ bill.told \in Nat /\ meter.turns = bill.asked
      /\ meter.complete <=> bill.told = bill.asked
      /\ meter.complete => meter.tokens = bill.told
    BY DEF RunTypes, BillInv, Metered
<1>. QED
    BY <1>1 DEF LeaseUsage, Bill

(* So the run holds just that when it has asked.                           *)
LEMMA AccountBill ==
    ASSUME IInv, Account
    PROVE  /\ tokens' = Bill /\ metered' = Bill /\ Bill \in Nat \cup {Unknown}
           /\ partial' \in BOOLEAN
           /\ partial' => Bill = Unknown /\ (bill.told # bill.asked \/ bill.asked = 0)
<1>. USE DEF IInv
<1>1. /\ bill.asked \in Nat /\ bill.told \in Nat /\ turns \in Nat /\ partial \in BOOLEAN
      /\ tokens \in Nat \cup {Unknown} /\ bill.told <= bill.asked
    BY DEF RunInv, RunTypes, BillInv, Metered
<1>2. Bill \in Nat \cup {Unknown} /\ (Bill = Unknown <=> bill.told # bill.asked \/ bill.asked = 0)
    BY <1>1 DEF Bill, Unknown
<1>3. /\ metered' = Bill /\ (partial' <=> partial \/ (Bill = Unknown /\ turns > 0))
      /\ partial' \in BOOLEAN
    BY LeaseUsageIs DEF RunInv, Account
<1>4. partial => Bill = Unknown
    BY <1>2 DEF BillInv, Accounted
<1>5. CASE partial'
    <2>1. tokens' = Unknown
        BY <1>5 DEF Account
    <2>. QED
        BY <1>2, <1>3, <1>4, <1>5, <2>1
<1>6. CASE ~partial' /\ Bill = Unknown
    <2>1. ~partial /\ ~(turns > 0) /\ tokens' = tokens
        BY <1>3, <1>6, LeaseUsageIs DEF RunInv, Account
    <2>2. bill.asked = 0
        BY <1>1, <2>1 DEF BillInv, TurnsCounted
    <2>. QED
        BY <1>2, <1>3, <1>6, <2>1, <2>2 DEF BillInv, Accounted
<1>7. CASE ~partial' /\ Bill # Unknown
    <2>1. ~partial /\ tokens' = Known(tokens) + Bill - Known(metered)
        BY <1>3, <1>7, LeaseUsageIs DEF RunInv, Account
    <2>2. tokens = metered
        BY <2>1 DEF BillInv, Accounted
    <2>3. Known(tokens) \in Nat
        BY <1>1 DEF Known, Unknown
    <2>. QED
        BY <1>2, <1>3, <1>7, <2>1, <2>2, <2>3
<1>. QED
    BY <1>5, <1>6, <1>7

LEMMA UsageReturnsKeeps == ASSUME IInv, UsageReturns PROVE StoreInv' /\ RunInv'
<1>. USE DEF IInv
<1>1. /\ UNCHANGED <<policy, rec, reply, request, submitted, positions>> /\ at = "usage"
      /\ at' = "answer" /\ cancelled' = cancelled /\ result' = result
      /\ canonical' = Append(canonical, Text(ordinal))
      /\ UNCHANGED <<view, bill, replay, ordinal, step, repairs, pending, prefix, visible, turns,
                     meter, lease, armedRequest, revoked, answer, error>>
    BY DEF UsageReturns, store, journal, Go, counts, paid, turn
<1>2. StoreInv'
    BY StoreStays DEF UsageReturns
<1>3. /\ ~replay /\ ~armedRequest /\ prefix = 0 /\ pending = <<>>
      /\ ordinal = Latest /\ ordinal # 0 /\ Committed
      /\ step = request[ordinal].step /\ repairs = request[ordinal].repairs
      /\ canonical = request[ordinal].canonical
    BY <1>1 DEF RunInv, Deciding
<1>4. canonical' \in Seq(Item)
    BY <1>1, ConstFacts, ItemFacts, AppendProperties DEF RunInv, RunTypes
<1>5. tokens' \in Nat \cup {Unknown} /\ partial' \in BOOLEAN /\ metered' \in Nat \cup {Unknown}
    BY AccountBill DEF UsageReturns
<1>6. RunTypes'
    BY <1>1, <1>4, <1>5 DEF RunInv, RunTypes, Running
<1>7. Acting'
    BY <1>1, <1>3, Frames DEF Acting, Committed
<1>8. Deciding'
    BY <1>1, <1>3, <1>7 DEF Deciding
<1>9. Heading' /\ Asking'
    BY <1>1 DEF Heading, Asking
<1>10. Resting' /\ OpenKnown' /\ RefusalsLeft' /\ Ending'
    BY <1>1, OnTheWay
<1>. QED
    BY <1>1, <1>2, <1>6, <1>8, <1>9, <1>10 DEF RunInv

-----------------------------------------------------------------------------
(* What the decision asks for.                                             *)

(* What answers a decision joins the session as it joins the canonical     *)
(* history.                                                                *)
LEMMA AnswerJoins ==
    ASSUME RunTypes, Acting, NEW a \in Item, pending' = Append(pending, a),
           UNCHANGED <<view, canonical, prefix>>
    PROVE  /\ view' \o pending' = Append(canonical, a) /\ Extended' = Append(canonical, a)
           /\ pending' \in Seq(Item) /\ prefix' \in 0..Len(pending')
<1>1. canonical \in Seq(Item) /\ Len(canonical) \in Nat
    BY LenProperties DEF RunTypes
<1>2. CASE view = canonical /\ pending = <<>> /\ prefix = 0
    BY <1>1, <1>2, Joins DEF Extended
<1>3. CASE view = <<>> /\ pending = canonical /\ prefix = Len(canonical)
    <2>1. Append(canonical, a) \in Seq(Item)
        BY <1>1, Joins
    <2>2. <<>> \o Append(canonical, a) = Append(canonical, a)
        BY <2>1, Joins
    <2>. QED
        BY <1>1, <1>3, <2>1, <2>2, Joins DEF Extended
<1>. QED
    BY <1>2, <1>3 DEF Acting

LEMMA TokensLeftNow ==
    ASSUME IInv, at = "answer", ~TokensSpent
    PROVE  TokensLeft
<1>1. tokens = Bill /\ bill.told <= bill.asked /\ bill.asked \in Nat /\ bill.told \in Nat
    BY DEF IInv, BillInv, Metered, Accounted, RunInv, RunTypes
<1>. QED
    BY <1>1, ConstFacts DEF Bill, TokensSpent, TokensLeft, Unknown

LEMMA AnswerStopsKeeps ==
    ASSUME IInv, AnswerStops \/ RepairOverflows
    PROVE  StoreInv' /\ RunInv'
<1>. USE DEF IInv
<1>1. UNCHANGED <<policy, rec, reply, request, submitted, positions>> /\ at = "answer"
    BY DEF AnswerStops, RepairOverflows, store, journal
<1>2. StoreInv'
    BY StoreStays DEF AnswerStops, RepairOverflows
<1>3. Acting
    BY <1>1 DEF RunInv, Deciding
<1>4. Durable => \A k \in Ordinal : rec[k] # "armed"
    BY <1>1, <1>3 DEF RunInv, OpenKnown, Acting
<1>5. CASE Throw("defect")
    <2>1. "defect" \in Faults
        BY DEF Faults
    <2>. QED
        BY <1>1, <1>2, <1>4, <1>5, <2>1, ThrowKeeps
<1>6. CASE \E how \in {"cancelled", "provider_error", "budget_exhausted", "protocol_error"} :
              Stop(how)
    <2>1. \A how \in {"cancelled", "provider_error", "budget_exhausted", "protocol_error"} :
              Promised(how)'
        BY <1>1, <1>4 DEF Promised, Stops, Durable
    <2>. QED
        BY <1>2, <1>6, <2>1, StopKeeps
<1>7. CASE answer = "finish" /\ Stop("completed")
    <2>1. \A how : how = "completed" => Promised(how)'
        BY <1>1, <1>3, <1>7, Frames DEF Promised, Stops, Acting
    <2>. QED
        BY <1>2, <1>7, <2>1, StopKeeps
<1>. QED
    BY <1>5, <1>6, <1>7 DEF AnswerStops, RepairOverflows

LEMMA AnswerRepairKeeps == ASSUME IInv, AnswerRepair PROVE StoreInv' /\ RunInv'
<1>. USE DEF IInv
<1>1. /\ UNCHANGED <<policy, rec, reply, request, submitted, positions>> /\ at = "answer"
      /\ at' = "head" /\ cancelled' = cancelled /\ result' = result /\ repairs' = repairs + 1
      /\ answer = "invalid" /\ ~TokensSpent /\ ~RepairsSpent
      /\ visible' = visible + Bytes["correction"]
      /\ pending' = Append(pending, <<"correction", ordinal>>)
      /\ UNCHANGED <<view, bill, replay, ordinal, step, canonical, prefix, tokens, partial,
                     metered, turns, meter, lease, armedRequest, revoked, answer, error>>
    BY DEF AnswerRepair, Answers, store, journal, Go, usage, paid, turn
<1>2. StoreInv'
    BY StoreStays DEF AnswerRepair
<1>3. Acting /\ step = request[ordinal].step
    BY <1>1 DEF RunInv, Deciding
<1>4. /\ ordinal = Latest /\ ordinal # 0 /\ ordinal \in Ordinal /\ ordinal \in Nat
      /\ rec[ordinal] = "completed" /\ reply[ordinal] = "invalid" /\ ~replay /\ ~armedRequest
      /\ repairs = request[ordinal].repairs
      /\ canonical = Append(request[ordinal].canonical, Text(ordinal))
    BY <1>1, <1>3, NewestFacts DEF Acting
<1>5. /\ After(ordinal, "invalid") = <<"correction", ordinal>>
      /\ After(ordinal, "invalid") \in Item
    BY <1>4, ItemFacts DEF After
<1>6. /\ view' \o pending' = Append(canonical, After(ordinal, "invalid"))
      /\ Extended' = Append(canonical, After(ordinal, "invalid"))
      /\ pending' \in Seq(Item) /\ prefix' \in 0..Len(pending')
    BY <1>1, <1>3, <1>5, AnswerJoins DEF RunInv
<1>7. /\ Settled(Latest) /\ step = StepAfter(Latest) /\ repairs + 1 = RepairsAfter(Latest)
      /\ Continued(Latest) = Append(canonical, After(ordinal, "invalid"))
    <2>1. request[ordinal].step \in Nat
        BY <1>4 DEF StoreInv, StoreTypes, Requests
    <2>. QED
        BY <1>3, <1>4, <2>1 DEF Settled, StepAfter, RepairsAfter, Continued
<1>8. visible' \in Nat /\ repairs' \in 0..MaxRepairs
    BY <1>1, ConstFacts DEF RunInv, RunTypes, RepairsSpent
<1>9. RunTypes'
    BY <1>1, <1>6, <1>8 DEF RunInv, RunTypes, Running
<1>10. TokensLeft'
    BY <1>1, TokensLeftNow DEF TokensLeft
<1>11. \A k : k = Latest => Due(k)' /\ Extended' = Continued(k)'
    BY <1>1, <1>4, <1>6, <1>7, <1>10, Frames DEF Due
<1>12. Heading'
    BY <1>1, <1>4, <1>11, Frames DEF Heading
<1>13. Asking' /\ Deciding'
    BY <1>1 DEF Asking, Deciding
<1>14. Resting' /\ OpenKnown' /\ RefusalsLeft' /\ Ending'
    BY <1>1, OnTheWay
<1>. QED
    BY <1>1, <1>2, <1>9, <1>12, <1>13, <1>14 DEF RunInv

LEMMA AnswerToolKeeps ==
    ASSUME IInv, AnswerTool \/ ToolOwnerReturns
    PROVE  StoreInv' /\ RunInv'
<1>. USE DEF IInv
<1>1. /\ UNCHANGED <<policy, rec, reply, request, submitted, positions>>
      /\ at \in {"answer", "tool_owner"} /\ at' \in {"tool_owner", "dispatch"}
      /\ cancelled' = cancelled /\ result' = result
      /\ UNCHANGED <<view, bill, replay, ordinal, repairs, canonical, pending, prefix, visible,
                     tokens, partial, metered, turns, meter, lease, armedRequest, revoked, answer,
                     error>>
    BY RunParts DEF AnswerTool, ToolOwnerReturns, store, journal, Go, context, usage, paid, turn
<1>2. StoreInv'
    BY StoreStays DEF AnswerTool, ToolOwnerReturns
<1>3. Acting
    BY <1>1 DEF RunInv, Deciding
<1>4. Acting'
    BY <1>1, <1>3, Frames DEF Acting
<1>5. answer = "tool" /\ step' = request[ordinal].step + 1 /\ TokensLeft
    <2>1. CASE AnswerTool
        BY <1>1, <2>1, TokensLeftNow DEF AnswerTool, RunInv, Deciding
    <2>2. CASE ToolOwnerReturns
        BY <1>1, <2>2, RunParts DEF ToolOwnerReturns, RunInv, Deciding
    <2>. QED
        BY <2>1, <2>2
<1>6. step' \in 0..MaxTurns
    <2>1. ordinal \in 1..Latest /\ ordinal \in Ordinal
        BY <1>3, NewestFacts DEF Acting
    <2>2. /\ request[ordinal].step \in Nat /\ request[ordinal].repairs \in Nat
          /\ request[ordinal].step + request[ordinal].repairs < MaxTurns
        BY <2>1 DEF StoreInv, StoreTypes, Requests, Chained
    <2>. QED
        BY <1>5, <2>2, ConstFacts
<1>7. RunTypes'
    BY <1>1, <1>6 DEF RunInv, RunTypes, Awaits
<1>8. TokensLeft'
    BY <1>1, <1>5 DEF TokensLeft
<1>9. Deciding'
    BY <1>1, <1>4, <1>5, <1>8 DEF Deciding
<1>10. Heading' /\ Asking'
    BY <1>1 DEF Heading, Asking
<1>11. Resting' /\ OpenKnown' /\ RefusalsLeft' /\ Ending'
    BY <1>1, OnTheWay
<1>. QED
    BY <1>1, <1>2, <1>7, <1>9, <1>10, <1>11 DEF RunInv

(* The tool has run, or was refused; its observation answers the decision. *)
LEMMA DispatchReturnsKeeps == ASSUME IInv, DispatchReturns PROVE StoreInv' /\ RunInv'
<1>. USE DEF IInv
<1>1. /\ UNCHANGED <<policy, rec, reply, request, submitted>> /\ at = "dispatch"
      /\ positions' = positions \cup {<<ordinal, step>>}
    BY DEF DispatchReturns, journal, Dispatched
<1>2. Acting /\ answer = "tool" /\ step = request[ordinal].step + 1 /\ TokensLeft
    BY <1>1 DEF RunInv, Deciding
<1>3. /\ ordinal = Latest /\ ordinal # 0 /\ ordinal \in Ordinal /\ ordinal \in Nat
      /\ rec[ordinal] = "completed" /\ reply[ordinal] = "tool" /\ ~replay /\ ~armedRequest
      /\ repairs = request[ordinal].repairs
      /\ canonical = Append(request[ordinal].canonical, Text(ordinal))
    BY <1>2, NewestFacts DEF Acting
<1>4. /\ StoreInv' /\ Latest' = Latest
      /\ \A k : /\ StepAfter(k)' = StepAfter(k) /\ RepairsAfter(k)' = RepairsAfter(k)
                /\ Continued(k)' = Continued(k)
      /\ \A k : k = ordinal => Settled(k)'
    BY <1>1, <1>2, <1>3, DispatchLands
<1>5. Durable => \A k \in Ordinal : rec[k] # "armed"
    BY <1>1, <1>3 DEF RunInv, OpenKnown
<1>6. CASE Throw("defect")
    <2>1. "defect" \in Faults
        BY DEF Faults
    <2>. QED
        BY <1>1, <1>4, <1>5, <1>6, <2>1, ThrowKeeps
<1>7. CASE \E how \in {"cancelled", "configuration_error"} : Stop(how)
    <2>1. \A how \in {"cancelled", "configuration_error"} : Promised(how)'
        BY <1>1, <1>5 DEF Promised, Stops, Durable
    <2>. QED
        BY <1>4, <1>7, <2>1, StopKeeps
<1>8. CASE /\ Answers("observation") /\ Go("head")
           /\ UNCHANGED <<view, bill, counts, canonical, prefix, usage, paid, lease, turn>>
    <2>1. /\ at' = "head" /\ cancelled' = cancelled /\ result' = result
          /\ visible' = visible + Bytes["observation"]
          /\ pending' = Append(pending, <<"observation", ordinal>>)
          /\ UNCHANGED <<view, bill, replay, ordinal, step, repairs, canonical, prefix, tokens,
                         partial, metered, turns, meter, lease, armedRequest, revoked, answer,
                         error>>
        BY <1>8 DEF Answers, Go, counts, usage, paid, turn
    <2>2. /\ After(ordinal, "tool") = <<"observation", ordinal>>
          /\ After(ordinal, "tool") \in Item
        BY <1>3, ItemFacts DEF After
    <2>3. /\ view' \o pending' = Append(canonical, After(ordinal, "tool"))
          /\ Extended' = Append(canonical, After(ordinal, "tool"))
          /\ pending' \in Seq(Item) /\ prefix' \in 0..Len(pending')
        BY <1>2, <2>1, <2>2, AnswerJoins DEF RunInv
    <2>4. /\ step = StepAfter(Latest) /\ repairs = RepairsAfter(Latest)
          /\ Continued(Latest) = Append(canonical, After(ordinal, "tool"))
        <3>1. request[ordinal].repairs \in Nat
            BY <1>3 DEF StoreInv, StoreTypes, Requests
        <3>. QED
            BY <1>2, <1>3, <3>1 DEF StepAfter, RepairsAfter, Continued
    <2>5. visible' \in Nat
        BY <2>1, ConstFacts DEF RunInv, RunTypes
    <2>6. RunTypes'
        BY <2>1, <2>3, <2>5 DEF RunInv, RunTypes, Running
    <2>7. TokensLeft'
        BY <1>2, <2>1 DEF TokensLeft
    <2>8. \A k : k = Latest => Due(k)' /\ Extended' = Continued(k)'
        BY <1>3, <1>4, <2>1, <2>3, <2>4, <2>7 DEF Due
    <2>9. Heading'
        BY <1>3, <1>4, <2>1, <2>8 DEF Heading
    <2>10. Resting' /\ Asking' /\ Deciding'
        BY <2>1 DEF Resting, Asking, Deciding
    <2>11. OpenKnown' /\ RefusalsLeft' /\ Ending'
        <3>1. Refusals' = Refusals
            BY <1>1 DEF Refusals
        <3>. QED
            BY <1>1, <1>5, <2>1, <3>1
            DEF RunInv, OpenKnown, RefusalsLeft, Ending, Durable, Stops
    <2>. QED
        BY <1>4, <2>1, <2>6, <2>9, <2>10, <2>11 DEF RunInv
<1>. QED
    BY <1>6, <1>7, <1>8 DEF DispatchReturns

-----------------------------------------------------------------------------
(* The except clauses and finally.                                         *)

LEMMA ExceptReturnsKeeps == ASSUME IInv, ExceptReturns PROVE StoreInv' /\ RunInv'
<1>. USE DEF IInv
<1>1. /\ UNCHANGED <<policy, rec, reply, request, submitted, positions>> /\ at = "except"
      /\ at' = "account" /\ result' = Mapped(error) /\ cancelled' = cancelled
      /\ UNCHANGED <<view, bill, replay, ordinal, step, repairs, canonical, pending, prefix,
                     visible, turns, meter, lease, armedRequest, revoked, answer, error>>
    BY DEF ExceptReturns, store, journal, counts, context, paid, turn
<1>2. StoreInv'
    BY StoreStays DEF ExceptReturns
<1>3. error \in Faults
    BY <1>1 DEF RunInv, RunTypes, Ending
<1>4. result' \in Stops \cup {"raised"}
    BY <1>1, <1>3 DEF Mapped, Faults, Stops
<1>5. result' \in Stops \ {"uncertain", "configuration_error"} => ~armedRequest
    BY <1>1, <1>3 DEF Mapped, Faults, Stops
<1>6. tokens' \in Nat \cup {Unknown} /\ partial' \in BOOLEAN /\ metered' \in Nat \cup {Unknown}
    BY AccountBill DEF ExceptReturns
<1>7. RunTypes'
    BY <1>1, <1>4, <1>6 DEF RunInv, RunTypes, Awaits
<1>8. OpenKnown'
    BY <1>1 DEF OpenKnown
<1>9. Ending'
    BY <1>1, <1>4, <1>5 DEF RunInv, OpenKnown, Ending, Durable, Stops
<1>. QED
    BY <1>1, <1>2, <1>7, <1>8, <1>9, WoundUp

LEMMA AccountReturnsKeeps == ASSUME IInv, AccountReturns PROVE StoreInv' /\ RunInv'
<1>. USE DEF IInv
<1>1. /\ UNCHANGED <<policy, rec, reply, request, submitted, positions>> /\ at = "account"
      /\ at' = "close" /\ result' = result /\ cancelled' = cancelled
      /\ UNCHANGED <<view, bill, replay, ordinal, step, repairs, canonical, pending, prefix,
                     visible, turns, meter, lease, armedRequest, revoked, answer, error>>
    BY DEF AccountReturns, store, journal, Go, counts, context, paid, turn
<1>2. StoreInv'
    BY StoreStays DEF AccountReturns
<1>3. tokens' \in Nat \cup {Unknown} /\ partial' \in BOOLEAN /\ metered' \in Nat \cup {Unknown}
    BY AccountBill DEF AccountReturns
<1>4. RunTypes'
    BY <1>1, <1>3 DEF RunInv, RunTypes, Awaits
<1>5. OpenKnown' /\ Ending'
    BY <1>1, Frames DEF RunInv, OpenKnown, Ending, Durable
<1>. QED
    BY <1>1, <1>2, <1>4, <1>5, WoundUp

LEMMA CloseReturnsKeeps == ASSUME IInv, CloseReturns PROVE StoreInv' /\ RunInv'
<1>. USE DEF IInv
<1>1. UNCHANGED <<policy, rec, reply, request, submitted, positions>> /\ at = "close" /\ Finish(result)
    BY DEF CloseReturns, store, journal
<1>2. StoreInv'
    BY StoreStays DEF CloseReturns
<1>3. result # "none"
    BY <1>1 DEF RunInv, Ending
<1>4. \A how : how = result => Promised(how)'
    BY <1>1, <1>3, Frames DEF RunInv, RunTypes, Ending, Promised, Durable
<1>. QED
    BY <1>1, <1>2, <1>4, FinishKeeps

-----------------------------------------------------------------------------
(* A call of a port that is interrupted, and may have taken effect.        *)

LEMMA LandedKeeps ==
    ASSUME IInv, Suspended, Landed, policy' = policy
    PROVE  /\ StoreInv'
           /\ at \in {"submit", "events", "interrupt", "draining", "accept"} =>
                 Latest' = Latest /\ Refusals' = Refusals /\ request' = request
           /\ at \notin {"rest", "latest", "account", "close"} /\ Durable /\ ~armedRequest =>
                 \A k \in Ordinal : rec'[k] # "armed"
<1>. USE DEF IInv
<1>1. CASE UNCHANGED <<journal, submitted, positions>>
    <2>1. UNCHANGED store /\ rec' = rec /\ reply' = reply /\ request' = request
          /\ positions' = positions
        BY <1>1 DEF store, journal
    <2>. QED
        BY <2>1, StoreStays, Frames DEF RunInv, OpenKnown
<1>2. CASE at = "arm" /\ Armed /\ UNCHANGED <<submitted, positions>>
    <2>1. armedRequest <=> Durable
        BY <1>2 DEF RunInv, Asking
    <2>. QED
        BY <1>2, <2>1, ArmLands
<1>3. CASE at = "accept" /\ Completed /\ UNCHANGED <<submitted, positions>>
    <2>1. armedRequest <=> Durable
        BY <1>3 DEF RunInv, Asking, Attempting
    <2>. QED
        BY <1>3, <2>1, CompletedLands
<1>4. CASE at = "refuse" /\ Refused /\ UNCHANGED <<submitted, positions>>
    BY <1>4, RefusedLands
<1>5. CASE /\ at = "submit" /\ submitted' = [submitted EXCEPT ![ordinal] = @ + 1]
           /\ UNCHANGED <<journal, positions>>
    <2>1. rec' = rec /\ reply' = reply /\ request' = request /\ positions' = positions
        BY <1>5 DEF journal
    <2>2. Attempting /\ rec[ordinal] = "armed" /\ submitted[ordinal] = 0
        BY <1>5 DEF RunInv, Asking
    <2>3. StoreInv'
        BY <1>5, <2>1, <2>2, SubmitLands DEF Attempting
    <2>. QED
        BY <1>5, <2>1, <2>2, <2>3, Frames DEF Attempting
<1>6. CASE at = "dispatch" /\ Dispatched /\ UNCHANGED <<journal, submitted>>
    <2>1. /\ rec' = rec /\ reply' = reply /\ request' = request /\ submitted' = submitted
          /\ positions' = positions \cup {<<ordinal, step>>}
        BY <1>6 DEF journal, Dispatched
    <2>2. Acting /\ answer = "tool" /\ step = request[ordinal].step + 1
        BY <1>6 DEF RunInv, Deciding
    <2>3. StoreInv'
        BY <2>1, <2>2, DispatchLands DEF Acting
    <2>. QED
        BY <1>6, <2>1, <2>3 DEF RunInv, OpenKnown
<1>. QED
    BY <1>1, <1>2, <1>3, <1>4, <1>5, <1>6 DEF Landed

LEMMA CrashKeeps == ASSUME IInv, Crash PROVE StoreInv' /\ RunInv'
<1>1. StoreInv'
    BY LandedKeeps DEF Crash
<1>2. \A how : how = "crashed" => Promised(how)'
    BY DEF Promised, Stops
<1>. QED
    BY <1>1, <1>2, FinishKeeps DEF Crash

LEMMA PortFailsKeeps == ASSUME IInv, PortFails PROVE StoreInv' /\ RunInv'
<1>. USE DEF IInv
<1>1. Suspended /\ Landed /\ policy' = policy /\ at # "turnclose" /\ at # "rest"
    BY DEF PortFails, Suspended, Awaits
<1>2. /\ StoreInv'
      /\ at \in {"submit", "events", "interrupt", "draining", "accept"} =>
            Latest' = Latest /\ Refusals' = Refusals /\ request' = request
      /\ at \notin {"rest", "latest", "account", "close"} /\ Durable /\ ~armedRequest =>
            \A k \in Ordinal : rec'[k] # "armed"
    BY <1>1, LandedKeeps
<1>3. PICK fault \in Faults \ {"unresolved"} :
          CASE at \in {"latest", "owner", "close"} -> Finish("raised")
            [] at = "except"  -> Lost("account")
            [] at = "account" -> Lost("close")
            [] at \in {"submit", "events", "interrupt", "draining", "accept"} ->
                  /\ \E report \in IF at = "submit" THEN {Unknown} ELSE Reports :
                        Closing(fault, report)
                  /\ UNCHANGED <<view, counts, context, usage, turns, lease, armedRequest,
                                 revoked, answer>>
            [] OTHER -> Throw(fault)
    BY DEF PortFails
<1>4. CASE at \in {"latest", "owner", "close"}
    <2>1. \A how : how = "raised" => Promised(how)'
        BY DEF Promised, Stops
    <2>2. Finish("raised")
        BY <1>3, <1>4
    <2>. QED
        BY <1>2, <2>1, <2>2, FinishKeeps
<1>5. CASE at \in {"except", "account"}
    <2>1. /\ at' \in {"account", "close"} /\ result' = "raised" /\ cancelled' = cancelled
          /\ UNCHANGED run
        BY <1>3, <1>5 DEF Lost
    <2>2. RunTypes'
        BY <2>1, RunParts DEF RunInv, RunTypes, Awaits
    <2>3. OpenKnown' /\ Ending'
        BY <2>1 DEF OpenKnown, Ending, Stops
    <2>. QED
        BY <1>2, <2>1, <2>2, <2>3, WoundUp
<1>6. CASE at \in {"submit", "events", "interrupt", "draining", "accept"}
    <2>1. PICK report \in Reports : Closing(fault, report)
        BY <1>3, <1>6 DEF Reports
    <2>2. UNCHANGED <<view, counts, context, usage, turns, lease, armedRequest, revoked, answer>>
        BY <1>3, <1>6
    <2>3. view' \in Seq(Item)
        BY <2>2 DEF RunInv, RunTypes
    <2>4. fault \in Faults \cup {"none"} /\ fault # "none"
        BY DEF Faults
    <2>. QED
        BY <1>1, <1>2, <1>6, <2>1, <2>2, <2>3, <2>4, ClosingKeeps
<1>7. CASE at \notin {"latest", "owner", "close", "except", "account", "submit", "events",
                      "interrupt", "draining", "accept"}
    <2>1. Throw(fault)
        BY <1>3, <1>7
    <2>. QED
        BY <1>1, <1>2, <1>7, <2>1, ThrowKeeps
<1>. QED
    BY <1>4, <1>5, <1>6, <1>7

LEMMA TurnCloseFailsKeeps == ASSUME IInv, TurnCloseFails PROVE StoreInv' /\ RunInv'
<1>. USE DEF IInv
<1>1. UNCHANGED <<policy, rec, reply, request, submitted, positions>> /\ at = "turnclose"
    BY DEF TurnCloseFails, store, journal
<1>2. StoreInv'
    BY StoreStays DEF TurnCloseFails
<1>3. Durable /\ ~armedRequest => \A k \in Ordinal : rec'[k] # "armed"
    BY <1>1 DEF RunInv, Asking, Attempting
<1>4. PICK fault \in Faults : Throw(fault)
    BY DEF TurnCloseFails
<1>. QED
    BY <1>1, <1>2, <1>3, <1>4, ThrowKeeps

-----------------------------------------------------------------------------
(* The bill, place by place.                                               *)

LEMMA BillFinish == ASSUME NEW how, Finish(how) PROVE BillInv'
<1>1. /\ at' = "rest" /\ turns' = 0 /\ tokens' = Unknown /\ partial' = FALSE
      /\ metered' = Unknown /\ ~lease'
      /\ bill'.asked = 0 /\ bill'.told = 0 /\ meter'.turns = 0 /\ meter'.tokens = 0
      /\ meter'.complete = TRUE
    BY DEF Finish, NoMeter, NoBill
<1>2. Metered'
    BY <1>1 DEF Metered
<1>3. Accounted' /\ TurnsCounted' /\ Leased'
    BY <1>1 DEF Accounted, TurnsCounted, Leased
<1>. QED
    BY <1>2, <1>3 DEF BillInv

(* Nothing is paid where a run winds itself up.                            *)
LEMMA BillWinds ==
    ASSUME IInv, UNCHANGED <<bill, meter, tokens, partial, metered, turns, lease>>, lease,
           \/ at' = "except" /\ at \notin {"account", "close"} /\ result' = result
           \/ at' = "account"
           \/ at' = "close" /\ result' = "raised",
           result' \in {"completed", "protocol_error", "budget_exhausted"} => turns = bill.asked
    PROVE  BillInv'
<1>. USE DEF IInv
<1>1. Metered'
    BY DEF BillInv, Metered
<1>2. Accounted'
    <2>1. ~(at' \in {"head", "answer", "open", "prepare", "turn_owner", "tool_owner", "dispatch",
                     "usage"}) /\ (at' = "close" => result' = "raised")
        OBVIOUS
    <2>2. partial => tokens = Unknown /\ (bill.told # bill.asked \/ bill.asked = 0)
        BY DEF BillInv, Accounted
    <2>3. partial /\ at' = "except" => bill.told # bill.asked
        BY DEF BillInv, Accounted
    <2>. QED
        BY <2>1, <2>2, <2>3 DEF BillInv, Accounted
<1>3. TurnsCounted'
    <2>1. turns \in {bill.asked, bill.asked + 1}
        BY DEF BillInv, TurnsCounted
    <2>. QED
        BY <2>1 DEF TurnsCounted
<1>4. Leased'
    BY DEF Leased
<1>. QED
    BY <1>1, <1>2, <1>3, <1>4 DEF BillInv

LEMMA BillStop ==
    ASSUME IInv, NEW how, Stop(how),
           how \in {"completed", "protocol_error", "budget_exhausted"} => turns = bill.asked
    PROVE  BillInv'
<1>1. CASE lease
    BY <1>1, RunParts, BillWinds DEF Stop
<1>2. CASE ~lease
    BY <1>2, BillFinish DEF Stop
<1>. QED
    BY <1>1, <1>2

LEMMA BillThrow ==
    ASSUME IInv, NEW fault \in Faults, Throw(fault), at \notin {"rest", "account", "close"}
    PROVE  BillInv'
<1>1. CASE lease /\ fault # "other"
    <2>1. /\ UNCHANGED <<bill, meter, tokens, partial, metered, turns, lease>>
          /\ at' = "except" /\ result' = result /\ result = "none"
        BY <1>1 DEF Throw, usage, paid, IInv, RunInv, Ending
    <2>. QED
        BY <1>1, <2>1, BillWinds
<1>2. CASE ~(lease /\ fault # "other")
    <2>1. Stop(Mapped(fault))
        BY <1>2 DEF Throw
    <2>2. Mapped(fault) \notin {"completed", "protocol_error", "budget_exhausted"}
        BY DEF Mapped, Faults
    <2>. QED
        BY <2>1, <2>2, BillStop
<1>. QED
    BY <1>1, <1>2

(* A turn that is closed after it may have been paid is on the bill.       *)
LEMMA BillClosing ==
    ASSUME IInv, NEW fault, NEW report \in Reports, Closing(fault, report),
           at \in {"submit", "events", "interrupt", "draining", "accept"},
           UNCHANGED <<usage, turns, lease, answer>>, fault # "none" \/ answer # "none"
    PROVE  BillInv'
<1>. USE DEF IInv
<1>1. /\ at' = "turnclose" /\ error' = fault /\ meter' = Recorded(report)
      /\ bill'.asked = bill.asked + 1
      /\ bill'.told = IF report = Unknown THEN bill.told ELSE bill.told + 1
      /\ UNCHANGED <<tokens, partial, metered, turns, lease, answer>>
    BY DEF Closing, usage
<1>2. /\ bill.asked \in Nat /\ bill.told \in Nat /\ bill.told <= bill.asked
      /\ meter.turns = bill.asked /\ meter.complete \in BOOLEAN
      /\ meter.complete <=> bill.told = bill.asked
      /\ meter.complete => meter.tokens = bill.told
      /\ turns = bill.asked + 1 /\ lease
    BY DEF RunInv, RunTypes, Meter, BillInv, Metered, TurnsCounted, Leased
<1>3. Metered'
    <2>1. CASE report = Unknown
        <3>1. /\ meter'.turns = meter.turns + 1 /\ ~meter'.complete
              /\ bill'.told = bill.told /\ bill'.asked = bill.asked + 1
            BY <1>1, <2>1 DEF Recorded
        <3>. QED
            BY <1>1, <1>2, <3>1 DEF Metered
    <2>2. CASE report = 1
        <3>1. /\ meter'.turns = meter.turns + 1 /\ (meter'.complete <=> meter.complete)
              /\ meter.complete => meter'.tokens = meter.tokens + 1
              /\ bill'.told = bill.told + 1 /\ bill'.asked = bill.asked + 1
            BY <1>1, <1>2, <2>2 DEF Recorded, Unknown
        <3>. QED
            BY <1>1, <1>2, <3>1 DEF Metered
    <2>. QED
        BY <2>1, <2>2 DEF Reports
<1>4. Accounted'
    <2>1. bill'.asked > 0 /\ (partial => tokens = Unknown /\ bill.told < bill.asked)
        BY <1>1, <1>2 DEF BillInv, Accounted
    <2>2. ~partial => tokens = metered
        BY DEF BillInv, Accounted
    <2>3. partial => bill'.told # bill'.asked
        BY <1>1, <1>2, <2>1
    <2>. QED
        BY <1>1, <2>1, <2>2, <2>3 DEF Accounted
<1>5. TurnsCounted' /\ Leased'
    BY <1>1, <1>2 DEF TurnsCounted, Leased
<1>. QED
    BY <1>3, <1>4, <1>5 DEF BillInv

(* Between two turns, and before the first, nothing is paid.               *)
LEMMA BillQuiet ==
    ASSUME IInv, UNCHANGED <<bill, meter, tokens, partial, metered, turns>>,
           lease' = lease \/ lease' = TRUE,
           \/ ~lease /\ at \in {"rest", "latest", "owner", "read_owner", "read"}
           \/ at \in {"head", "open", "prepare", "turn_owner", "answer", "tool_owner", "dispatch"},
           at' \in {"latest", "owner", "read_owner", "read", "head", "open", "prepare",
                    "turn_owner", "answer", "tool_owner", "dispatch"},
           at' \in {"prepare", "turn_owner"} => lease'
    PROVE  BillInv'
<1>. USE DEF IInv
<1>1. Metered'
    BY DEF BillInv, Metered
<1>2. tokens = Bill /\ turns = bill.asked
    <2>1. turns = bill.asked
        BY DEF BillInv, TurnsCounted
    <2>2. ~lease => bill.asked = 0
        BY DEF BillInv, Metered
    <2>. QED
        BY <2>1, <2>2 DEF BillInv, Accounted, Bill
<1>3. Accounted'
    <2>1. Bill' = Bill
        BY DEF Bill
    <2>2. partial => tokens = Unknown /\ bill.told # bill.asked
        BY DEF BillInv, Accounted
    <2>3. ~partial => tokens = metered
        BY DEF BillInv, Accounted
    <2>4. bill.asked = 0 => metered = Unknown /\ tokens = Unknown
        BY DEF BillInv, Accounted
    <2>. QED
        BY <1>2, <2>1, <2>2, <2>3, <2>4 DEF Accounted
<1>4. TurnsCounted' /\ Leased'
    BY <1>2 DEF TurnsCounted, Leased
<1>. QED
    BY <1>1, <1>3, <1>4 DEF BillInv

(* While a turn is asked it is counted but not on the bill.                *)
LEMMA BillAsked ==
    ASSUME IInv, UNCHANGED <<bill, meter, tokens, partial, metered, lease>>,
           at \notin {"rest", "account", "close"}, lease, turns' = bill.asked + 1,
           \/ at' \in {"arm", "submit", "events", "interrupt", "draining", "accept", "refuse"}
           \/ at' = "turnclose" /\ error' = "none" /\ answer' = "none"
    PROVE  BillInv'
<1>. USE DEF IInv
<1>1. Metered'
    BY DEF BillInv, Metered
<1>2. Accounted'
    <2>1. partial => tokens = Unknown /\ bill.told # bill.asked
        BY DEF BillInv, Accounted
    <2>. QED
        BY <2>1 DEF BillInv, Accounted
<1>3. TurnsCounted' /\ Leased'
    BY DEF TurnsCounted, Leased
<1>. QED
    BY <1>1, <1>2, <1>3 DEF BillInv

(* The run has asked the lease.                                            *)
LEMMA BillAccounted ==
    ASSUME IInv, Account, UNCHANGED <<bill, meter, turns, lease>>, lease,
           \/ at = "usage" /\ at' = "answer"
           \/ at = "except" /\ at' = "account" /\ result' \in Stops \cup {"raised"}
              /\ result' \notin {"protocol_error", "budget_exhausted"}
           \/ at = "account" /\ at' = "close" /\ result' = result
    PROVE  BillInv'
<1>. USE DEF IInv
<1>1. Metered'
    BY DEF BillInv, Metered
<1>2. /\ tokens' = Bill /\ metered' = Bill /\ Bill' = Bill /\ partial' \in BOOLEAN
      /\ partial' => Bill = Unknown /\ (bill.told # bill.asked \/ bill.asked = 0)
    BY AccountBill DEF Bill
<1>3. Accounted'
    <2>1. at = "usage" => bill.asked > 0 /\ bill.asked # 0
        BY DEF BillInv, Accounted
    <2>2. bill.asked = 0 => Bill = Unknown
        BY DEF Bill
    <2>. QED
        BY <1>2, <2>1, <2>2 DEF Accounted
<1>4. TurnsCounted'
    <2>1. turns \in {bill.asked, bill.asked + 1}
        BY DEF BillInv, TurnsCounted
    <2>2. at = "usage" => turns = bill.asked
        BY DEF BillInv, TurnsCounted
    <2>3. at = "account" /\ result \in {"completed", "protocol_error", "budget_exhausted"}
              => turns = bill.asked
        BY DEF BillInv, TurnsCounted
    <2>. QED
        BY <2>1, <2>2, <2>3 DEF TurnsCounted, Stops
<1>5. Leased'
    BY DEF Leased
<1>. QED
    BY <1>1, <1>3, <1>4, <1>5 DEF BillInv

LEMMA NextKeepsBill == ASSUME IInv, Next PROVE BillInv'
<1>. USE DEF IInv
<1>1. ASSUME UNCHANGED <<bill, meter, tokens, partial, metered, turns, lease, at, result, error, answer>>
      PROVE  BillInv'
    <2>1. Metered' /\ Accounted'
        BY <1>1 DEF BillInv, Metered, Accounted, Bill
    <2>. QED
        BY <1>1, <2>1 DEF BillInv, TurnsCounted, Leased
<1>2. ASSUME Bootstrap, TakenUp, at \in {"owner", "read"} PROVE BillInv'
    <2>1. UNCHANGED <<bill, meter, tokens, partial, metered, turns, lease>> /\ at' = "head" /\ ~lease
        BY <1>2 DEF Bootstrap, Go, usage, paid, TakenUp, Unopened
    <2>. QED
        BY <1>2, <2>1, BillQuiet
<1>3. CASE Start
    <2>1. UNCHANGED <<bill, meter, tokens, partial, metered, turns, lease>> /\ at' = "latest"
        BY <1>3, RunParts DEF Start
    <2>2. at = "rest" /\ ~lease
        BY <1>3 DEF Start, RunInv, Resting, Unopened
    <2>. QED
        BY <2>1, <2>2, BillQuiet
<1>4. CASE Cancel \/ Idle
    <2>1. UNCHANGED <<bill, meter, tokens, partial, metered, turns, lease, at, result, error, answer>>
        BY <1>4, RunParts DEF Cancel, Idle, vars, world, usage, paid, turn
    <2>. QED
        BY <1>1, <2>1
<1>5. CASE LatestReturns
    <2>1. CASE \E how : Finish(how)
        BY <2>1, BillFinish
    <2>2. CASE Go("owner") /\ UNCHANGED <<view, bill, context, usage, paid, lease, turn>>
        <3>1. UNCHANGED <<bill, meter, tokens, partial, metered, turns, lease>> /\ at' = "owner"
            BY <2>2 DEF Go, usage, paid
        <3>2. at = "latest" /\ ~lease
            BY <1>5 DEF LatestReturns, RunInv, Resting, Unopened
        <3>. QED
            BY <3>1, <3>2, BillQuiet
    <2>. QED
        BY <1>5, <2>1, <2>2 DEF LatestReturns
<1>6. CASE OwnerReturns
    <2>1. at = "owner" /\ TakenUp /\ ~lease
        BY <1>6 DEF OwnerReturns, RunInv, TakenUp, Unopened
    <2>2. CASE \E how : Finish(how)
        BY <2>2, BillFinish
    <2>3. CASE Go("read_owner") /\ UNCHANGED run
        <3>1. UNCHANGED <<bill, meter, tokens, partial, metered, turns, lease>> /\ at' = "read_owner"
            BY <2>3, RunParts DEF Go
        <3>. QED
            BY <2>1, <3>1, BillQuiet
    <2>. QED
        BY <1>2, <1>6, <2>1, <2>2, <2>3 DEF OwnerReturns
<1>7. CASE ReadOwnerReturns
    <2>1. at = "read_owner" /\ ~lease
        BY <1>7 DEF ReadOwnerReturns, RunInv, TakenUp, Unopened
    <2>2. UNCHANGED <<bill, meter, tokens, partial, metered, turns, lease>> /\ at' = "read"
        BY <1>7, RunParts DEF ReadOwnerReturns, Go
    <2>. QED
        BY <2>1, <2>2, BillQuiet
<1>8. CASE ReadReturns
    <2>1. at = "read" /\ TakenUp
        BY <1>8 DEF ReadReturns, RunInv
    <2>2. CASE \E how : Finish(how)
        BY <2>2, BillFinish
    <2>. QED
        BY <1>2, <1>8, <2>1, <2>2 DEF ReadReturns
<1>9. CASE LoopHead
    <2>1. at = "head" /\ turns = bill.asked
        BY <1>9 DEF LoopHead, BillInv, TurnsCounted
    <2>2. CASE \E how : Stop(how)
        BY <2>1, <2>2, BillStop
    <2>3. CASE /\ Go("answer") \/ Go(IF lease THEN "prepare" ELSE "open")
               /\ UNCHANGED <<bill, usage, paid, lease>>
        <3>1. /\ UNCHANGED <<bill, meter, tokens, partial, metered, turns, lease>>
              /\ at' \in {"answer", "open"} \/ (at' = "prepare" /\ lease)
            BY <2>3 DEF Go, usage, paid
        <3>. QED
            BY <2>1, <3>1, BillQuiet
    <2>. QED
        BY <1>9, <2>2, <2>3 DEF LoopHead
<1>10. CASE OpenReturns
    <2>1. /\ UNCHANGED <<bill, meter, tokens, partial, metered, turns>> /\ lease' = TRUE
          /\ at = "open" /\ at' = "prepare"
        BY <1>10 DEF OpenReturns, Go, usage, paid
    <2>. QED
        BY <2>1, BillQuiet
<1>11. CASE Prepare
    <2>1. UNCHANGED <<bill, meter, tokens, partial, metered, turns, lease>> /\ at = "prepare" /\ lease
        BY <1>11 DEF Prepare, usage, paid, BillInv, Leased
    <2>2. CASE Go("turn_owner")
        BY <2>1, <2>2, BillQuiet DEF Go
    <2>3. CASE at' = "except" /\ UNCHANGED <<cancelled, result>>
        BY <2>1, <2>3, BillWinds DEF RunInv, Ending
    <2>. QED
        BY <1>11, <2>2, <2>3 DEF Prepare
<1>12. CASE TurnOwnerReturns
    <2>1. /\ UNCHANGED <<bill, meter, tokens, partial, metered, lease>> /\ turns' = turns + 1
          /\ at = "turn_owner" /\ at' = "arm"
        BY <1>12 DEF TurnOwnerReturns, usage, Go
    <2>2. lease /\ turns = bill.asked
        BY <2>1 DEF BillInv, TurnsCounted, Leased
    <2>. QED
        BY <2>1, <2>2, BillAsked
<1>13. ASSUME at \in {"arm", "submit", "events", "interrupt", "draining"}
       PROVE  lease /\ turns = bill.asked + 1
    BY <1>13 DEF BillInv, TurnsCounted, Leased
<1>14. CASE ArmReturns
    <2>1. /\ UNCHANGED <<bill, meter, tokens, partial, metered, lease, turns>>
          /\ at = "arm" /\ at' = "submit"
        BY <1>14 DEF ArmReturns, world, usage, paid, Go
    <2>. QED
        BY <1>13, <2>1, BillAsked
<1>15. CASE SubmitReturns
    <2>1. at = "submit" /\ answer = "none" /\ UNCHANGED <<usage, turns, lease, answer>>
        BY <1>15 DEF SubmitReturns, RunInv, Asking
    <2>2. CASE UNCHANGED <<meter, bill>> /\ (Go("events") \/ (at' = "turnclose" /\ error' = "none"))
        <3>1. /\ UNCHANGED <<bill, meter, tokens, partial, metered, lease, turns, answer>>
              /\ at' = "events" \/ (at' = "turnclose" /\ error' = "none")
            BY <2>1, <2>2 DEF usage, Go
        <3>. QED
            BY <1>13, <2>1, <3>1, BillAsked
    <2>3. CASE Closing("unresolved", Unknown)
        BY <2>1, <2>3, BillClosing DEF Reports
    <2>. QED
        BY <1>15, <2>2, <2>3 DEF SubmitReturns
<1>16. CASE TerminalArrives \/ Interrupt \/ InterruptReturns
    <2>1. /\ UNCHANGED <<bill, meter, tokens, partial, metered, lease, turns>>
          /\ at \in {"events", "draining", "interrupt"} /\ at' \in {"accept", "interrupt", "draining"}
        BY <1>16, RunParts DEF TerminalArrives, Interrupt, InterruptReturns, usage, paid, Go
    <2>. QED
        BY <1>13, <2>1, BillAsked
<1>17. CASE BadEvent \/ DrainTimeout
    <2>1. /\ at \in {"events", "draining"} /\ UNCHANGED <<usage, turns, lease, answer>>
          /\ \E fault \in {"defect", "unresolved", "other"}, report \in Reports :
                Closing(fault, report)
        BY <1>17 DEF BadEvent, DrainTimeout
    <2>. QED
        BY <2>1, BillClosing
<1>18. CASE AcceptReturns
    <2>1. /\ at = "accept" /\ UNCHANGED <<usage, turns, lease, answer>>
          /\ \E report \in Reports : Closing("none", report)
        BY <1>18 DEF AcceptReturns
    <2>2. answer # "none"
        BY <2>1 DEF RunInv, Asking
    <2>. QED
        BY <2>1, <2>2, BillClosing
<1>19. CASE TurnCloseReturns
    <2>1. at = "turnclose" /\ lease
        BY <1>19 DEF TurnCloseReturns, BillInv, Leased
    <2>2. CASE error # "none" /\ Throw(error)
        BY <2>1, <2>2, BillThrow DEF RunInv, RunTypes
    <2>3. CASE error = "none" /\ answer = "none" /\ Go("refuse") /\ UNCHANGED run
        <3>1. UNCHANGED <<bill, meter, tokens, partial, metered, lease, turns>> /\ at' = "refuse"
            BY <2>3, RunParts DEF Go
        <3>2. turns = bill.asked + 1
            BY <2>1, <2>3 DEF BillInv, TurnsCounted
        <3>. QED
            BY <2>1, <3>1, <3>2, BillAsked
    <2>4. CASE error = "none" /\ answer # "none" /\ Go("usage") /\ UNCHANGED <<bill, usage, paid, lease>>
        <3>1. UNCHANGED <<bill, meter, tokens, partial, metered, lease, turns>> /\ at' = "usage"
            BY <2>4 DEF Go, usage, paid
        <3>2. turns = bill.asked /\ bill.asked > 0
            BY <2>1, <2>4 DEF BillInv, TurnsCounted, Leased
        <3>3. Metered'
            BY <3>1 DEF BillInv, Metered
        <3>4. Accounted'
            BY <2>1, <3>1, <3>2 DEF BillInv, Accounted
        <3>. QED
            BY <2>1, <3>1, <3>2, <3>3, <3>4 DEF BillInv, TurnsCounted, Leased
    <2>. QED
        BY <1>19, <2>2, <2>3, <2>4 DEF TurnCloseReturns
<1>20. CASE RefuseReturns
    <2>1. /\ UNCHANGED <<bill, meter, tokens, partial, metered, lease>> /\ turns' = turns - 1
          /\ at = "refuse" /\ at' = "account" /\ result' \in {"cancelled", "provider_error"}
        BY <1>20 DEF RefuseReturns, usage
    <2>2. lease /\ turns = bill.asked + 1 /\ bill.asked \in Nat
        BY <2>1 DEF BillInv, TurnsCounted, Leased, RunInv, RunTypes
    <2>3. turns' = bill.asked /\ lease'
        BY <2>1, <2>2
    <2>4. Metered'
        BY <2>1, <2>2 DEF BillInv, Metered
    <2>5. Accounted'
        BY <2>1, <2>2 DEF BillInv, Accounted
    <2>6. TurnsCounted' /\ Leased'
        BY <2>1, <2>3 DEF TurnsCounted, Leased
    <2>. QED
        BY <2>4, <2>5, <2>6 DEF BillInv
<1>21. CASE UsageReturns \/ ExceptReturns \/ AccountReturns
    <2>1. /\ Account /\ UNCHANGED <<bill, meter, turns, lease>>
          /\ \/ at = "usage" /\ at' = "answer"
             \/ at = "except" /\ at' = "account" /\ result' = Mapped(error)
             \/ at = "account" /\ at' = "close" /\ result' = result
        BY <1>21 DEF UsageReturns, ExceptReturns, AccountReturns, paid, Go
    <2>2. at = "except" => /\ Mapped(error) \in Stops \cup {"raised"}
                           /\ Mapped(error) \notin {"protocol_error", "budget_exhausted"}
        BY DEF RunInv, RunTypes, Ending, Mapped, Faults, Stops
    <2>3. lease
        BY <2>1 DEF BillInv, Leased
    <2>. QED
        BY <2>1, <2>2, <2>3, BillAccounted
<1>22. CASE AnswerStops \/ RepairOverflows \/ DispatchReturns
    <2>1. at \in {"answer", "dispatch"} /\ turns = bill.asked
        BY <1>22 DEF AnswerStops, RepairOverflows, DispatchReturns, BillInv, TurnsCounted
    <2>2. CASE \E how : Stop(how)
        BY <2>1, <2>2, BillStop
    <2>3. CASE Throw("defect")
        BY <2>1, <2>3, BillThrow DEF Faults
    <2>4. CASE Go("head") /\ UNCHANGED <<bill, usage, paid, lease>>
        <3>1. UNCHANGED <<bill, meter, tokens, partial, metered, turns, lease>> /\ at' = "head"
            BY <2>4 DEF Go, usage, paid
        <3>. QED
            BY <2>1, <3>1, BillQuiet
    <2>. QED
        BY <1>22, <2>2, <2>3, <2>4 DEF AnswerStops, RepairOverflows, DispatchReturns
<1>23. CASE AnswerRepair \/ AnswerTool \/ ToolOwnerReturns
    <2>1. /\ UNCHANGED <<bill, meter, tokens, partial, metered, turns, lease>>
          /\ at \in {"answer", "tool_owner"} /\ at' \in {"head", "tool_owner", "dispatch"}
        BY <1>23, RunParts DEF AnswerRepair, AnswerTool, ToolOwnerReturns, usage, paid, Go
    <2>. QED
        BY <2>1, BillQuiet
<1>24. CASE CloseReturns \/ Crash
    BY <1>24, BillFinish DEF CloseReturns, Crash
<1>25. CASE TurnCloseFails
    <2>1. at = "turnclose" /\ \E fault \in Faults : Throw(fault)
        BY <1>25 DEF TurnCloseFails
    <2>. QED
        BY <2>1, BillThrow
<1>26. CASE PortFails
    <2>1. at \in Awaits \ {"turnclose"}
        BY <1>26 DEF PortFails, Suspended
    <2>2. PICK fault \in Faults \ {"unresolved"} :
          CASE at \in {"latest", "owner", "close"} -> Finish("raised")
            [] at = "except"  -> Lost("account")
            [] at = "account" -> Lost("close")
            [] at \in {"submit", "events", "interrupt", "draining", "accept"} ->
                  /\ \E report \in IF at = "submit" THEN {Unknown} ELSE Reports :
                        Closing(fault, report)
                  /\ UNCHANGED <<view, counts, context, usage, turns, lease, armedRequest,
                                 revoked, answer>>
            [] OTHER -> Throw(fault)
        BY <1>26 DEF PortFails
    <2>3. CASE at \in {"latest", "owner", "close"}
        BY <2>2, <2>3, BillFinish
    <2>4. CASE at \in {"except", "account"}
        <3>1. at' \in {"account", "close"} /\ result' = "raised" /\ UNCHANGED run /\ lease
            BY <2>2, <2>4 DEF Lost, BillInv, Leased
        <3>. QED
            BY <3>1, RunParts, BillWinds
    <2>5. CASE at \in {"submit", "events", "interrupt", "draining", "accept"}
        <3>1. PICK report \in Reports : Closing(fault, report)
            BY <2>2, <2>5 DEF Reports
        <3>2. UNCHANGED <<usage, turns, lease, answer>> /\ fault # "none"
            BY <2>2, <2>5 DEF Faults
        <3>. QED
            BY <2>5, <3>1, <3>2, BillClosing
    <2>6. CASE at \notin {"latest", "owner", "close", "except", "account", "submit", "events",
                          "interrupt", "draining", "accept"}
        <3>1. Throw(fault) /\ at # "rest"
            BY <2>1, <2>2, <2>6 DEF Awaits
        <3>. QED
            BY <2>6, <3>1, BillThrow
    <2>. QED
        BY <2>3, <2>4, <2>5, <2>6
<1>. QED
    BY <1>3, <1>4, <1>5, <1>6, <1>7, <1>8, <1>9, <1>10, <1>11, <1>12, <1>14, <1>15, <1>16, <1>17,
       <1>18, <1>19, <1>20, <1>21, <1>22, <1>23, <1>24, <1>25, <1>26
    DEF Next, Own

-----------------------------------------------------------------------------
(* The invariant is inductive.                                             *)

LEMMA NextKeepsRun == ASSUME IInv, Next PROVE StoreInv' /\ RunInv'
<1>1. CASE Cancel \/ Idle
    <2>1. UNCHANGED <<store, at, result, run>>
        BY <1>1 DEF Cancel, Idle, vars, store, run, world
    <2>2. cancelled' \in BOOLEAN /\ (at = "rest" => cancelled' = cancelled)
        BY <1>1 DEF Cancel, Suspended, Awaits, Idle, vars, IInv, RunInv, RunTypes
    <2>. QED
        BY <2>1, <2>2, SameRun
<1>. QED
    BY <1>1, StartKeeps, LatestReturnsKeeps, OwnerReturnsKeeps, ReadOwnerReturnsKeeps,
       ReadReturnsKeeps, LoopHeadKeeps, OpenReturnsKeeps, PrepareKeeps, TurnOwnerReturnsKeeps,
       ArmReturnsKeeps, SubmitReturnsKeeps, TerminalArrivesKeeps, InterruptKeeps, BadTurnKeeps,
       AcceptReturnsKeeps, TurnCloseReturnsKeeps, RefuseReturnsKeeps, UsageReturnsKeeps,
       AnswerStopsKeeps, AnswerRepairKeeps, AnswerToolKeeps, DispatchReturnsKeeps,
       ExceptReturnsKeeps, AccountReturnsKeeps, CloseReturnsKeeps, PortFailsKeeps,
       TurnCloseFailsKeeps, CrashKeeps
    DEF Next, Own

LEMMA Stutters == ASSUME IInv, UNCHANGED vars PROVE IInv'
<1>. USE DEF IInv
<1>1. UNCHANGED <<store, at, result, run, cancelled>>
    BY DEF vars, store, run, world
<1>2. StoreInv' /\ RunInv'
    BY <1>1, SameRun DEF RunInv, RunTypes
<1>3. BillInv'
    <2>1. UNCHANGED <<bill, meter, tokens, partial, metered, turns, lease, at, result, error, answer>>
        BY <1>1, RunParts
    <2>2. Metered' /\ Accounted'
        BY <2>1 DEF BillInv, Metered, Accounted, Bill
    <2>. QED
        BY <2>1, <2>2 DEF BillInv, TurnsCounted, Leased
<1>. QED
    BY <1>2, <1>3

THEOREM OneShotInvariant == Spec => []IInv
<1>1. Init => IInv
    BY OneShotStarts DEF IInv
<1>2. IInv /\ [Next]_vars => IInv'
    BY NextKeepsRun, NextKeepsBill, Stutters DEF IInv
<1>. QED
    BY <1>1, <1>2, PTL DEF Spec

-----------------------------------------------------------------------------
(* What it says of the loop.                                               *)

(* The journal, the world and the run are of the types of the code.        *)
THEOREM OneShotTypes == Spec => []TypeOK
<1>1. IInv => TypeOK
    BY DEF IInv, StoreInv, StoreTypes, RunInv, RunTypes, TypeOK, Top
<1>. QED
    BY <1>1, OneShotInvariant, PTL

(* What may have been paid: the settled decisions, and the newest.         *)
LEMMA PaidIsBounded == IInv => PaidOnce
<1>. SUFFICES ASSUME IInv PROVE PaidOnce
    OBVIOUS
<1>. USE DEF IInv
<1>1. \A k \in Ordinal : submitted[k] <= 1 /\ submitted[k] \in Nat
    BY DEF StoreInv, StoreTypes, SentOnce
<1>. DEFINE S == {k \in Ordinal : submitted[k] > 0 \/ rec[k] = "completed"}
<1>2. S \subseteq Paid(Latest - 1) \cup {Latest}
    <2> SUFFICES ASSUME NEW k \in S PROVE k \in Paid(Latest - 1) \cup {Latest}
        OBVIOUS
    <2>1. k \in Ordinal /\ rec[k] \in {"armed", "completed"}
        BY <1>1 DEF StoreInv, SentOnce
    <2>2. k \in 1..Latest /\ Latest \in Nat
        BY <2>1, NewestFacts, ConstFacts
    <2>3. CASE rec[k] = "armed"
        BY <2>1, <2>3, OnlyNewestOpen
    <2>4. CASE rec[k] = "completed"
        BY <2>2, <2>4 DEF Paid
    <2>. QED
        BY <2>1, <2>3, <2>4
<1>3. CASE Latest = 0
    <2>1. S = {}
        BY <1>1, <1>3, NewestFacts, ConstFacts DEF StoreInv, SentOnce
    <2>2. Cardinality(S) = 0
        <3>. HIDE DEF S
        <3>. QED
            BY <2>1, FS_EmptySet
    <2>. QED
        BY <1>1, <2>2, ConstFacts DEF PaidOnce
<1>4. CASE Latest # 0
    <2>1. Latest \in 1..Latest /\ Latest - 1 \in Nat /\ Latest \in Ordinal
        BY <1>4, NewestFacts
    <2>2. Cardinality(Paid(Latest - 1)) < MaxTurns
        BY <2>1 DEF StoreInv, Chained
    <2>3. IsFiniteSet(Paid(Latest - 1)) /\ Latest \notin Paid(Latest - 1)
        <3>1. IsFiniteSet(1..(Latest - 1)) /\ Paid(Latest - 1) \in SUBSET (1..(Latest - 1))
            BY <2>1, FS_Interval DEF Paid
        <3>. QED
            BY <2>1, <3>1, FS_Subset
    <2>4. /\ IsFiniteSet(Paid(Latest - 1) \cup {Latest})
          /\ Cardinality(Paid(Latest - 1) \cup {Latest}) = Cardinality(Paid(Latest - 1)) + 1
          /\ Cardinality(Paid(Latest - 1)) \in Nat
        BY <2>3, FS_AddElement, FS_CardinalityType
    <2>5. /\ Cardinality(S) <= Cardinality(Paid(Latest - 1) \cup {Latest})
          /\ Cardinality(S) \in Nat
        BY <1>2, <2>4, FS_Subset, FS_CardinalityType
    <2>. QED
        BY <1>1, <2>2, <2>4, <2>5, ConstFacts DEF PaidOnce
<1>. QED
    BY <1>3, <1>4

(* An attempt reaches the provider at most once, and the paid turns of all *)
(* runs of an operation stay within max_provider_turns.                    *)
THEOREM OneShotPaysOnce == Spec => []PaidOnce
BY OneShotInvariant, PaidIsBounded, PTL

(* A session is shown exactly the canonical history, and the journal holds *)
(* it of every attempt.                                                    *)
THEOREM OneShotContextExact == Spec => []ContextExact
<1>1. IInv => ContextExact
    <2> SUFFICES ASSUME IInv, at = "submit"
                 PROVE  /\ view \o pending = request[ordinal].canonical
                        /\ \A k \in 1..ordinal : request[k].canonical = Continued(k - 1)
        BY DEF ContextExact
    <2>1. Attempting /\ view \o pending = canonical
        BY DEF IInv, RunInv, Asking
    <2>. QED
        BY <2>1 DEF Attempting, IInv, StoreInv, Chained
<1>. QED
    BY <1>1, OneShotInvariant, PTL

(* No turn is asked beyond the limits of bytes and of tokens.              *)
THEOREM OneShotKeepsLimits == Spec => []LimitsKept
<1>1. IInv => LimitsKept
    BY DEF IInv, RunInv, Asking, TokensLeft, LimitsKept
<1>. QED
    BY <1>1, OneShotInvariant, PTL

(* What a run reports of its cost is what its turns cost, or nothing.      *)
THEOREM OneShotAccounts == Spec => []AccountsExact
<1>1. IInv => AccountsExact
    BY DEF IInv, BillInv, Accounted, TurnsCounted, Bill, AccountsExact
<1>. QED
    BY <1>1, OneShotInvariant, PTL

(* Every tool has the position of its own decision, as steps only grow.    *)
LEMMA PositionsDiffer ==
    ASSUME StoreInv, NEW p \in positions, NEW q \in positions, p[1] < q[1]
    PROVE  p[2] < q[2]
<1>1. /\ p[1] \in Ordinal /\ q[1] \in Ordinal
      /\ rec[p[1]] = "completed" /\ reply[p[1]] = "tool" /\ p[2] = request[p[1]].step + 1
      /\ rec[q[1]] = "completed" /\ q[2] = request[q[1]].step + 1
    BY DEF StoreInv, StoreTypes, Positioned
<1>2. p[1] \in 1..Latest /\ q[1] \in 1..Latest /\ p[1] # 0
    BY <1>1, NewestFacts, ConstFacts
<1>3. StepAfter(p[1]) <= request[q[1]].step
    BY <1>2 DEF StoreInv, Climbing
<1>4. StepAfter(p[1]) = request[p[1]].step + 1
    BY <1>1, <1>2 DEF StepAfter
<1>5. request[p[1]].step \in Nat /\ request[q[1]].step \in Nat
    BY <1>1 DEF StoreInv, StoreTypes, Requests
<1>. QED
    BY <1>1, <1>3, <1>4, <1>5

(* Only committed decisions are acted on, each at its own position, and a  *)
(* run that says how it ended leaves no attempt open.                      *)
THEOREM OneShotActsOnRecord == Spec => []ActsOnRecord
<1>1. IInv => ActsOnRecord
    <2> SUFFICES ASSUME IInv PROVE ActsOnRecord
        OBVIOUS
    <2>. USE DEF IInv
    <2>1. \A p \in positions : rec[p[1]] = "completed" /\ reply[p[1]] = "tool"
        BY DEF StoreInv, Positioned
    <2>2. ASSUME NEW p \in positions, NEW q \in positions
          PROVE  (p[1] = q[1]) <=> (p[2] = q[2])
        <3>1. p[1] \in Nat /\ q[1] \in Nat /\ p[2] \in Nat /\ q[2] \in Nat
            BY ConstFacts DEF StoreInv, StoreTypes
        <3>2. CASE p[1] = q[1]
            BY <3>2 DEF StoreInv, Positioned
        <3>3. CASE p[1] # q[1]
            BY <3>1, <3>3, PositionsDiffer
        <3>. QED
            BY <3>2, <3>3
    <2>3. /\ result = "completed" => rec[Latest] = "completed" /\ reply[Latest] = "finish"
          /\ Durable /\ at = "rest" /\ result \in Stops \ {"uncertain", "configuration_error"}
                => ~\E k \in Ordinal : rec[k] = "armed"
        BY DEF RunInv, Ending
    <2>. QED
        BY <2>1, <2>2, <2>3 DEF ActsOnRecord
<1>. QED
    BY <1>1, OneShotInvariant, PTL

(* Once cancelled a run opens no session, decides on no tool, and asks     *)
(* with a revoked turn only; a tool it begins is one whose owner was being *)
(* checked when the cancellation came.                                     *)
THEOREM OneShotHeedsCancel == Spec => CancelHeeded
<1>. DEFINE Heeds == cancelled /\ at' # at =>
                        /\ at' \notin {"read_owner", "open", "tool_owner"}
                        /\ at' = "read" => at = "read_owner"
                        /\ at' = "dispatch" => at = "tool_owner"
                        /\ at' = "submit" => revoked'
<1>1. ASSUME at' \notin {"read_owner", "read", "open", "tool_owner", "dispatch", "submit"}
      PROVE  Heeds
    BY <1>1
<1>2. ASSUME NEW how, Finish(how) \/ Stop(how) PROVE Heeds
    BY <1>1, <1>2 DEF Finish, Stop
<1>3. ASSUME NEW fault, Throw(fault) PROVE Heeds
    BY <1>1, <1>2, <1>3 DEF Throw
<1>4. ASSUME Bootstrap PROVE Heeds
    BY <1>1, <1>4 DEF Bootstrap, Go
<1>5. ASSUME NEW fault, NEW report, Closing(fault, report) PROVE Heeds
    BY <1>1, <1>5 DEF Closing
<1>6. ASSUME Own PROVE Heeds
    <2>1. CASE LatestReturns \/ OwnerReturns \/ ReadReturns
        BY <1>1, <1>2, <1>4, <2>1 DEF LatestReturns, OwnerReturns, ReadReturns, Go
    <2>2. CASE LoopHead
        BY <1>1, <1>2, <2>2 DEF LoopHead, Go
    <2>3. CASE OpenReturns \/ Prepare \/ TurnOwnerReturns
        BY <1>1, <2>3 DEF OpenReturns, Prepare, TurnOwnerReturns, Go
    <2>4. CASE ArmReturns
        BY <2>4 DEF ArmReturns, RevokedNow, Go
    <2>5. CASE SubmitReturns \/ Interrupt \/ InterruptReturns \/ DrainTimeout \/ AcceptReturns
        BY <1>1, <1>5, <2>5
        DEF SubmitReturns, Interrupt, InterruptReturns, DrainTimeout, AcceptReturns, Go
    <2>6. CASE TurnCloseReturns \/ RefuseReturns \/ UsageReturns
        BY <1>1, <1>3, <2>6 DEF TurnCloseReturns, RefuseReturns, UsageReturns, Go
    <2>7. CASE AnswerStops \/ AnswerRepair \/ RepairOverflows
        BY <1>1, <1>2, <1>3, <2>7 DEF AnswerStops, AnswerRepair, RepairOverflows, Go
    <2>8. CASE AnswerTool \/ ReadOwnerReturns \/ ToolOwnerReturns
        BY <1>1, <2>8 DEF AnswerTool, ReadOwnerReturns, ToolOwnerReturns, Go
    <2>9. CASE DispatchReturns
        BY <1>1, <1>2, <1>3, <2>9 DEF DispatchReturns, Go
    <2>10. CASE ExceptReturns \/ AccountReturns \/ CloseReturns
        BY <1>1, <1>2, <2>10 DEF ExceptReturns, AccountReturns, CloseReturns, Go
    <2>. QED
        BY <1>6, <2>1, <2>2, <2>3, <2>4, <2>5, <2>6, <2>7, <2>8, <2>9, <2>10 DEF Own
<1>7. ASSUME PortFails PROVE Heeds
    BY <1>1, <1>2, <1>3, <1>5, <1>7 DEF PortFails, Lost
<1>8. ASSUME [Next]_vars PROVE Heeds
    <2>1. CASE Start \/ Cancel \/ TerminalArrives \/ Idle \/ UNCHANGED vars
        BY <1>1, <2>1 DEF Start, Cancel, TerminalArrives, Go, Idle, vars
    <2>2. CASE BadEvent \/ TurnCloseFails \/ Crash
        BY <1>2, <1>3, <1>5, <2>2 DEF BadEvent, TurnCloseFails, Crash
    <2>. QED
        BY <1>6, <1>7, <1>8, <2>1, <2>2 DEF Next
<1>9. Spec => [][Heeds]_vars
    BY <1>8, PTL DEF Spec
<1>. QED
    BY <1>9 DEF CancelHeeded

-----------------------------------------------------------------------------
(* The durable decisions of an operation are a DecisionChain.              *)

Depth == IF Durable THEN Latest ELSE 0

Stage == IF ~Durable \/ Latest = 0 THEN "open"
         ELSE IF rec[Latest] = "armed" THEN "uncertain"
         ELSE IF Carried(Latest) THEN "open" ELSE "decided"

(* The journal and the positions change in four ways.                      *)
LEMMA StoreMoves ==
    ASSUME IInv, [Next]_vars
    PROVE  /\ policy' = policy
           /\ \/ ~Durable
              \/ UNCHANGED <<rec, reply, request, positions>>
              \/ at = "arm" /\ Armed /\ UNCHANGED <<submitted, positions>>
              \/ at = "accept" /\ Completed /\ UNCHANGED <<submitted, positions>>
              \/ at = "refuse" /\ Refused /\ UNCHANGED <<submitted, positions>>
              \/ at = "dispatch" /\ Dispatched /\ UNCHANGED <<rec, reply, request, submitted>>
<1>1. CASE Start
    BY <1>1 DEF Start, journal
<1>2. CASE UNCHANGED store
    BY <1>2 DEF store, journal
<1>3. CASE ArmReturns
    BY <1>3 DEF ArmReturns, world
<1>4. CASE AcceptReturns \/ RefuseReturns \/ DispatchReturns \/ SubmitReturns
    BY <1>4 DEF AcceptReturns, RefuseReturns, DispatchReturns, SubmitReturns, journal
<1>5. CASE Landed /\ policy' = policy
    BY <1>5 DEF Landed, journal
<1>6. CASE UNCHANGED vars
    BY <1>6 DEF vars, journal, world
<1>. QED
    BY <1>1, <1>2, <1>3, <1>4, <1>5, <1>6
    DEF Next, Own, Cancel, Idle, LatestReturns, OwnerReturns, ReadOwnerReturns, ReadReturns,
        LoopHead, OpenReturns, Prepare, TurnOwnerReturns, Interrupt, InterruptReturns,
        DrainTimeout, TurnCloseReturns, UsageReturns, AnswerStops, AnswerRepair,
        RepairOverflows, AnswerTool, ToolOwnerReturns, ExceptReturns, AccountReturns,
        CloseReturns, TerminalArrives, BadEvent, PortFails, TurnCloseFails, Crash

LEMMA ArmIsArm ==
    ASSUME IInv, Durable, policy' = policy, at = "arm", Armed, UNCHANGED <<submitted, positions>>
    PROVE  Stage = "open" /\ Stage' = "uncertain" /\ Depth' = Depth + 1
<1>. USE DEF IInv
<1>1. /\ Latest' = ordinal /\ ordinal \in Ordinal /\ ordinal = Latest + 1 /\ Settled(Latest)
      /\ rec'[ordinal] = "armed"
    BY ArmLands, ConstFacts DEF RunInv, Asking, Prepared, Due, StoreInv, StoreTypes
<1>2. Durable' /\ ordinal # 0
    BY <1>1, ConstFacts DEF Durable
<1>3. Stage = "open"
    BY <1>1 DEF Stage, Settled, Carried
<1>4. Stage' = "uncertain"
    BY <1>1, <1>2 DEF Stage
<1>. QED
    BY <1>1, <1>2, <1>3, <1>4 DEF Depth

LEMMA CompletedIsDecide ==
    ASSUME IInv, Durable, policy' = policy, at = "accept", Completed,
           UNCHANGED <<submitted, positions>>
    PROVE  Stage = "uncertain" /\ Stage' \in {"open", "decided"} /\ Depth' = Depth
<1>. USE DEF IInv
<1>1. ordinal = Latest /\ ordinal # 0 /\ rec[ordinal] = "armed"
    BY DEF RunInv, Asking, Attempting
<1>2. Latest' = Latest /\ rec'[ordinal] = "completed" /\ Durable'
    BY CompletedLands DEF Durable
<1>. QED
    BY <1>1, <1>2 DEF Stage, Depth

LEMMA RefusedIsVoid ==
    ASSUME IInv, Durable, policy' = policy, at = "refuse", Refused,
           UNCHANGED <<submitted, positions>>
    PROVE  Stage = "uncertain" /\ Stage' = "open" /\ Depth' = Depth
<1>. USE DEF IInv
<1>1. ordinal = Latest /\ ordinal # 0 /\ rec[ordinal] = "armed" /\ ordinal \in Ordinal
    BY NewestFacts DEF RunInv, Asking, Attempting
<1>2. Latest' = Latest /\ Durable' /\ rec'[ordinal] = "refused"
    BY <1>1, RefusedLands DEF Durable, Refused, StoreInv, StoreTypes
<1>3. \A k : k = ordinal => Carried(k)'
    BY <1>2 DEF Carried
<1>. QED
    BY <1>1, <1>2, <1>3 DEF Stage, Depth

LEMMA DispatchIsCarryAtMost ==
    ASSUME IInv, Durable, policy' = policy, at = "dispatch", Dispatched,
           UNCHANGED <<rec, reply, request, submitted>>
    PROVE  Stage \in {"open", "decided"} /\ Stage' = "open" /\ Depth' = Depth
<1>. USE DEF IInv
<1>1. ordinal = Latest /\ ordinal # 0 /\ rec[ordinal] = "completed"
    BY DEF RunInv, Deciding, Acting
<1>2. Latest' = Latest /\ Durable'
    BY DEF Latest, Seen, Durable
<1>3. \A k : k = ordinal => Carried(k)'
    <2>1. <<ordinal, step>> \in positions' /\ <<ordinal, step>>[1] = ordinal
        BY DEF Dispatched
    <2>. QED
        BY <2>1 DEF Carried
<1>. QED
    BY <1>1, <1>2, <1>3 DEF Stage, Depth

LEMMA JournalStays ==
    ASSUME policy' = policy, UNCHANGED <<rec, reply, request, positions>> \/ ~Durable
    PROVE  UNCHANGED <<Depth, Stage>>
<1>1. CASE ~Durable
    BY <1>1 DEF Depth, Stage, Durable
<1>2. CASE UNCHANGED <<rec, reply, request, positions>>
    <2>1. Latest' = Latest /\ Durable' <=> Durable
        BY <1>2, Frames DEF Durable
    <2>2. \A k : Carried(k)' <=> Carried(k)
        BY <1>2 DEF Carried
    <2>. QED
        BY <1>2, <2>1, <2>2, Frames DEF Depth, Stage, Durable
<1>. QED
    BY <1>1, <1>2

(* Each decision is armed before it is asked, decided once, and carried    *)
(* out before the next one is made.                                        *)
THEOREM OneShotRefinesChain == Spec => ChainSpec
<1>1. Init => Chain!Init
    <2>1. Init => Latest = 0
        BY DEF Init, Latest, Seen
    <2>. QED
        BY <2>1 DEF Chain!Init
<1>2. IInv /\ [Next]_vars => [Chain!Next]_<<Depth, Stage>>
    <2> SUFFICES ASSUME IInv, [Next]_vars PROVE [Chain!Next]_<<Depth, Stage>>
        OBVIOUS
    <2>1. CASE ~Durable \/ UNCHANGED <<rec, reply, request, positions>>
        BY <2>1, StoreMoves, JournalStays
    <2>2. CASE Durable /\ at = "arm" /\ Armed /\ UNCHANGED <<submitted, positions>>
        <3>1. Stage = "open" /\ Stage' = "uncertain" /\ Depth' = Depth + 1
            BY <2>2, StoreMoves, ArmIsArm
        <3>. QED
            BY <3>1 DEF Chain!Next, Chain!Arm, Stage, Depth
    <2>3. CASE Durable /\ at = "accept" /\ Completed /\ UNCHANGED <<submitted, positions>>
        <3>1. Stage = "uncertain" /\ Stage' \in {"open", "decided"} /\ Depth' = Depth
            BY <2>3, StoreMoves, CompletedIsDecide
        <3>. QED
            BY <3>1 DEF Chain!Next, Chain!Decide, Chain!Void, Stage, Depth
    <2>4. CASE Durable /\ at = "refuse" /\ Refused /\ UNCHANGED <<submitted, positions>>
        <3>1. Stage = "uncertain" /\ Stage' = "open" /\ Depth' = Depth
            BY <2>4, StoreMoves, RefusedIsVoid
        <3>. QED
            BY <3>1 DEF Chain!Next, Chain!Void, Stage, Depth
    <2>5. CASE Durable /\ at = "dispatch" /\ Dispatched /\ UNCHANGED <<rec, reply, request, submitted>>
        <3>1. Stage \in {"open", "decided"} /\ Stage' = "open" /\ Depth' = Depth
            BY <2>5, StoreMoves, DispatchIsCarryAtMost
        <3>. QED
            BY <3>1 DEF Chain!Next, Chain!Carry, Stage, Depth
    <2>. QED
        BY <2>1, <2>2, <2>3, <2>4, <2>5, StoreMoves
<1>. QED
    BY <1>1, <1>2, OneShotInvariant, PTL DEF Spec, ChainSpec, Chain!Spec, Depth, Stage
=============================================================================
