--------------------------- MODULE GenerationProofs ---------------------------
(***************************************************************************)
(* run_generation for every set of calls, turn budget, length of chain and *)
(* environment: the store is in order wherever a call that is interrupted  *)
(* may leave it (StoreInv), and the run knows its place in it (RunInv).    *)
(* So it keeps the promise about paid decisions, DecisionChain.            *)
(***************************************************************************)
EXTENDS GenerationProperties, SequenceTheorems, FiniteSetTheorems, TLAPS

(* The durable store is in order, whoever is running.                      *)
StoreInOrder ==
    \A n \in Ordinal :
        /\ child[n] # "new" => \A m \in Ordinal : m < n => Sealed(m)
        /\ resolved[n] # "no" => Sealed(n)
        /\ resolved[n] = "kept" => /\ n < LastOrdinal
                                   /\ decision[n].calls # <<>> /\ Sound(decision[n], n)

(* Where the child at hand is being asked: everything before it is sealed  *)
(* and carried out, and the budget has room for it.                        *)
Asking == at \in {"stream", "arming", "observe", "record"}

AskedInTurn ==
    Asking =>
        /\ \A m \in Ordinal : m < turn => Sealed(m)
        /\ turn > 1 => Carried(turn - 1)
        /\ MaxTurns # 0 => turn <= MaxTurns
        /\ lastOrdinal = turn - 1
        /\ child[turn] # "sealed"
        /\ ~armStarted \/ at = "arming" => child[turn] = "new"
        /\ at = "arming" => armStarted
        /\ at \in {"observe", "record"} \/ armed => child[turn] = "armed"
        /\ turn = LastOrdinal => proposals = <<>> /\ (at = "record" => terminal.calls = <<>>)

(* Where its decision is being settled: it is the terminal at hand.        *)
Decided ==
    /\ child[turn] = "sealed"
    /\ decision[turn] = terminal
    /\ turn < LastOrdinal => child[turn + 1] = "new"
    /\ turn = LastOrdinal => terminal.calls = <<>>
    /\ MaxTurns # 0 => turn <= MaxTurns

SettledInTurn ==
    /\ at = "closing" /\ ~failed => Decided /\ resolved[turn] = "no"
    /\ at = "resolve" => Decided /\ resolved[turn] = "no" /\ Sound(terminal, turn)
    /\ at = "acknowledge" => /\ Decided /\ resolved[turn] # "no" /\ Sound(terminal, turn)
                             /\ lastOrdinal = turn

(* Where its continuation is served: the tools so far have run.            *)
ServedInTurn ==
    at \in {"execute", "open"} =>
        /\ child[turn] = "sealed" /\ resolved[turn] = "kept"
        /\ turn < LastOrdinal /\ child[turn + 1] = "new"
        /\ MaxTurns # 0 => turn < MaxTurns
        /\ lastOrdinal = turn
        /\ turn \in seenBy \/ turn = reopened
        /\ \A i \in 1..Len(results) : <<turn, Calls[i]>> \in effects
        /\ IF at = "execute" THEN Len(results) < Len(Calls) ELSE Len(results) = Len(Calls)

Terminal == [calls : Seq(Call), source : Nat, proposed : Seq(Call)]

StoreTypes ==
    /\ child \in [Ordinal -> {"new", "armed", "sealed"}]
    /\ decision \in [Ordinal -> Terminal]
    /\ resolved \in [Ordinal -> {"no", "kept", "dropped"}]
    /\ effects \subseteq Ordinal \X Call
    /\ seenBy \subseteq Ordinal

RunTypes ==
    /\ at \in Awaits \cup {"rest"}
    /\ cancelled \in BOOLEAN
    /\ turn \in 0..LastOrdinal
    /\ at # "rest" => turn \in Ordinal
    /\ results \in Seq(Call)
    /\ armStarted \in BOOLEAN /\ armed \in BOOLEAN /\ failed \in BOOLEAN
    /\ proposals \in Seq(Call)
    /\ terminal \in Terminal
    /\ acked \in 0..Len(proposals)
    /\ lastOrdinal \in 0..LastOrdinal
    /\ reopened \in 0..LastOrdinal
    /\ result \in Stopped \cup {"none", "completed", "raised", "crashed"}

StoreInv == StoreTypes /\ StoreInOrder /\ SuccessorEarned /\ EffectsInOrder

RunInv == RunTypes /\ ReturnIsExact /\ AskedInTurn /\ SettledInTurn /\ ServedInTurn

GenerationInv == StoreInv /\ RunInv

(* The types, of the store and of the run.                                 *)
LEMMA Types == TypeOK <=> StoreTypes /\ RunTypes
  BY DEF TypeOK, StoreTypes, RunTypes, Terminal

(* Ordinals are an initial segment of the numbers.                         *)
LEMMA OrdinalFacts ==
  /\ LastOrdinal \in Nat /\ LastOrdinal > 0 /\ MaxTurns \in Nat /\ MaxProposals \in Nat
  /\ \A n \in Ordinal : n \in Nat /\ 1 <= n /\ n <= LastOrdinal
  /\ \A n \in Nat : 1 <= n /\ n <= LastOrdinal => n \in Ordinal
  BY GenerationAssumption DEF Ordinal

(* A host with nothing armed is in order.                                  *)
LEMMA GenerationStarts == Init => GenerationInv
<1> SUFFICES ASSUME Init PROVE GenerationInv
  OBVIOUS
<1>1. NoTerminal \in Terminal
  BY DEF NoTerminal, Terminal
<1>2. StoreTypes
  BY <1>1 DEF Init, StoreTypes
<1>3. RunTypes
  <2>1. <<>> \in Seq(Call) /\ Len(<<>>) = 0
    BY EmptySeq
  <2>2. 0 \in 0..LastOrdinal
    BY OrdinalFacts
  <2>3. results \in Seq(Call) /\ proposals \in Seq(Call) /\ Len(proposals) = 0
    BY <2>1 DEF Init
  <2>4. acked \in 0..Len(proposals)
    BY <2>3 DEF Init
  <2> QED
    BY <1>1, <2>2, <2>3, <2>4 DEF Init, RunTypes
<1>4. StoreInOrder /\ EffectsInOrder
  BY DEF Init, StoreInOrder, EffectsInOrder
<1>5. SuccessorEarned
  BY DEF Init, SuccessorEarned
<1>6. AskedInTurn /\ SettledInTurn /\ ServedInTurn /\ ReturnIsExact
  BY DEF Init, AskedInTurn, Asking, SettledInTurn, ServedInTurn, ReturnIsExact, Stopped
<1> QED
  BY <1>2, <1>3, <1>4, <1>5, <1>6 DEF GenerationInv, StoreInv, RunInv

(* The work of a child that is carried out stays so.                       *)
LEMMA CarriedStays ==
  ASSUME NEW n \in Ordinal, Carried(n), effects \subseteq effects',
         child'[n] = child[n], decision'[n] = decision[n], resolved'[n] = resolved[n]
  PROVE  Carried(n)'
  BY DEF Carried, CallsOf, Sealed

(* arm() changes the child that is asked, and nothing it rests on.         *)
LEMMA ArmLands ==
  ASSUME StoreInv, RunTypes, AskedInTurn, at = "arming",
         child' = [child EXCEPT ![turn] = "armed"],
         UNCHANGED <<decision, resolved, effects, seenBy>>
  PROVE  StoreInv'
<1>1. turn \in Ordinal /\ child[turn] = "new" /\ at # "rest"
  BY DEF RunTypes, AskedInTurn, Asking
<1>2. \A m \in Ordinal : m < turn => Sealed(m)
  BY DEF AskedInTurn, Asking
<1>3. \A n \in Ordinal : (n # turn => child'[n] = child[n]) /\ child'[turn] = "armed"
  BY <1>1 DEF StoreInv, StoreTypes
<1>4. StoreTypes'
  BY <1>1 DEF StoreInv, StoreTypes
<1>5. \A m \in Ordinal : Sealed(m) => m # turn /\ Sealed(m)'
  BY <1>1, <1>3 DEF Sealed
<1>6. StoreInOrder'
  <2> SUFFICES ASSUME NEW n \in Ordinal
               PROVE  /\ child'[n] # "new" => \A m \in Ordinal : m < n => Sealed(m)'
                      /\ resolved'[n] # "no" => Sealed(n)'
                      /\ resolved'[n] = "kept" => /\ n < LastOrdinal
                                                  /\ decision'[n].calls # <<>> /\ Sound(decision'[n], n)
    BY DEF StoreInOrder
  <2>1. child'[n] # "new" => \A m \in Ordinal : m < n => Sealed(m)'
    BY <1>2, <1>3, <1>5 DEF StoreInv, StoreInOrder
  <2> QED
    BY <2>1, <1>5 DEF StoreInv, StoreInOrder
<1>7. SuccessorEarned'
  <2>1. ASSUME NEW n \in Ordinal, n > 1, child'[n] # "new" PROVE Carried(n - 1)'
    <3>1. n - 1 \in Ordinal
      BY <2>1, OrdinalFacts
    <3>2. Carried(n - 1)
      BY <1>1, <1>3, <2>1, OrdinalFacts DEF AskedInTurn, Asking, StoreInv, SuccessorEarned
    <3>3. n - 1 # turn
      BY <1>1, <3>2 DEF Carried, Sealed
    <3> QED
      BY <1>3, <3>1, <3>2, <3>3, CarriedStays
  <2>2. MaxTurns # 0 => \A n \in Ordinal : n > MaxTurns => child'[n] = "new"
    BY <1>1, <1>3, OrdinalFacts DEF AskedInTurn, Asking, StoreInv, SuccessorEarned
  <2> QED
    BY <2>1, <2>2 DEF StoreInv, SuccessorEarned
<1>8. EffectsInOrder'
  BY <1>5 DEF StoreInv, EffectsInOrder
<1> QED
  BY <1>4, <1>6, <1>7, <1>8 DEF StoreInv

(* record() seals the child that was asked: nothing rests on it yet.       *)
LEMMA RecordLands ==
  ASSUME StoreInv, RunTypes, AskedInTurn, at = "record",
         child' = [child EXCEPT ![turn] = "sealed"],
         decision' = [decision EXCEPT ![turn] = terminal],
         UNCHANGED <<resolved, effects, seenBy>>
  PROVE  StoreInv'
<1>1. turn \in Ordinal /\ child[turn] = "armed" /\ terminal \in Terminal
  BY DEF RunTypes, AskedInTurn, Asking
<1>2. \A m \in Ordinal : m < turn => Sealed(m)
  BY DEF AskedInTurn, Asking
<1>3. /\ child'[turn] = "sealed"
      /\ \A n \in Ordinal : n # turn => child'[n] = child[n] /\ decision'[n] = decision[n]
  BY <1>1 DEF StoreInv, StoreTypes
<1>4. StoreTypes'
  BY <1>1 DEF StoreInv, StoreTypes
<1>5. \A m \in Ordinal : Sealed(m) => m # turn /\ Sealed(m)'
  BY <1>1, <1>3 DEF Sealed
<1>6. resolved[turn] = "no" /\ \A c \in Call : <<turn, c>> \notin effects
  BY <1>1, <1>5 DEF StoreInv, StoreInOrder, EffectsInOrder
<1>7. StoreInOrder'
  <2> SUFFICES ASSUME NEW n \in Ordinal
               PROVE  /\ child'[n] # "new" => \A m \in Ordinal : m < n => Sealed(m)'
                      /\ resolved'[n] # "no" => Sealed(n)'
                      /\ resolved'[n] = "kept" => /\ n < LastOrdinal
                                                  /\ decision'[n].calls # <<>> /\ Sound(decision'[n], n)
    BY DEF StoreInOrder
  <2>1. child'[n] # "new" => \A m \in Ordinal : m < n => Sealed(m)'
    BY <1>1, <1>2, <1>3, <1>5 DEF StoreInv, StoreInOrder
  <2>2. CASE n = turn
    BY <1>6, <2>1, <2>2
  <2>3. CASE n # turn
    BY <1>3, <1>5, <2>1, <2>3 DEF StoreInv, StoreInOrder
  <2> QED
    BY <2>2, <2>3
<1>8. SuccessorEarned'
  <2>1. ASSUME NEW n \in Ordinal, n > 1, child'[n] # "new" PROVE Carried(n - 1)'
    <3>1. n - 1 \in Ordinal /\ child[n] # "new"
      BY <1>1, <1>3, <2>1, OrdinalFacts
    <3>2. Carried(n - 1)
      BY <2>1, <3>1 DEF StoreInv, SuccessorEarned
    <3>3. n - 1 # turn
      BY <1>1, <3>2 DEF Carried, Sealed
    <3> QED
      BY <1>3, <3>1, <3>2, <3>3, CarriedStays
  <2>2. MaxTurns # 0 => \A n \in Ordinal : n > MaxTurns => child'[n] = "new"
    BY <1>1, <1>3, OrdinalFacts DEF AskedInTurn, Asking, StoreInv, SuccessorEarned
  <2> QED
    BY <2>1, <2>2 DEF StoreInv, SuccessorEarned
<1>9. EffectsInOrder'
  BY <1>3, <1>5, <1>6 DEF StoreInv, EffectsInOrder
<1> QED
  BY <1>4, <1>7, <1>8, <1>9 DEF StoreInv

(* A tool's outcome is the next one of a kept continuation.                *)
LEMMA ExecuteLands ==
  ASSUME StoreInv, RunTypes, ServedInTurn, at = "execute",
         effects' = effects \cup {<<turn, ThisCall>>},
         UNCHANGED <<child, decision, resolved, seenBy>>
  PROVE  StoreInv'
<1>1. turn \in Ordinal /\ decision[turn] \in Terminal
  BY DEF RunTypes, StoreInv, StoreTypes
<1>2. Calls \in Seq(Call) /\ Calls = decision[turn].calls
  BY <1>1 DEF Terminal, Calls
<1>3. DEFINE k == Len(results) + 1
<1>4. Len(results) \in Nat /\ Len(Calls) \in Nat /\ DOMAIN Calls = 1..Len(Calls)
  BY <1>2, LenProperties DEF RunTypes
<1>5. k \in 1..Len(Calls) /\ ThisCall = Calls[k] /\ ThisCall \in Call
  <2>1. k \in 1..Len(Calls) /\ ThisCall = Calls[k]
    BY <1>4 DEF ServedInTurn, ThisCall
  <2> QED
    BY <1>2, <2>1, ElementOfSeq
<1>6. StoreTypes'
  BY <1>1, <1>5 DEF StoreInv, StoreTypes
<1>7. StoreInOrder'
  BY DEF StoreInv, StoreInOrder, Sealed
<1>8. SuccessorEarned'
  <2>1. ASSUME NEW n \in Ordinal, n > 1, child[n] # "new" PROVE Carried(n - 1)'
    BY <2>1, OrdinalFacts, CarriedStays DEF StoreInv, SuccessorEarned
  <2>2. MaxTurns # 0 => \A n \in Ordinal, c \in Call : <<n, c>> \in effects' => n < MaxTurns
    BY <1>1 DEF ServedInTurn, StoreInv, SuccessorEarned
  <2> QED
    BY <2>1, <2>2 DEF StoreInv, SuccessorEarned
<1>9. EffectsInOrder'
  <2> SUFFICES ASSUME NEW n \in Ordinal, NEW c \in Call, <<n, c>> \in effects'
               PROVE  /\ Sealed(n) /\ Sound(decision[n], n) /\ resolved[n] = "kept"
                      /\ \E i \in DOMAIN decision[n].calls :
                            /\ decision[n].calls[i] = c
                            /\ \A j \in 1..i : <<n, decision[n].calls[j]>> \in effects'
    BY DEF EffectsInOrder, Sealed
  <2>1. CASE <<n, c>> \in effects
    BY <2>1 DEF StoreInv, EffectsInOrder
  <2>2. CASE <<n, c>> = <<turn, ThisCall>>
    <3>1. n = turn /\ c = Calls[k]
      BY <1>5, <2>2
    <3>2. Sealed(n) /\ Sound(decision[n], n) /\ resolved[n] = "kept"
      BY <1>1, <3>1 DEF ServedInTurn, StoreInv, StoreInOrder, Sealed
    <3>3. \A j \in 1..k : <<n, Calls[j]>> \in effects'
      <4> TAKE j \in 1..k
      <4>1. CASE j = k
        BY <1>5, <3>1, <4>1
      <4>2. CASE j # k
        BY <1>4, <3>1, <4>2 DEF ServedInTurn
      <4> QED
        BY <4>1, <4>2
    <3> QED
      BY <1>2, <1>4, <1>5, <3>1, <3>2, <3>3
  <2> QED
    BY <2>1, <2>2
<1> QED
  BY <1>6, <1>7, <1>8, <1>9 DEF StoreInv

(* The host resolves the newest child, once and for all: the next child is *)
(* new, and a dropped continuation had no tools run.                       *)
LEMMA ResolveLands ==
  ASSUME StoreInv, NEW n \in Ordinal, NEW fate \in {"kept", "dropped"},
         Sealed(n), n < LastOrdinal => child[n + 1] = "new",
         fate = "kept" => n < LastOrdinal /\ decision[n].calls # <<>> /\ Sound(decision[n], n),
         resolved[n] = "no" \/ fate = resolved[n],
         resolved' = [resolved EXCEPT ![n] = fate],
         UNCHANGED <<child, decision, effects, seenBy>>
  PROVE  StoreInv'
<1>1. resolved'[n] = fate /\ \A m \in Ordinal : m # n => resolved'[m] = resolved[m]
  BY DEF StoreInv, StoreTypes
<1>2. StoreTypes'
  BY DEF StoreInv, StoreTypes
<1>3. StoreInOrder'
  BY <1>1 DEF StoreInv, StoreInOrder, Sealed
<1>4. SuccessorEarned'
  <2>1. ASSUME NEW m \in Ordinal, m > 1, child[m] # "new" PROVE Carried(m - 1)'
    <3>1. m - 1 \in Ordinal /\ m - 1 # n
      BY <2>1, OrdinalFacts
    <3> QED
      BY <1>1, <2>1, <3>1, CarriedStays DEF StoreInv, SuccessorEarned
  <2> QED
    BY <2>1 DEF StoreInv, SuccessorEarned
<1>5. EffectsInOrder'
  <2> SUFFICES ASSUME NEW m \in Ordinal, NEW c \in Call, <<m, c>> \in effects
               PROVE  resolved'[m] = "kept"
    BY DEF StoreInv, EffectsInOrder, Sealed
  <2> QED
    BY <1>1 DEF StoreInv, EffectsInOrder
<1> QED
  BY <1>2, <1>3, <1>4, <1>5 DEF StoreInv

(* Nothing but the observer's record moves.                                *)
LEMMA StoreStays ==
  ASSUME StoreInv, UNCHANGED <<child, decision, resolved, effects>>, seenBy' \subseteq Ordinal
  PROVE  StoreInv'
  BY DEF StoreInv, StoreTypes, StoreInOrder, SuccessorEarned, EffectsInOrder, Carried, CallsOf, Sealed

(* The decision being settled, resolved to one of its fates.               *)
LEMMA FateLands ==
  ASSUME StoreInv, RunTypes, SettledInTurn, at = "resolve", NEW fate \in Fates(terminal),
         resolved' = [resolved EXCEPT ![turn] = fate],
         UNCHANGED <<child, decision, effects, seenBy>>
  PROVE  StoreInv'
<1>1. PICK n \in Ordinal : n = turn
  BY DEF RunTypes
<1>2. /\ Sealed(n)
      /\ n < LastOrdinal => child[n + 1] = "new"
      /\ resolved[n] = "no"
      /\ decision[n] = terminal /\ Sound(terminal, n)
      /\ n = LastOrdinal => terminal.calls = <<>>
  BY <1>1 DEF SettledInTurn, Decided, Sealed
<1>3. fate \in {"kept", "dropped"}
  BY DEF Fates
<1>4. ASSUME fate = "kept"
      PROVE  n < LastOrdinal /\ decision[n].calls # <<>> /\ Sound(decision[n], n)
  BY <1>2, <1>4, OrdinalFacts DEF Fates
<1> QED
  BY <1>1, <1>2, <1>3, <1>4, ResolveLands

(* Whatever an interrupted call left behind, the store is in order.        *)
LEMMA LandedKeeps ==
  ASSUME GenerationInv, Landed
  PROVE  StoreInv'
<1> USE DEF GenerationInv, RunInv
<1>1. CASE UNCHANGED durable
  BY <1>1, StoreStays DEF durable, StoreInv, StoreTypes
<1>2. CASE /\ at = "arming"
           /\ child' = [child EXCEPT ![turn] = "armed"]
           /\ UNCHANGED <<decision, resolved, effects, seenBy>>
  BY <1>2, ArmLands
<1>3. CASE /\ at = "record"
           /\ child' = [child EXCEPT ![turn] = "sealed"]
           /\ decision' = [decision EXCEPT ![turn] = terminal]
           /\ UNCHANGED <<resolved, effects, seenBy>>
  BY <1>3, RecordLands
<1>4. CASE /\ at = "execute"
           /\ effects' = effects \cup {<<turn, ThisCall>>}
           /\ UNCHANGED <<child, decision, resolved, seenBy>>
  BY <1>4, ExecuteLands
<1>5. CASE /\ at = "resolve"
           /\ \E fate \in Fates(terminal) : resolved' = [resolved EXCEPT ![turn] = fate]
           /\ UNCHANGED <<child, decision, effects, seenBy>>
  BY <1>5, FateLands
<1>6. CASE /\ at = "acknowledge" /\ acked = Len(proposals)
           /\ seenBy' = seenBy \cup {turn}
           /\ UNCHANGED <<child, decision, resolved, effects>>
  BY <1>6, StoreStays DEF StoreInv, StoreTypes, RunTypes
<1> QED
  BY <1>1, <1>2, <1>3, <1>4, <1>5, <1>6 DEF Landed

-----------------------------------------------------------------------------
(* Where the run goes next. *)

(* Every child up to m is sealed, and none beyond.                         *)
ExactTo(m) == \A n \in Ordinal : child[n] = IF n <= m THEN "sealed" ELSE "new"

(* A sealed child whose successor is new is the newest that was asked.     *)
LEMMA NewestIsExact ==
  ASSUME StoreInv, NEW m \in 0..LastOrdinal,
         m > 0 => Sealed(m), m < LastOrdinal => child[m + 1] = "new"
  PROVE  ExactTo(m)
<1> SUFFICES ASSUME NEW n \in Ordinal
             PROVE  child[n] = IF n <= m THEN "sealed" ELSE "new"
  BY DEF ExactTo
<1>1. CASE n <= m
  <2>1. m \in Ordinal /\ Sealed(m) /\ (n = m \/ n < m)
    BY <1>1, OrdinalFacts
  <2>2. \A k \in Ordinal : k < m => Sealed(k)
    BY <2>1 DEF StoreInv, StoreInOrder, Sealed
  <2> QED
    BY <1>1, <2>1, <2>2 DEF Sealed
<1>2. CASE n > m
  <2>1. m + 1 \in Ordinal /\ child[m + 1] = "new" /\ (n = m + 1 \/ m + 1 < n) /\ ~(n <= m)
    BY <1>2, OrdinalFacts
  <2>2. child[n] = "new"
    BY <2>1 DEF StoreInv, StoreInOrder, Sealed
  <2> QED
    BY <2>1, <2>2
<1> QED
  BY <1>1, <1>2, OrdinalFacts

(* A run that ends leaves nothing to hold to but its report.               *)
LEMMA FinishRuns ==
  ASSUME NEW how \in Stopped \cup {"completed", "raised", "crashed"}, Finish(how),
         lastOrdinal' \in 0..LastOrdinal, reopened' \in 0..LastOrdinal,
         how \in Stopped \cup {"completed"} => ExactTo(lastOrdinal)'
  PROVE  RunInv'
<1>1. <<>> \in Seq(Call) /\ Len(<<>>) = 0 /\ NoTerminal \in Terminal
  BY EmptySeq DEF NoTerminal, Terminal
<1>2. proposals' \in Seq(Call) /\ results' \in Seq(Call) /\ Len(proposals') = 0
  BY <1>1 DEF Finish, FreshStream
<1>3. acked' \in 0..Len(proposals')
  BY <1>2 DEF Finish, FreshStream
<1>4. RunTypes'
  <2>1. /\ at' = "rest" /\ turn' = 0 /\ result' = how /\ cancelled' = FALSE
        /\ armStarted' = FALSE /\ armed' = FALSE /\ failed' = FALSE
        /\ terminal' \in Terminal
    BY <1>1 DEF Finish, FreshStream
  <2>2. turn' \in 0..LastOrdinal
    BY <2>1, OrdinalFacts
  <2> QED
    BY <1>2, <1>3, <2>1, <2>2 DEF RunTypes
<1>5. ReturnIsExact'
  BY DEF Finish, ReturnIsExact, ExactTo
<1>6. AskedInTurn' /\ SettledInTurn' /\ ServedInTurn'
  BY DEF Finish, AskedInTurn, Asking, SettledInTurn, ServedInTurn
<1> QED
  BY <1>4, <1>5, <1>6 DEF RunInv

(* A child is entered when all before it is carried out.                   *)
LEMMA EnterRuns ==
  ASSUME RunTypes, NEW n \in Ordinal, Enter(n),
         lastOrdinal' = n - 1, reopened' \in 0..LastOrdinal,
         child'[n] = "new", \A m \in Ordinal : m < n => Sealed(m)',
         n > 1 => Carried(n - 1)', MaxTurns # 0 => n <= MaxTurns
  PROVE  RunInv'
<1>1. <<>> \in Seq(Call) /\ Len(<<>>) = 0 /\ NoTerminal \in Terminal
  BY EmptySeq DEF NoTerminal, Terminal
<1>2. proposals' = <<>> /\ proposals' \in Seq(Call) /\ results' \in Seq(Call) /\ Len(proposals') = 0
  BY <1>1 DEF Enter, FreshStream
<1>3. acked' \in 0..Len(proposals')
  BY <1>2 DEF Enter, FreshStream
<1>4. RunTypes'
  <2>1. /\ at' = "stream" /\ turn' = n /\ result' = result /\ cancelled' = cancelled
        /\ armStarted' = FALSE /\ armed' = FALSE /\ failed' = FALSE
        /\ terminal' \in Terminal
    BY <1>1 DEF Enter, FreshStream
  <2>2. turn' \in 0..LastOrdinal /\ turn' \in Ordinal /\ lastOrdinal' \in 0..LastOrdinal
    BY <2>1, OrdinalFacts
  <2> QED
    BY <1>2, <1>3, <2>1, <2>2 DEF RunTypes, Awaits
<1>5. AskedInTurn'
  BY <1>2 DEF Enter, FreshStream, AskedInTurn, Asking
<1>6. ReturnIsExact' /\ SettledInTurn' /\ ServedInTurn'
  BY DEF Enter, ReturnIsExact, SettledInTurn, ServedInTurn
<1> QED
  BY <1>4, <1>5, <1>6 DEF RunInv

(* A kept continuation is served, or the run stops at a report that is     *)
(* exact.                                                                  *)
LEMMA ServeRuns ==
  ASSUME RunTypes, StoreInv', NEW n \in Ordinal, Serve(n),
         Sealed(n)', resolved'[n] = "kept", child'[n + 1] = "new",
         lastOrdinal' = n, reopened' \in 0..LastOrdinal, n \in seenBy' \/ n = reopened'
  PROVE  RunInv'
<1>1. /\ n < LastOrdinal /\ decision'[n].calls # <<>> /\ decision'[n] \in Terminal
      /\ n \in 0..LastOrdinal
  BY OrdinalFacts DEF StoreInv, StoreTypes, StoreInOrder
<1>2. ExactTo(lastOrdinal)'
  <2> SUFFICES ASSUME NEW i \in Ordinal
               PROVE  child'[i] = IF i <= n THEN "sealed" ELSE "new"
    BY DEF ExactTo
  <2>1. CASE i <= n
    BY <2>1, OrdinalFacts DEF StoreInv, StoreInOrder, Sealed
  <2>2. CASE i > n
    <3>1. n + 1 \in Ordinal /\ (i = n + 1 \/ n + 1 < i)
      BY <1>1, <2>2, OrdinalFacts
    <3> QED
      BY <2>2, <3>1, OrdinalFacts DEF StoreInv, StoreInOrder, Sealed
  <2> QED
    BY <2>1, <2>2, OrdinalFacts
<1>3. CASE cancelled
  BY <1>1, <1>2, <1>3, FinishRuns DEF Serve, Stopped
<1>4. CASE ~cancelled /\ Exhausted(n)
  BY <1>1, <1>2, <1>4, FinishRuns DEF Serve, Stopped
<1>5. CASE ~cancelled /\ ~Exhausted(n)
  <2>1. at' = "execute" /\ turn' = n /\ results' = <<>> /\ FreshStream /\ UNCHANGED <<cancelled, result>>
    BY <1>5 DEF Serve
  <2>2. <<>> \in Seq(Call) /\ Len(<<>>) = 0 /\ NoTerminal \in Terminal
    BY EmptySeq DEF NoTerminal, Terminal
  <2>3. proposals' \in Seq(Call) /\ results' \in Seq(Call) /\ Len(proposals') = 0 /\ Len(results') = 0
    BY <2>1, <2>2 DEF FreshStream
  <2>4. acked' \in 0..Len(proposals')
    BY <2>1, <2>3 DEF FreshStream
  <2>5. RunTypes'
    BY <1>1, <2>1, <2>2, <2>3, <2>4 DEF FreshStream, RunTypes, Awaits
  <2>6. Len(decision'[n].calls) \in Nat \ {0}
    BY <1>1, EmptySeq DEF Terminal
  <2>7. MaxTurns # 0 => n < MaxTurns
    BY <1>5, OrdinalFacts DEF Exhausted
  <2>8. ServedInTurn'
    BY <1>1, <2>1, <2>3, <2>6, <2>7 DEF ServedInTurn, Calls, Sealed
  <2>9. ReturnIsExact' /\ AskedInTurn' /\ SettledInTurn'
    BY <2>1 DEF ReturnIsExact, AskedInTurn, Asking, SettledInTurn
  <2> QED
    BY <2>5, <2>8, <2>9 DEF RunInv
<1> QED
  BY <1>3, <1>4, <1>5

(* The same child is asked on: the store moved at most by its arming.      *)
LEMMA AskedOn ==
  ASSUME RunTypes, AskedInTurn, Asking,
         UNCHANGED <<decision, resolved, effects, turn, lastOrdinal>>,
         \A m \in Ordinal : m # turn => child'[m] = child[m], child'[turn] # "sealed",
         at' \in {"stream", "arming", "observe", "record"},
         ~armStarted' \/ at' = "arming" => child'[turn] = "new", at' = "arming" => armStarted',
         at' \in {"observe", "record"} \/ armed' => child'[turn] = "armed",
         turn = LastOrdinal => proposals' = <<>> /\ (at' = "record" => terminal'.calls = <<>>)
  PROVE  AskedInTurn' /\ SettledInTurn' /\ ServedInTurn' /\ ReturnIsExact'
<1>1. turn \in Ordinal
  BY DEF RunTypes, Asking
<1>2. \A m \in Ordinal : m < turn => Sealed(m)'
  BY <1>1, OrdinalFacts DEF AskedInTurn, Sealed
<1>3. turn > 1 => Carried(turn - 1)'
  <2> SUFFICES ASSUME turn > 1 PROVE Carried(turn - 1)'
    OBVIOUS
  <2>1. PICK n \in Ordinal : n = turn - 1 /\ n # turn
    BY <1>1, OrdinalFacts
  <2>2. Carried(n)
    BY <2>1 DEF AskedInTurn
  <2> QED
    BY <2>1, <2>2, CarriedStays
<1>4. AskedInTurn'
  BY <1>2, <1>3 DEF AskedInTurn, Asking
<1> QED
  BY <1>4 DEF SettledInTurn, ServedInTurn, ReturnIsExact

(* The host's steps. *)
LEMMA HostSteps ==
  ASSUME GenerationInv, Host
  PROVE  GenerationInv'
<1> USE DEF GenerationInv, RunInv
<1>1. CASE StartTurn
  <2>1. StoreInv'
    BY <1>1, StoreStays DEF StartTurn, durable, StoreInv, StoreTypes
  <2>2. 1 \in Ordinal /\ 0 \in 0..LastOrdinal /\ child[1] = "new"
    <3>1. 1 \in Ordinal /\ 0 \in 0..LastOrdinal
      BY GenerationAssumption DEF Ordinal
    <3> QED
      BY <1>1, <3>1 DEF StartTurn
  <2>3. CASE Enter(1)
    <3>1. MaxTurns # 0 => 1 <= MaxTurns
      BY OrdinalFacts
    <3>2. child'[1] = "new" /\ lastOrdinal' = 1 - 1 /\ reopened' \in 0..LastOrdinal
      BY <1>1, <2>2 DEF StartTurn, durable
    <3>3. \A m \in Ordinal : m < 1 => Sealed(m)'
      BY OrdinalFacts
    <3> QED
      BY <2>1, <2>2, <2>3, <3>1, <3>2, <3>3, EnterRuns
  <2>4. CASE AlreadyCancelled
    <3>1. ExactTo(0)
      BY <2>2, OrdinalFacts, NewestIsExact
    <3>2. ExactTo(lastOrdinal)'
      BY <1>1, <3>1 DEF StartTurn, durable, ExactTo
    <3> QED
      BY <1>1, <2>1, <2>2, <2>4, <3>2, FinishRuns DEF StartTurn, AlreadyCancelled, Stopped
  <2> QED
    BY <1>1, <2>3, <2>4 DEF StartTurn
<1>2. CASE Cancel
  <2>1. StoreInv'
    BY <1>2, StoreStays DEF Cancel, durable, StoreInv, StoreTypes
  <2>2. RunTypes'
    BY <1>2 DEF Cancel, RunTypes, streamVars
  <2>3. AskedInTurn' /\ SettledInTurn' /\ ServedInTurn' /\ ReturnIsExact'
    BY <1>2 DEF Cancel, durable, streamVars, AskedInTurn, Asking, SettledInTurn, Decided,
                ServedInTurn, Calls, ReturnIsExact, Sealed, Carried, CallsOf
  <2> QED
    BY <2>1, <2>2, <2>3
<1>3. ASSUME NEW n \in Ordinal, Resume(n) PROVE GenerationInv'
  <2>1. /\ Sealed(n) /\ resolved[n] # "dropped"
        /\ n < LastOrdinal /\ child[n + 1] = "new"
        /\ decision[n].calls # <<>> /\ Sound(decision[n], n)
        /\ resolved' = [resolved EXCEPT ![n] = "kept"] /\ lastOrdinal' = n /\ reopened' = n
        /\ UNCHANGED <<child, decision, effects, seenBy>>
    BY <1>3 DEF Resume, Resumable
  <2>2. resolved[n] = "no" \/ "kept" = resolved[n]
    BY <2>1 DEF StoreInv, StoreTypes
  <2>3. StoreInv'
    BY <2>1, <2>2, ResolveLands
  <2>4. Sealed(n)' /\ resolved'[n] = "kept" /\ child'[n + 1] = "new" /\ reopened' \in 0..LastOrdinal
    BY <2>1, OrdinalFacts DEF StoreInv, StoreTypes, Sealed
  <2>5. CASE Serve(n)
    BY <2>1, <2>3, <2>4, <2>5, ServeRuns
  <2>6. CASE AlreadyCancelled
    <3>1. n \in 0..LastOrdinal
      BY OrdinalFacts
    <3>2. ExactTo(n)
      BY <2>1, <3>1, NewestIsExact
    <3>3. ExactTo(lastOrdinal)'
      BY <2>1, <3>2 DEF ExactTo
    <3> QED
      BY <2>1, <2>3, <2>4, <2>6, <3>1, <3>3, FinishRuns DEF AlreadyCancelled, Stopped
  <2> QED
    BY <1>3, <2>5, <2>6 DEF Resume
<1> QED
  BY <1>1, <1>2, <1>3 DEF Host

(* The driver's frames, its call of arm() and the end of its stream.       *)
LEMMA DriverSteps ==
  ASSUME GenerationInv, Driver
  PROVE  GenerationInv'
<1> USE DEF GenerationInv, RunInv
<1>1. /\ at = "stream" /\ Asking /\ turn \in Ordinal
      /\ UNCHANGED durable /\ lastOrdinal' = lastOrdinal /\ reopened' = reopened
  BY DEF Driver, DriverArms, BadFrame, Observation, Proposal, TerminalFrame, StreamEnds, RunTypes,
         Asking
<1>2. StoreInv'
  BY <1>1, StoreStays DEF durable, StoreInv, StoreTypes
<1>3. /\ child[turn] # "sealed" /\ (~armStarted => child[turn] = "new")
      /\ armed => child[turn] = "armed"
      /\ turn = LastOrdinal => proposals = <<>>
  BY <1>1 DEF AskedInTurn
<1>4. lastOrdinal' \in 0..LastOrdinal /\ reopened' \in 0..LastOrdinal
  BY <1>1 DEF RunTypes
<1>5. ASSUME Finish("raised") PROVE GenerationInv'
  BY <1>2, <1>4, <1>5, FinishRuns DEF Stopped
<1>6. CASE DriverArms
  <2>1. ASSUME armStarted' = TRUE, Move("stream"), UNCHANGED <<armed, proposals, terminal, failed, acked>>
        PROVE  GenerationInv'
    <3>1. RunTypes'
      BY <1>1, <2>1 DEF RunTypes, Move, Awaits
    <3> QED
      BY <1>1, <1>2, <1>3, <2>1, <3>1, AskedOn DEF Move, durable
  <2>2. CASE armStarted
    BY <1>5, <1>6, <2>1, <2>2 DEF DriverArms, Refused
  <2>3. CASE ~armStarted /\ cancelled
    <3>1. ASSUME Finish("cancelled") PROVE GenerationInv'
      <4>1. PICK m \in 0..LastOrdinal : m = turn - 1 /\ m = lastOrdinal
        BY <1>1, OrdinalFacts DEF AskedInTurn
      <4>2. (m > 0 => Sealed(m)) /\ (m < LastOrdinal => child[m + 1] = "new")
        BY <1>1, <1>3, <2>3, <4>1, OrdinalFacts DEF AskedInTurn
      <4>3. ExactTo(m)
        BY <4>2, NewestIsExact
      <4>4. ExactTo(lastOrdinal)'
        BY <1>1, <4>1, <4>3 DEF ExactTo, durable
      <4> QED
        BY <1>2, <1>4, <3>1, <4>4, FinishRuns DEF Stopped
    <3> QED
      BY <1>6, <2>1, <2>3, <3>1 DEF DriverArms, MayArm, Refused
  <2>4. CASE ~armStarted /\ ~cancelled
    <3>1. /\ armStarted' = TRUE /\ Move("arming")
          /\ UNCHANGED <<armed, proposals, terminal, failed, acked>>
      BY <1>6, <2>4 DEF DriverArms, MayArm
    <3>2. RunTypes'
      BY <1>1, <3>1 DEF RunTypes, Move, Awaits
    <3> QED
      BY <1>1, <1>2, <1>3, <2>4, <3>1, <3>2, AskedOn DEF Move, durable
  <2> QED
    BY <2>2, <2>3, <2>4 DEF RunTypes
<1>7. CASE BadFrame
  <2>1. RunTypes'
    BY <1>1, <1>7 DEF BadFrame, RunTypes, Move, Awaits
  <2>2. AskedInTurn' /\ SettledInTurn' /\ ServedInTurn' /\ ReturnIsExact'
    BY <1>7 DEF BadFrame, Move, AskedInTurn, Asking, SettledInTurn, ServedInTurn, ReturnIsExact
  <2> QED
    BY <1>2, <2>1, <2>2
<1>8. CASE Observation
  <2>1. RunTypes'
    BY <1>1, <1>8 DEF Observation, RunTypes, Move, Awaits, streamVars
  <2> QED
    BY <1>1, <1>2, <1>3, <1>8, <2>1, AskedOn DEF Observation, Move, durable, streamVars
<1>9. CASE Proposal
  <2>1. PICK c \in Call : proposals' = Append(proposals, c)
    BY <1>9 DEF Proposal
  <2>2. proposals' \in Seq(Call) /\ Len(proposals') = Len(proposals) + 1 /\ Len(proposals) \in Nat
    BY <2>1, AppendProperties, LenProperties DEF RunTypes
  <2>3. acked' \in 0..Len(proposals')
    BY <1>9, <2>2 DEF Proposal, RunTypes
  <2>4. RunTypes'
    BY <1>1, <1>9, <2>2, <2>3 DEF Proposal, RunTypes
  <2>5. turn # LastOrdinal
    BY <1>9, OrdinalFacts DEF Proposal
  <2> QED
    BY <1>1, <1>2, <1>3, <1>9, <2>4, <2>5, AskedOn DEF Proposal, durable
<1>10. CASE TerminalFrame
  <2>1. PICK calls \in CallLists, source \in Ordinal :
              /\ \/ calls = proposals /\ source = turn
                 \/ "mismatch" \in Env /\ turn < LastOrdinal
              /\ terminal' = [calls |-> calls, source |-> source, proposed |-> proposals]
    BY <1>10 DEF TerminalFrame
  <2>2. calls \in Seq(Call)
    <3>1. PICK k \in 0..MaxProposals : calls \in [1..k -> Call]
      BY DEF CallLists
    <3>2. k \in Nat
      BY OrdinalFacts
    <3> QED
      BY <3>1, <3>2, SeqDef
  <2>3. terminal' \in Terminal
    BY <2>1, <2>2, OrdinalFacts DEF Terminal, RunTypes
  <2>4. /\ Move("record")
        /\ UNCHANGED <<durable, armStarted, armed, proposals, failed, acked, lastOrdinal, reopened>>
    BY <1>10 DEF TerminalFrame
  <2>5. RunTypes'
    BY <1>1, <2>3, <2>4 DEF RunTypes, Move, Awaits
  <2>6. turn = LastOrdinal => terminal'.calls = <<>>
    BY <1>3, <2>1, OrdinalFacts
  <2>7. armed
    BY <1>10 DEF TerminalFrame
  <2> QED
    BY <1>1, <1>2, <1>3, <2>4, <2>5, <2>6, <2>7, AskedOn DEF Move, durable
<1>11. CASE StreamEnds
  BY <1>5, <1>11 DEF StreamEnds
<1> QED
  BY <1>6, <1>7, <1>8, <1>9, <1>10, <1>11 DEF Driver

(* Every await of a port that answers.                                     *)
LEMMA LoopSteps ==
  ASSUME GenerationInv, Loop
  PROVE  GenerationInv'
<1> USE DEF GenerationInv, RunInv
<1>1. lastOrdinal \in 0..LastOrdinal /\ reopened \in 0..LastOrdinal
  BY DEF RunTypes
<1>2. ASSUME Finish("raised"), StoreInv', lastOrdinal' = lastOrdinal, reopened' = reopened
      PROVE  GenerationInv'
  BY <1>1, <1>2, FinishRuns DEF Stopped
<1>3. CASE ExecuteReturns
  <2>1. /\ at = "execute" /\ effects' = effects \cup {<<turn, ThisCall>>}
        /\ UNCHANGED <<child, decision, resolved, seenBy, lastOrdinal, reopened>>
    BY <1>3 DEF ExecuteReturns
  <2>2. StoreInv'
    BY <2>1, ExecuteLands
  <2>3. /\ turn \in Ordinal /\ child[turn] = "sealed" /\ resolved[turn] = "kept"
        /\ turn < LastOrdinal /\ child[turn + 1] = "new" /\ lastOrdinal = turn
        /\ turn \in seenBy \/ turn = reopened
        /\ MaxTurns # 0 => turn < MaxTurns
        /\ \A i \in 1..Len(results) : <<turn, Calls[i]>> \in effects
        /\ Len(results) < Len(Calls)
    BY <2>1 DEF ServedInTurn, RunTypes
  <2>4. ASSUME Finish("cancelled") PROVE GenerationInv'
    <3>1. PICK m \in 0..LastOrdinal : m = turn
      BY <2>3, OrdinalFacts
    <3>2. ExactTo(m)
      BY <2>3, <3>1, NewestIsExact DEF Sealed
    <3>3. ExactTo(lastOrdinal)'
      BY <2>1, <2>3, <3>1, <3>2 DEF ExactTo
    <3> QED
      BY <1>1, <2>1, <2>2, <2>4, <3>3, FinishRuns DEF Stopped
  <2>5. ASSUME /\ results' = Append(results, ThisCall)
               /\ at' = IF Len(results') < Len(Calls) THEN "execute" ELSE "open"
               /\ UNCHANGED <<cancelled, turn, streamVars, result>>
        PROVE  GenerationInv'
    <3>1. decision[turn] \in Terminal /\ Calls \in Seq(Call) /\ Calls' = Calls
      BY <2>1, <2>3, <2>5 DEF StoreInv, StoreTypes, Terminal, Calls
    <3>2. Len(results) \in Nat /\ Len(Calls) \in Nat
      BY <3>1, LenProperties DEF RunTypes
    <3>3. Len(results) + 1 \in 1..Len(Calls)
      BY <2>3, <3>2
    <3>4. ThisCall \in Call /\ ThisCall = Calls[Len(results) + 1]
      BY <3>1, <3>3, ElementOfSeq DEF ThisCall
    <3>5. results' \in Seq(Call) /\ Len(results') = Len(results) + 1
      BY <2>5, <3>4, AppendProperties DEF RunTypes
    <3>6. RunTypes'
      BY <2>1, <2>3, <2>5, <3>5 DEF RunTypes, Awaits, streamVars
    <3>7. \A i \in 1..Len(results') : <<turn, Calls[i]>> \in effects'
      <4> TAKE i \in 1..Len(results')
      <4>1. CASE i = Len(results) + 1
        BY <2>1, <3>4, <4>1
      <4>2. CASE i # Len(results) + 1
        BY <2>1, <2>3, <3>2, <3>5, <4>2
      <4> QED
        BY <4>1, <4>2
    <3>8. IF at' = "execute" THEN Len(results') < Len(Calls) ELSE Len(results') = Len(Calls)
      BY <2>3, <2>5, <3>2, <3>5
    <3>9. ServedInTurn'
      BY <2>1, <2>3, <2>5, <3>1, <3>7, <3>8 DEF ServedInTurn
    <3>10. AskedInTurn' /\ SettledInTurn' /\ ReturnIsExact'
      BY <2>5 DEF AskedInTurn, Asking, SettledInTurn, ReturnIsExact
    <3> QED
      BY <2>2, <3>6, <3>9, <3>10
  <2> QED
    BY <1>2, <1>3, <2>1, <2>2, <2>4, <2>5 DEF ExecuteReturns, AfterTool
<1>4. CASE OpenReturns
  <2>1. at = "open" /\ UNCHANGED <<durable, lastOrdinal, reopened>>
    BY <1>4 DEF OpenReturns
  <2>2. StoreInv'
    BY <2>1, StoreStays DEF durable, StoreInv, StoreTypes
  <2>3. /\ turn \in Ordinal /\ child[turn] = "sealed" /\ resolved[turn] = "kept"
        /\ turn < LastOrdinal /\ child[turn + 1] = "new" /\ lastOrdinal = turn
        /\ MaxTurns # 0 => turn < MaxTurns
        /\ \A i \in 1..Len(results) : <<turn, Calls[i]>> \in effects
        /\ Len(results) = Len(Calls)
    BY <2>1 DEF ServedInTurn, RunTypes
  <2>4. ASSUME Finish("cancelled") PROVE GenerationInv'
    <3>1. PICK m \in 0..LastOrdinal : m = turn
      BY <2>3, OrdinalFacts
    <3>2. ExactTo(m)
      BY <2>3, <3>1, NewestIsExact DEF Sealed
    <3>3. ExactTo(lastOrdinal)'
      BY <2>1, <2>3, <3>1, <3>2 DEF ExactTo, durable
    <3> QED
      BY <1>1, <2>1, <2>2, <2>4, <3>3, FinishRuns DEF Stopped
  <2>5. ASSUME Enter(Successor) PROVE GenerationInv'
    <3>1. PICK n \in Ordinal : n = turn + 1
      BY <2>3, OrdinalFacts
    <3>2. Carried(turn)
      <4>1. decision[turn] \in Terminal /\ Calls \in Seq(Call) /\ Calls = decision[turn].calls
        BY <2>3 DEF StoreInv, StoreTypes, Terminal, Calls
      <4>2. DOMAIN Calls = 1..Len(Calls)
        BY <4>1, LenProperties
      <4>3. {turn} \X CallsOf(turn) \subseteq effects
        BY <2>3, <4>1, <4>2 DEF CallsOf
      <4> QED
        BY <2>3, <4>3 DEF Carried, StoreInv, StoreInOrder, Sealed
    <3>3. Carried(n - 1)'
      BY <2>1, <2>3, <3>1, <3>2, OrdinalFacts DEF durable, Carried, CallsOf, Sealed
    <3>4. \A m \in Ordinal : m < n => Sealed(m)'
      BY <2>1, <2>3, <3>1, OrdinalFacts DEF durable, StoreInv, StoreInOrder, Sealed
    <3>5. child'[n] = "new" /\ lastOrdinal' = n - 1 /\ (MaxTurns # 0 => n <= MaxTurns)
      BY <2>1, <2>3, <3>1, OrdinalFacts DEF durable
    <3> QED
      BY <1>1, <2>1, <2>2, <2>5, <3>1, <3>3, <3>4, <3>5, EnterRuns DEF Successor
  <2> QED
    BY <1>2, <1>4, <2>1, <2>2, <2>4, <2>5 DEF OpenReturns
<1>5. CASE ArmReturns
  <2>1. /\ at = "arming" /\ child' = [child EXCEPT ![turn] = "armed"] /\ armed' = TRUE
        /\ Move("stream")
        /\ UNCHANGED <<decision, resolved, effects, seenBy, lastOrdinal, reopened, armStarted,
                       proposals, terminal, failed, acked>>
    BY <1>5 DEF ArmReturns
  <2>2. StoreInv'
    BY <2>1, ArmLands
  <2>3. turn \in Ordinal /\ child'[turn] = "armed" /\ \A m \in Ordinal : m # turn => child'[m] = child[m]
    BY <2>1 DEF RunTypes, StoreInv, StoreTypes
  <2>4. Asking /\ (turn = LastOrdinal => proposals = <<>>) /\ armStarted
    BY <2>1 DEF AskedInTurn, Asking, RunTypes
  <2>5. RunTypes'
    BY <2>1, <2>3 DEF RunTypes, Move, Awaits
  <2> QED
    BY <2>1, <2>2, <2>3, <2>4, <2>5, AskedOn DEF Move
<1>6. CASE ObserveReturns
  <2>1. at = "observe" /\ Move("stream") /\ UNCHANGED <<durable, streamVars, lastOrdinal, reopened>>
    BY <1>6 DEF ObserveReturns
  <2>2. StoreInv'
    BY <2>1, StoreStays DEF durable, StoreInv, StoreTypes
  <2>3. /\ Asking /\ child[turn] # "sealed" /\ (~armStarted => child[turn] = "new")
        /\ child[turn] = "armed" /\ (turn = LastOrdinal => proposals = <<>>) /\ turn \in Ordinal
    BY <2>1 DEF AskedInTurn, Asking, RunTypes
  <2>4. RunTypes'
    BY <2>1, <2>3 DEF RunTypes, Move, Awaits, streamVars
  <2> QED
    BY <2>1, <2>2, <2>3, <2>4, AskedOn DEF Move, durable, streamVars
<1>7. CASE RecordReturns
  <2>1. /\ at = "record" /\ child' = [child EXCEPT ![turn] = "sealed"]
        /\ decision' = [decision EXCEPT ![turn] = terminal] /\ Move("closing")
        /\ UNCHANGED <<resolved, effects, seenBy, streamVars, lastOrdinal, reopened>>
    BY <1>7 DEF RecordReturns
  <2>2. StoreInv'
    BY <2>1, RecordLands
  <2>3. /\ turn \in Ordinal /\ child[turn] = "armed"
        /\ MaxTurns # 0 => turn <= MaxTurns
        /\ turn = LastOrdinal => terminal.calls = <<>>
    BY <2>1 DEF AskedInTurn, Asking, RunTypes
  <2>4. resolved[turn] = "no"
    BY <2>3 DEF StoreInv, StoreTypes, StoreInOrder, Sealed
  <2>5. turn < LastOrdinal => child'[turn + 1] = "new"
    BY <2>1, <2>3, OrdinalFacts DEF StoreInv, StoreTypes, StoreInOrder, Sealed
  <2>6. child'[turn] = "sealed" /\ decision'[turn] = terminal
    BY <2>1, <2>3 DEF StoreInv, StoreTypes
  <2>7. Decided' /\ resolved'[turn'] = "no"
    BY <2>1, <2>3, <2>4, <2>5, <2>6 DEF Decided, Move, streamVars
  <2>8. RunTypes'
    BY <2>1, <2>3 DEF RunTypes, Move, Awaits, streamVars
  <2>9. SettledInTurn' /\ AskedInTurn' /\ ServedInTurn' /\ ReturnIsExact'
    BY <2>1, <2>7 DEF Move, SettledInTurn, AskedInTurn, Asking, ServedInTurn, ReturnIsExact
  <2> QED
    BY <2>2, <2>8, <2>9
<1>8. CASE ClosingReturns
  <2>1. at = "closing" /\ UNCHANGED <<durable, lastOrdinal, reopened>>
    BY <1>8 DEF ClosingReturns
  <2>2. StoreInv'
    BY <2>1, StoreStays DEF durable, StoreInv, StoreTypes
  <2>3. ASSUME ~failed, Sound(terminal, turn), Move("resolve"), UNCHANGED streamVars
        PROVE  GenerationInv'
    <3>1. RunTypes'
      BY <2>1, <2>3 DEF RunTypes, Move, Awaits, streamVars
    <3>2. Decided' /\ resolved'[turn'] = "no" /\ Sound(terminal', turn')
      BY <2>1, <2>3 DEF SettledInTurn, Decided, Move, streamVars, durable
    <3>3. SettledInTurn' /\ AskedInTurn' /\ ServedInTurn' /\ ReturnIsExact'
      BY <2>3, <3>2 DEF Move, SettledInTurn, AskedInTurn, Asking, ServedInTurn, ReturnIsExact
    <3> QED
      BY <2>2, <3>1, <3>3
  <2> QED
    BY <1>2, <1>8, <2>1, <2>2, <2>3 DEF ClosingReturns, Accepted, RunTypes
<1>9. CASE ResolveReturns
  <2>1. PICK fate \in Fates(terminal) : resolved' = [resolved EXCEPT ![turn] = fate]
    BY <1>9 DEF ResolveReturns
  <2>2. at = "resolve" /\ UNCHANGED <<child, decision, effects, seenBy, reopened>>
    BY <1>9 DEF ResolveReturns
  <2>3. StoreInv'
    BY <2>1, <2>2, FateLands
  <2>4. ASSUME Move("acknowledge"), lastOrdinal' = turn, UNCHANGED streamVars
        PROVE  GenerationInv'
    <3>1. turn \in Ordinal /\ turn \in 0..LastOrdinal
      BY <2>2, OrdinalFacts DEF RunTypes
    <3>2. RunTypes'
      BY <2>2, <2>4, <3>1 DEF RunTypes, Move, Awaits, streamVars
    <3>3. resolved'[turn] # "no"
      BY <2>1, <3>1 DEF Fates, StoreInv, StoreTypes
    <3>4. Decided' /\ resolved'[turn'] # "no" /\ Sound(terminal', turn') /\ lastOrdinal' = turn'
      BY <2>2, <2>4, <3>3 DEF SettledInTurn, Decided, Move, streamVars
    <3>5. SettledInTurn' /\ AskedInTurn' /\ ServedInTurn' /\ ReturnIsExact'
      BY <2>4, <3>4 DEF Move, SettledInTurn, AskedInTurn, Asking, ServedInTurn, ReturnIsExact
    <3> QED
      BY <2>3, <3>2, <3>5
  <2> QED
    BY <1>2, <1>9, <2>2, <2>3, <2>4 DEF ResolveReturns
<1>10. CASE AcknowledgeReturns
  <2>1. /\ at = "acknowledge" /\ UNCHANGED <<child, decision, resolved, effects, lastOrdinal, reopened>>
        /\ seenBy' = IF acked = Len(proposals) THEN seenBy \cup {turn} ELSE seenBy
    BY <1>10 DEF AcknowledgeReturns
  <2>2. /\ turn \in Ordinal /\ Decided /\ resolved[turn] # "no" /\ Sound(terminal, turn)
        /\ lastOrdinal = turn
    BY <2>1 DEF SettledInTurn, RunTypes
  <2>3. StoreInv'
    <3>1. seenBy' \subseteq Ordinal
      BY <2>1, <2>2 DEF StoreInv, StoreTypes
    <3> QED
      BY <2>1, <3>1, StoreStays
  <2>4. CASE acked # Len(proposals)
    <3>1. /\ acked' = acked + 1 /\ Move("acknowledge")
          /\ UNCHANGED <<armStarted, armed, proposals, terminal, failed>>
      BY <1>10, <2>4 DEF AcknowledgeReturns, Acknowledged
    <3>2. acked' \in 0..Len(proposals')
      <4>1. Len(proposals) \in Nat
        BY LenProperties DEF RunTypes
      <4> QED
        BY <2>4, <3>1, <4>1 DEF RunTypes
    <3>3. RunTypes'
      BY <2>1, <2>2, <3>1, <3>2 DEF RunTypes, Move, Awaits
    <3>4. Decided' /\ resolved'[turn'] # "no" /\ Sound(terminal', turn') /\ lastOrdinal' = turn'
      BY <2>1, <2>2, <3>1 DEF Decided, Move
    <3>5. SettledInTurn' /\ AskedInTurn' /\ ServedInTurn' /\ ReturnIsExact'
      BY <3>1, <3>4 DEF Move, SettledInTurn, AskedInTurn, Asking, ServedInTurn, ReturnIsExact
    <3> QED
      BY <2>3, <3>3, <3>5
  <2>5. CASE acked = Len(proposals) /\ resolved[turn] = "dropped"
    <3>1. Finish("completed")
      BY <1>10, <2>5 DEF AcknowledgeReturns, Acknowledged
    <3>2. PICK m \in 0..LastOrdinal : m = turn
      BY <2>2, OrdinalFacts
    <3>3. ExactTo(m)
      BY <2>2, <3>2, NewestIsExact DEF Decided, Sealed
    <3>4. ExactTo(lastOrdinal)'
      BY <2>1, <2>2, <3>2, <3>3 DEF ExactTo
    <3> QED
      BY <1>1, <2>1, <2>3, <3>1, <3>4, FinishRuns
  <2>6. CASE acked = Len(proposals) /\ resolved[turn] # "dropped"
    <3>1. PICK n \in Ordinal : n = turn
      BY <2>2
    <3>2. Serve(n)
      BY <1>10, <2>6, <3>1 DEF AcknowledgeReturns, Acknowledged
    <3>3. resolved[n] = "kept" /\ n < LastOrdinal
      BY <2>2, <2>6, <3>1 DEF StoreInv, StoreTypes, StoreInOrder
    <3>4. /\ Sealed(n)' /\ resolved'[n] = "kept" /\ child'[n + 1] = "new"
          /\ lastOrdinal' = n /\ n \in seenBy'
      BY <2>1, <2>2, <2>6, <3>1, <3>3 DEF Decided, Sealed
    <3> QED
      BY <1>1, <2>1, <2>3, <3>2, <3>4, ServeRuns
  <2> QED
    BY <2>4, <2>5, <2>6
<1> QED
  BY <1>3, <1>4, <1>5, <1>6, <1>7, <1>8, <1>9, <1>10 DEF Loop

(* An await that is interrupted, whether or not its call took effect.      *)
LEMMA PortFailsSteps ==
  ASSUME GenerationInv, PortFails
  PROVE  GenerationInv'
<1> USE DEF GenerationInv, RunInv
<1>1. /\ at \in Awaits \ {"stream"} /\ Landed
      /\ lastOrdinal' = lastOrdinal /\ reopened' = reopened
      /\ lastOrdinal' \in 0..LastOrdinal /\ reopened' \in 0..LastOrdinal
  BY DEF PortFails, RunTypes
<1>2. StoreInv'
  BY <1>1, LandedKeeps
<1>3. ASSUME Finish("raised") PROVE GenerationInv'
  BY <1>1, <1>2, <1>3, FinishRuns DEF Stopped
<1>4. CASE at = "arming"
  <2>1. Refused("raised")
    BY <1>4 DEF PortFails
  <2>2. ASSUME armStarted' = TRUE, Move("stream"), UNCHANGED <<armed, proposals, terminal, failed, acked>>
        PROVE  GenerationInv'
    <3>1. /\ Asking /\ turn \in Ordinal /\ child[turn] = "new" /\ ~armed
          /\ turn = LastOrdinal => proposals = <<>>
      BY <1>4 DEF AskedInTurn, Asking, RunTypes
    <3>2. \/ UNCHANGED durable
          \/ /\ child' = [child EXCEPT ![turn] = "armed"]
             /\ UNCHANGED <<decision, resolved, effects, seenBy>>
      BY <1>1, <1>4 DEF Landed
    <3>3. /\ child'[turn] # "sealed" /\ \A m \in Ordinal : m # turn => child'[m] = child[m]
          /\ UNCHANGED <<decision, resolved, effects>>
      BY <3>1, <3>2 DEF durable, StoreInv, StoreTypes
    <3>4. RunTypes'
      BY <1>1, <2>2, <3>1 DEF RunTypes, Move, Awaits
    <3> QED
      BY <1>1, <1>2, <2>2, <3>1, <3>3, <3>4, AskedOn DEF Move
  <2> QED
    BY <1>3, <2>1, <2>2 DEF Refused
<1>5. CASE at \in {"observe", "record"}
  <2>1. /\ failed' = TRUE /\ Move("closing")
        /\ UNCHANGED <<armStarted, armed, proposals, terminal, acked>>
    BY <1>5 DEF PortFails
  <2>2. RunTypes'
    BY <1>1, <1>5, <2>1 DEF RunTypes, Move, Awaits
  <2>3. SettledInTurn' /\ AskedInTurn' /\ ServedInTurn' /\ ReturnIsExact'
    BY <2>1 DEF Move, SettledInTurn, AskedInTurn, Asking, ServedInTurn, ReturnIsExact
  <2> QED
    BY <1>2, <2>2, <2>3
<1>6. CASE at \notin {"arming", "observe", "record"}
  BY <1>3, <1>6 DEF PortFails
<1> QED
  BY <1>4, <1>5, <1>6

(* No step leaves the invariant.                                           *)
LEMMA GenerationKeeps ==
  ASSUME GenerationInv, [Next]_vars
  PROVE  GenerationInv'
<1>1. CASE Host
  BY <1>1, HostSteps
<1>2. CASE Driver
  BY <1>2, DriverSteps
<1>3. CASE Loop
  BY <1>3, LoopSteps
<1>4. CASE PortFails
  BY <1>4, PortFailsSteps
<1>5. CASE Crash
  <2>1. StoreInv'
    BY <1>5, LandedKeeps DEF Crash
  <2>2. /\ Finish("crashed") /\ lastOrdinal' \in 0..LastOrdinal /\ reopened' \in 0..LastOrdinal
        /\ "crashed" \notin Stopped \cup {"completed"}
    BY <1>5 DEF Crash, GenerationInv, RunInv, RunTypes, Stopped
  <2> QED
    BY <2>1, <2>2, FinishRuns DEF GenerationInv
<1>6. CASE Idle \/ UNCHANGED vars
  <2>1. UNCHANGED <<durable, run>>
    BY <1>6 DEF Idle, vars
  <2>2. StoreInv'
    BY <2>1, StoreStays DEF durable, GenerationInv, StoreInv, StoreTypes
  <2>3. RunTypes'
    BY <2>1 DEF run, streamVars, GenerationInv, RunInv, RunTypes
  <2>4. AskedInTurn' /\ SettledInTurn'
    BY <2>1 DEF durable, run, streamVars, GenerationInv, RunInv, AskedInTurn, Asking, SettledInTurn,
                Decided, Sealed, Carried, CallsOf
  <2>5. ServedInTurn' /\ ReturnIsExact'
    BY <2>1 DEF durable, run, streamVars, GenerationInv, RunInv, ServedInTurn, Calls, ReturnIsExact
  <2> QED
    BY <2>2, <2>3, <2>4, <2>5 DEF GenerationInv, RunInv
<1> QED
  BY <1>1, <1>2, <1>3, <1>4, <1>5, <1>6 DEF Next

-----------------------------------------------------------------------------
(* The theorems. *)

(* Whatever stops, crashes and resumes, the durable store and the run are  *)
(* in order.                                                               *)
THEOREM GenerationInvariant == Spec => []GenerationInv
<1>1. Init => GenerationInv
  BY GenerationStarts
<1>2. GenerationInv /\ [Next]_vars => GenerationInv'
  BY GenerationKeeps
<1> QED
  BY <1>1, <1>2, PTL DEF Spec

(* Every variable of run_generation keeps its type.                        *)
THEOREM GenerationTypes == Spec => []TypeOK
<1>1. GenerationInv => TypeOK
  BY Types DEF GenerationInv, StoreInv, RunInv
<1> QED
  BY <1>1, GenerationInvariant, PTL

(* No child is armed before the work of its predecessor is done, and       *)
(* max_turns bounds the chain.                                             *)
THEOREM SuccessorsAreEarned == Spec => []SuccessorEarned
<1>1. GenerationInv => SuccessorEarned
  BY DEF GenerationInv, StoreInv
<1> QED
  BY <1>1, GenerationInvariant, PTL

(* Only the tools of a kept continuation run, and in its order.            *)
THEOREM EffectsAreOrdered == Spec => []EffectsInOrder
<1>1. GenerationInv => EffectsInOrder
  BY DEF GenerationInv, StoreInv
<1> QED
  BY <1>1, GenerationInvariant, PTL

(* A run that returns has hidden no child whose fate is unknown.           *)
THEOREM ReturnsAreExact == Spec => []ReturnIsExact
<1>1. GenerationInv => ReturnIsExact
  BY DEF GenerationInv, RunInv
<1> QED
  BY <1>1, GenerationInvariant, PTL

(* Tools have outcomes only where tools are executed.                      *)
LEMMA EffectsMoveInServing ==
  ASSUME [Next]_vars, effects' # effects
  PROVE  at = "execute"
<1> SUFFICES ASSUME at # "execute" PROVE FALSE
  OBVIOUS
<1>1. CASE Host
  BY <1>1 DEF Host, StartTurn, Cancel, Resume, durable
<1>2. CASE Driver
  BY <1>2 DEF Driver, DriverArms, BadFrame, Observation, Proposal, TerminalFrame, StreamEnds, durable
<1>3. CASE Loop
  BY <1>3 DEF Loop, ExecuteReturns, OpenReturns, ArmReturns, ObserveReturns, RecordReturns,
              ClosingReturns, ResolveReturns, AcknowledgeReturns, durable
<1>4. CASE PortFails \/ Crash
  BY <1>4 DEF PortFails, Crash, Landed, durable
<1>5. CASE Idle \/ UNCHANGED vars
  BY <1>5 DEF Idle, vars, durable
<1> QED
  BY <1>1, <1>2, <1>3, <1>4, <1>5 DEF Next

(* A tool runs only behind the observer's acknowledgment of the terminal   *)
(* that asked for it, or in a run resumed from that decision.              *)
THEOREM ToolsWaitForTheObserver == Spec => AcknowledgedFirst
<1>1. GenerationInv /\ [Next]_vars => [effects' # effects => turn \in seenBy \/ turn = reopened]_vars
  BY EffectsMoveInServing DEF GenerationInv, RunInv, ServedInTurn
<1> QED
  BY <1>1, GenerationInvariant, PTL DEF Spec, AcknowledgedFirst

(* Once the signal is set no tool, reopening or arming is started.         *)
THEOREM CancellationIsHeeded == Spec => CancelHeeded
<1>1. ASSUME [Next]_vars, cancelled, at' \in {"execute", "open", "arming"}
      PROVE  at' = at /\ results' = results
  <2> USE DEF Finish, Enter, Move
  <2>1. CASE Host
    BY <1>1, <2>1 DEF Host, StartTurn, Cancel, Resume, Serve, AlreadyCancelled
  <2>2. CASE Driver
    BY <1>1, <2>2 DEF Driver, DriverArms, MayArm, Refused, BadFrame, Observation, Proposal,
                      TerminalFrame, StreamEnds
  <2>3. CASE Loop
    BY <1>1, <2>3 DEF Loop, ExecuteReturns, AfterTool, OpenReturns, ArmReturns, ObserveReturns,
                      RecordReturns, ClosingReturns, ResolveReturns, AcknowledgeReturns, Serve
  <2>4. CASE PortFails
    <3>1. at' \in {"rest", "stream", "closing"}
      BY <2>4 DEF PortFails, Refused
    <3> QED
      BY <1>1, <3>1
  <2>5. CASE Crash
    BY <1>1, <2>5 DEF Crash
  <2>6. CASE Idle \/ UNCHANGED vars
    BY <2>6 DEF Idle, vars, run
  <2> QED
    BY <1>1, <2>1, <2>2, <2>3, <2>4, <2>5, <2>6 DEF Next
<1>2. [Next]_vars => [cancelled /\ at' \in {"execute", "open", "arming"}
                      => at' = at /\ results' = results]_vars
  BY <1>1
<1> QED
  BY <1>2, PTL DEF Spec, CancelHeeded

-----------------------------------------------------------------------------
(* The refinement. *)


(* The chain is k children long.                                           *)
DepthAt(k) == \A n \in Ordinal : child[n] # "new" <=> n <= k

(* Then k is the depth of the abstract chain.                              *)
LEMMA DepthIs ==
  ASSUME NEW k \in 0..LastOrdinal, DepthAt(k)
  PROVE  Depth = k
<1>1. {n \in Ordinal : child[n] # "new"} = 1..k
  BY GenerationAssumption DEF DepthAt, Ordinal
<1>2. Cardinality(1..k) = k
  BY FS_Interval, GenerationAssumption
<1> QED
  BY <1>1, <1>2 DEF Depth

(* And so it is after a step.                                              *)
LEMMA DepthNext ==
  ASSUME NEW k \in 0..LastOrdinal, DepthAt(k)'
  PROVE  Depth' = k
<1>1. {n \in Ordinal : child'[n] # "new"} = 1..k
  BY GenerationAssumption DEF DepthAt, Ordinal
<1>2. Cardinality(1..k) = k
  BY FS_Interval, GenerationAssumption
<1> QED
  BY <1>1, <1>2 DEF Depth

(* What a step may do to the store: one landed call at most.               *)
Stays     == UNCHANGED <<child, decision, resolved, effects>>
LandArm   == at = "arming" /\ child' = [child EXCEPT ![turn] = "armed"]
             /\ UNCHANGED <<decision, resolved, effects>>
LandSeal  == at = "record" /\ child' = [child EXCEPT ![turn] = "sealed"]
             /\ decision' = [decision EXCEPT ![turn] = terminal] /\ UNCHANGED <<resolved, effects>>
LandTool  == at = "execute" /\ effects' = effects \cup {<<turn, ThisCall>>}
             /\ UNCHANGED <<child, decision, resolved>>
LandFate  == \E n \in Ordinal :
                /\ Sealed(n) /\ (n < LastOrdinal => child[n + 1] = "new")
                /\ \E fate \in {"kept", "dropped"} :
                      /\ resolved[n] = "no" \/ fate = resolved[n]
                      /\ resolved' = [resolved EXCEPT ![n] = fate]
                /\ UNCHANGED <<child, decision, effects>>

(* The terminal at hand is resolved once.                                  *)
LEMMA FateOfTerminal ==
  ASSUME GenerationInv, at = "resolve", NEW fate \in Fates(terminal),
         resolved' = [resolved EXCEPT ![turn] = fate],
         UNCHANGED <<child, decision, effects>>
  PROVE  LandFate
<1>1. turn \in Ordinal /\ Decided /\ resolved[turn] = "no"
  BY DEF GenerationInv, RunInv, RunTypes, SettledInTurn
<1>2. fate \in {"kept", "dropped"}
  BY DEF Fates
<1> QED
  BY <1>1, <1>2 DEF LandFate, Decided, Sealed

(* Every step of the run lands one call on the store, or none.             *)
LEMMA StoreMoves ==
  ASSUME GenerationInv, [Next]_vars
  PROVE  Stays \/ LandArm \/ LandSeal \/ LandTool \/ LandFate
<1> USE DEF Stays, durable
<1>1. CASE Host
  <2>1. ASSUME NEW n \in Ordinal, Resume(n) PROVE LandFate
    <3>1. resolved[n] = "no" \/ "kept" = resolved[n]
      BY <2>1 DEF Resume, Resumable, GenerationInv, StoreInv, StoreTypes
    <3> QED
      BY <2>1, <3>1 DEF Resume, Resumable, LandFate
  <2> QED
    BY <1>1, <2>1 DEF Host, StartTurn, Cancel
<1>2. CASE Driver
  BY <1>2 DEF Driver, DriverArms, BadFrame, Observation, Proposal, TerminalFrame, StreamEnds
<1>3. CASE ResolveReturns
  BY <1>3, FateOfTerminal DEF ResolveReturns
<1>4. CASE Loop /\ ~ResolveReturns
  BY <1>4 DEF Loop, ExecuteReturns, OpenReturns, ArmReturns, ObserveReturns, RecordReturns,
              ClosingReturns, AcknowledgeReturns, LandArm, LandSeal, LandTool
<1>5. CASE PortFails \/ Crash
  <2>1. Landed
    BY <1>5 DEF PortFails, Crash
  <2>2. CASE /\ at = "resolve"
             /\ \E fate \in Fates(terminal) : resolved' = [resolved EXCEPT ![turn] = fate]
             /\ UNCHANGED <<child, decision, effects, seenBy>>
    BY <2>2, FateOfTerminal
  <2> QED
    BY <2>1, <2>2 DEF Landed, LandArm, LandSeal, LandTool
<1>6. CASE Idle \/ UNCHANGED vars
  BY <1>6 DEF Idle, vars
<1> QED
  BY <1>1, <1>2, <1>3, <1>4, <1>5, <1>6 DEF Next

(* Whatever rests on the store alone stays with it.                        *)
LEMMA ChainStays ==
  ASSUME Stays
  PROVE  UNCHANGED <<Depth, Stage>>
  BY DEF Stays, Depth, Stage, Sealed, Carried, CallsOf

(* arm() arms the next decision: the one before it is carried out.         *)
LEMMA ArmIsArm ==
  ASSUME GenerationInv, LandArm
  PROVE  Chain!Arm
<1> USE DEF GenerationInv, StoreInv, RunInv
<1>1. turn \in Ordinal /\ child[turn] = "new" /\ \A m \in Ordinal : m < turn => Sealed(m)
  BY DEF LandArm, AskedInTurn, Asking, RunTypes
<1>2. PICK k \in 0..LastOrdinal : k = turn - 1
  BY <1>1, OrdinalFacts
<1>3. PICK n \in 0..LastOrdinal : n = turn
  BY <1>1, OrdinalFacts
<1>4. DepthAt(k)
  BY <1>1, <1>2, OrdinalFacts DEF DepthAt, StoreInOrder, Sealed
<1>5. DepthAt(n)'
  BY <1>1, <1>3, <1>4, <1>2, OrdinalFacts DEF DepthAt, LandArm, StoreTypes
<1>6. Depth = k /\ Depth' = n /\ n = k + 1
  <2>1. Depth = k
    BY <1>4, DepthIs
  <2>2. Depth' = n
    BY ONLY <1>5, DepthNext
  <2> QED
    BY <1>1, <1>2, <1>3, <2>1, <2>2, OrdinalFacts
<1>7. Stage = "open"
  <2>1. turn > 1 => Sealed(turn - 1) /\ Carried(turn - 1)
    BY DEF LandArm, AskedInTurn, Asking, Carried
  <2> QED
    BY <1>1, <1>2, <1>6, <2>1, OrdinalFacts DEF Stage
<1>8. Stage' = "uncertain"
  <2>1. child'[n] = "armed" /\ n # 0
    BY <1>1, <1>3, OrdinalFacts DEF LandArm, StoreTypes
  <2> QED
    BY <1>6, <2>1 DEF Stage, Sealed
<1> QED
  BY <1>6, <1>7, <1>8 DEF Chain!Arm

(* record() decides the decision in doubt: its work is not done yet.       *)
LEMMA SealIsDecide ==
  ASSUME GenerationInv, LandSeal
  PROVE  Chain!Decide
<1> USE DEF GenerationInv, StoreInv, RunInv
<1>1. turn \in Ordinal /\ child[turn] = "armed" /\ \A m \in Ordinal : m < turn => Sealed(m)
  BY DEF LandSeal, AskedInTurn, Asking, RunTypes
<1>2. PICK n \in 0..LastOrdinal : n = turn /\ n # 0
  BY <1>1, OrdinalFacts
<1>3. DepthAt(n)
  BY <1>1, <1>2, OrdinalFacts DEF DepthAt, StoreInOrder, Sealed
<1>4. child'[turn] = "sealed" /\ \A m \in Ordinal : m # turn => child'[m] = child[m]
  BY <1>1 DEF LandSeal, StoreTypes
<1>5. DepthAt(n)'
  BY <1>2, <1>3, <1>4 DEF DepthAt
<1>6. Depth = n /\ Depth' = n
  <2>1. Depth = n
    BY <1>3, DepthIs
  <2>2. Depth' = n
    BY ONLY <1>5, DepthNext
  <2> QED
    BY <2>1, <2>2
<1>7. resolved'[turn] = "no"
  BY <1>1 DEF LandSeal, StoreInOrder, StoreTypes, Sealed
<1>8. Stage = "uncertain"
  BY <1>1, <1>2, <1>6 DEF Stage, Sealed
<1>9. Stage' = "decided"
  BY <1>2, <1>4, <1>6, <1>7 DEF Stage, Sealed, Carried
<1> QED
  BY <1>6, <1>8, <1>9 DEF Chain!Decide

(* A tool's outcome carries the decision out when it was the last one      *)
(* missing.                                                                *)
LEMMA ToolIsCarryAtMost ==
  ASSUME GenerationInv, LandTool
  PROVE  Chain!Carry \/ UNCHANGED <<Depth, Stage>>
<1> USE DEF GenerationInv, StoreInv, RunInv
<1>1. /\ turn \in Ordinal /\ child[turn] = "sealed"
      /\ turn < LastOrdinal /\ child[turn + 1] = "new"
  BY DEF LandTool, ServedInTurn, RunTypes
<1>2. PICK n \in 0..LastOrdinal : n = turn /\ n # 0
  BY <1>1, OrdinalFacts
<1>3. DepthAt(n)
  <2> SUFFICES ASSUME NEW m \in Ordinal PROVE child[m] # "new" <=> m <= n
    BY DEF DepthAt
  <2>1. CASE m <= n
    BY <1>1, <1>2, <2>1, OrdinalFacts DEF StoreInOrder, Sealed
  <2>2. CASE m > n
    <3>1. n + 1 \in Ordinal /\ (m = n + 1 \/ n + 1 < m)
      BY <1>1, <1>2, <2>2, OrdinalFacts
    <3> QED
      BY <1>1, <1>2, <2>2, <3>1, OrdinalFacts DEF StoreInOrder, Sealed
  <2> QED
    BY <2>1, <2>2, OrdinalFacts
<1>4. Depth = n
  BY <1>3, DepthIs
<1>5. UNCHANGED Depth
  BY DEF LandTool, Depth
<1>6. Sealed(n) /\ Sealed(n)' /\ (Carried(n) => Carried(n)')
  BY <1>1, <1>2 DEF LandTool, Sealed, Carried, CallsOf
<1> QED
  BY <1>2, <1>4, <1>5, <1>6 DEF Stage, Chain!Carry

(* Resolving it changes nothing for the chain: no tool of it has run.      *)
LEMMA FateIsNothing ==
  ASSUME GenerationInv, LandFate
  PROVE  UNCHANGED <<Depth, Stage>>
<1> USE DEF GenerationInv, StoreInv
<1>1. PICK n \in Ordinal, fate \in {"kept", "dropped"} :
         /\ Sealed(n) /\ (n < LastOrdinal => child[n + 1] = "new")
         /\ resolved[n] = "no" \/ fate = resolved[n]
         /\ resolved' = [resolved EXCEPT ![n] = fate]
         /\ UNCHANGED <<child, decision, effects>>
  BY DEF LandFate
<1>2. CASE fate = resolved[n]
  <2>1. resolved' = resolved
    BY <1>1, <1>2 DEF StoreTypes
  <2> QED
    BY <1>1, <2>1, ChainStays DEF Stays
<1>3. CASE resolved[n] = "no"
  <2>1. PICK k \in 0..LastOrdinal : k = n /\ k # 0
    BY OrdinalFacts
  <2>2. DepthAt(k)
    <3> SUFFICES ASSUME NEW m \in Ordinal PROVE child[m] # "new" <=> m <= k
      BY DEF DepthAt
    <3>1. CASE m <= k
      BY <1>1, <2>1, <3>1, OrdinalFacts DEF StoreInOrder, Sealed
    <3>2. CASE m > k
      <4>1. k + 1 \in Ordinal /\ (m = k + 1 \/ k + 1 < m) /\ k < LastOrdinal
        BY <2>1, <3>2, OrdinalFacts
      <4> QED
        BY <1>1, <2>1, <3>2, <4>1, OrdinalFacts DEF StoreInOrder, Sealed
    <3> QED
      BY <3>1, <3>2, OrdinalFacts
  <2>3. Depth = k /\ Depth' = Depth
    <3>1. Depth = k
      BY <2>2, DepthIs
    <3> QED
      BY <1>1, <3>1 DEF Depth
  <2>4. Sealed(k) /\ Sealed(k)' /\ ~Carried(k)
    BY <1>1, <1>3, <2>1 DEF Sealed, Carried
  <2>5. ~Carried(k)'
    <3> SUFFICES ASSUME Carried(k)' PROVE FALSE
      OBVIOUS
    <3>1. /\ decision[n].calls # <<>> /\ decision[n].calls \in Seq(Call)
          /\ {n} \X CallsOf(n) \subseteq effects
      BY <1>1, <2>1 DEF Carried, CallsOf, StoreTypes, Terminal
    <3>2. 1 \in DOMAIN decision[n].calls /\ decision[n].calls[1] \in Call
      BY <3>1, EmptySeq, LenProperties, ElementOfSeq
    <3>3. <<n, decision[n].calls[1]>> \in effects
      BY <3>1, <3>2 DEF CallsOf
    <3> QED
      BY <1>3, <3>2, <3>3 DEF EffectsInOrder
  <2> QED
    BY <2>1, <2>3, <2>4, <2>5 DEF Stage
<1> QED
  BY <1>1, <1>2, <1>3

(* run_generation implements DecisionChain: decisions are taken one after  *)
(* another, armed before they are asked, and each rests on the work of the *)
(* one before.                                                             *)
THEOREM GenerationRefinesChain == Spec => ChainSpec
<1>1. Init => Chain!Init
  <2> SUFFICES ASSUME Init PROVE Chain!Init
    OBVIOUS
  <2>1. PICK k \in 0..LastOrdinal : k = 0
    BY OrdinalFacts
  <2>2. DepthAt(k)
    BY <2>1, OrdinalFacts DEF Init, DepthAt
  <2>3. Depth = 0
    BY <2>1, <2>2, DepthIs
  <2> QED
    BY <2>3 DEF Chain!Init, Stage
<1>2. GenerationInv /\ [Next]_vars => [Chain!Next]_<<Depth, Stage>>
  <2> SUFFICES ASSUME GenerationInv, [Next]_vars PROVE [Chain!Next]_<<Depth, Stage>>
    OBVIOUS
  <2> QED
    BY StoreMoves, ChainStays, ArmIsArm, SealIsDecide, ToolIsCarryAtMost, FateIsNothing
       DEF Chain!Next
<1> QED
  BY <1>1, <1>2, GenerationInvariant, PTL DEF Spec, ChainSpec, Chain!Spec
=============================================================================
