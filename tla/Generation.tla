------------------------------ MODULE Generation ------------------------------
(***************************************************************************)
(* run_generation (generation.py:189-360): ordered model children over     *)
(* decisions and tool effects that a host keeps durably, with the host     *)
(* stopping, crashing and resuming from a committed continuation.          *)
(*                                                                         *)
(* `at' names the await the coroutine is suspended in; between two awaits  *)
(* nothing else runs, so an action goes from the end of one await to the   *)
(* next.  "stream" is the await of the driver's next frame: the driver's   *)
(* generator runs there, and calls arm() from there.                       *)
(***************************************************************************)
EXTENDS Integers, Sequences, FiniteSets

CONSTANTS
    Call,           \* tool call identities
    MaxTurns,       \* max_turns; 0 stands for None
    LastOrdinal,    \* bound: the child of this ordinal asks for no tools
    MaxProposals,   \* bound: proposals of one child
    Env             \* what may go wrong around the loop

EnvLabels == {"cancel", "crash", "port_fault", "misuse", "mismatch"}

ASSUME GenerationAssumption ==
    /\ MaxTurns \in Nat /\ LastOrdinal \in Nat \ {0} /\ MaxProposals \in Nat
    /\ Env \subseteq EnvLabels

Ordinal == 1..LastOrdinal

VARIABLES
    \* the host's durable store
    child,        \* per ordinal: "new", "armed" or "sealed"
    decision,     \* per ordinal: the terminal that sealed it
    resolved,     \* per ordinal: the host keeps or drops its continuation
    effects,      \* <<ordinal, call>> whose tool has an outcome in the recorder
    seenBy,       \* ordinals whose terminal the observer has acknowledged
    \* the run
    at,           \* where run_generation is suspended; "rest" between runs
    cancelled,    \* CancelSignal.is_set()
    turn,         \* the child at hand, or the one whose continuation is served
    results,      \* calls of that continuation already executed in this run
    armStarted, armed,
    proposals,    \* calls proposed by the stream
    terminal,     \* the terminal frame
    failed,       \* the stream is being closed because of an error
    acked,        \* proposals and terminal the observer has acknowledged
    lastOrdinal,  \* last_ordinal
    reopened,     \* source ordinal this run started from; 0 for a first turn
    result        \* how the last run ended

durable == <<child, decision, resolved, effects, seenBy>>
streamVars == <<armStarted, armed, proposals, terminal, failed, acked>>
run == <<at, cancelled, turn, results, streamVars, lastOrdinal, reopened, result>>
vars == <<durable, run>>

Distinct(s) == \A i, j \in DOMAIN s : s[i] = s[j] => i = j

(* GenerationContinuation requires unique call ids; no calls: no continuation. *)
CallLists == {s \in UNION {[1..k -> Call] : k \in 0..MaxProposals} : Distinct(s)}

NoTerminal == [calls |-> <<>>, source |-> 0, proposed |-> <<>>]

Awaits  == {"execute", "open", "stream", "arming", "observe", "record", "closing",
            "resolve", "acknowledge"}
Stopped == {"cancelled", "turn_limit"}

TypeOK ==
    /\ child \in [Ordinal -> {"new", "armed", "sealed"}]
    /\ decision \in [Ordinal -> [calls : Seq(Call), source : Nat, proposed : Seq(Call)]]
    /\ resolved \in [Ordinal -> {"no", "kept", "dropped"}]
    /\ effects \subseteq Ordinal \X Call
    /\ seenBy \subseteq Ordinal
    /\ at \in Awaits \cup {"rest"}
    /\ cancelled \in BOOLEAN
    /\ turn \in 0..LastOrdinal
    /\ at # "rest" => turn \in Ordinal
    /\ results \in Seq(Call)
    /\ armStarted \in BOOLEAN /\ armed \in BOOLEAN /\ failed \in BOOLEAN
    /\ proposals \in Seq(Call)
    /\ terminal \in [calls : Seq(Call), source : Nat, proposed : Seq(Call)]
    /\ acked \in 0..Len(proposals)
    /\ lastOrdinal \in 0..LastOrdinal
    /\ reopened \in 0..LastOrdinal
    /\ result \in Stopped \cup {"none", "completed", "raised", "crashed"}

Init ==
    /\ child = [n \in Ordinal |-> "new"]
    /\ decision = [n \in Ordinal |-> NoTerminal]
    /\ resolved = [n \in Ordinal |-> "no"]
    /\ effects = {}
    /\ seenBy = {}
    /\ at = "rest"
    /\ cancelled = FALSE
    /\ turn = 0
    /\ results = <<>>
    /\ armStarted = FALSE /\ armed = FALSE /\ failed = FALSE
    /\ proposals = <<>>
    /\ terminal = NoTerminal
    /\ acked = 0
    /\ lastOrdinal = 0
    /\ reopened = 0
    /\ result = "none"

-----------------------------------------------------------------------------
(* Where the code goes next.  These define every variable of `run' but     *)
(* lastOrdinal and reopened.                                               *)

FreshStream ==
    /\ armStarted' = FALSE /\ armed' = FALSE /\ failed' = FALSE
    /\ proposals' = <<>>
    /\ terminal' = NoTerminal
    /\ acked' = 0

(* The coroutine returns or raises. *)
Finish(how) ==
    /\ at' = "rest"
    /\ result' = how
    /\ turn' = 0
    /\ cancelled' = FALSE
    /\ results' = <<>>
    /\ FreshStream

(* A child's stream is entered: driver.stream(turn, ...). *)
Enter(n) ==
    /\ at' = "stream"
    /\ turn' = n
    /\ results' = <<>>
    /\ FreshStream
    /\ UNCHANGED <<cancelled, result>>

(* A continuation's budget counts every child before it, in whichever run. *)
Exhausted(n) == MaxTurns # 0 /\ n >= MaxTurns

(* Mutant: a resumed continuation's tools are taken to have run. *)
ServeExecuted(n) ==
    IF cancelled THEN Finish("cancelled")
    ELSE IF Exhausted(n) THEN Finish("turn_limit")
    ELSE /\ at' = IF at = "rest" THEN "open" ELSE "execute"
         /\ turn' = n
         /\ results' = <<>>
         /\ FreshStream
         /\ UNCHANGED <<cancelled, result>>

(* The head of the loop with the continuation of child n. *)
Serve(n) ==
    IF cancelled THEN Finish("cancelled")
    ELSE IF Exhausted(n) THEN Finish("turn_limit")
    ELSE /\ at' = "execute"
         /\ turn' = n
         /\ results' = <<>>
         /\ FreshStream
         /\ UNCHANGED <<cancelled, result>>

Move(place) == at' = place /\ UNCHANGED <<cancelled, turn, results, result>>

-----------------------------------------------------------------------------
(* The host starts a run: a first turn while nothing was ever armed, or    *)
(* the newest committed continuation, "reopened and validated by the host" *)
(* and not succeeded by a child whose fate is unknown.  A host resolves    *)
(* its committed terminal before it resumes from it.                       *)

Sealed(n) == child[n] = "sealed"

(* The continuation matches the child and its ordered proposals. *)
Sound(t, n) == IF t.calls = <<>> THEN t.proposed = <<>>
               ELSE t.source = n /\ t.calls = t.proposed

(* The signal was set before the run: "a pre-cancelled run does no io". *)
AlreadyCancelled == "cancel" \in Env /\ Finish("cancelled")

StartTurn ==
    /\ at = "rest"
    /\ child[1] = "new"
    /\ lastOrdinal' = 0
    /\ reopened' = 0
    /\ Enter(1) \/ AlreadyCancelled
    /\ UNCHANGED durable

Resumable(n) ==
    /\ Sealed(n)
    /\ decision[n].calls # <<>> /\ Sound(decision[n], n)
    /\ n < LastOrdinal /\ child[n + 1] = "new"
    /\ resolved[n] # "dropped"

Resume(n) ==
    /\ at = "rest"
    /\ Resumable(n)
    /\ resolved' = [resolved EXCEPT ![n] = "kept"]
    /\ lastOrdinal' = n
    /\ reopened' = n
    /\ Serve(n) \/ AlreadyCancelled
    /\ UNCHANGED <<child, decision, effects, seenBy>>

Cancel ==
    /\ "cancel" \in Env
    /\ at # "rest"
    /\ ~cancelled
    /\ cancelled' = TRUE
    /\ UNCHANGED <<durable, at, turn, results, streamVars, lastOrdinal, reopened, result>>

-----------------------------------------------------------------------------
(* Serving a continuation: its tools in order, the reopening, the next     *)
(* child.                                                                  *)

Calls == decision[turn].calls

ThisCall == Calls[Len(results) + 1]

(* Mutant: the result is not compared with the call it answers, and a      *)
(* failed call is passed over.                                             *)
AfterToolSkips ==
    IF cancelled THEN Finish("cancelled")
    ELSE /\ at' = "open" /\ results' = Append(results, ThisCall)
         /\ UNCHANGED <<cancelled, turn, streamVars, result>>

(* Mutant: cancellation is not looked at between two tools. *)
AfterToolHeedless ==
    /\ results' = Append(results, ThisCall)
    /\ at' = IF Len(results') < Len(Calls) THEN "execute" ELSE "open"
    /\ UNCHANGED <<cancelled, turn, streamVars, result>>

AfterTool ==
    IF cancelled THEN Finish("cancelled")
    ELSE /\ results' = Append(results, ThisCall)
         /\ at' = IF Len(results') < Len(Calls) THEN "execute" ELSE "open"
         /\ UNCHANGED <<cancelled, turn, streamVars, result>>

(* tools.execute answers; an answer for another call is a defect. *)
ExecuteReturns ==
    /\ at = "execute"
    /\ effects' = effects \cup {<<turn, ThisCall>>}
    /\ \/ AfterTool
       \/ "misuse" \in Env /\ Finish("raised")
    /\ UNCHANGED <<child, decision, resolved, seenBy, lastOrdinal, reopened>>

(* Mutant: a driver that skips an ordinal is believed. *)
SuccessorSkips == turn + 2

(* driver.successor, checked to be the next ordered turn *)
Successor == turn + 1

(* lifecycle.open answers; a successor out of order is a defect. *)
OpenReturns ==
    /\ at = "open"
    /\ IF cancelled THEN Finish("cancelled")
       ELSE \/ Enter(Successor)
            \/ "misuse" \in Env /\ Finish("raised")
    /\ UNCHANGED <<durable, lastOrdinal, reopened>>

-----------------------------------------------------------------------------
(* The driver's stream. *)

(* An exception inside the driver's call of arm(): it ends the stream with *)
(* it, or a careless driver carries on.                                    *)
Refused(how) ==
    \/ Finish(how)
    \/ /\ "misuse" \in Env
       /\ armStarted' = TRUE
       /\ Move("stream")
       /\ UNCHANGED <<armed, proposals, terminal, failed, acked>>

(* Mutant: the signal is not looked at before arming. *)
MayArmHeedless == TRUE

MayArm == ~cancelled

(* arm(): refused the second time, and when cancellation came during the   *)
(* native admission.                                                       *)
DriverArms ==
    /\ at = "stream"
    /\ armStarted => "misuse" \in Env
    /\ IF armStarted THEN Refused("raised")
       ELSE IF ~MayArm THEN Refused("cancelled")
       ELSE /\ armStarted' = TRUE
            /\ Move("arming")
            /\ UNCHANGED <<armed, proposals, terminal, failed, acked>>
    /\ UNCHANGED <<durable, lastOrdinal, reopened>>

(* Mutant: the signal is looked at once more after arming, as if the child *)
(* could still be withdrawn.                                               *)
ArmReturnsHeeding ==
    /\ at = "arming"
    /\ child' = [child EXCEPT ![turn] = "armed"]
    /\ IF cancelled THEN Finish("cancelled")
       ELSE armed' = TRUE /\ Move("stream")
            /\ UNCHANGED <<armStarted, proposals, terminal, failed, acked>>
    /\ UNCHANGED <<decision, resolved, effects, seenBy, lastOrdinal, reopened>>

ArmReturns ==
    /\ at = "arming"
    /\ child' = [child EXCEPT ![turn] = "armed"]
    /\ armed' = TRUE
    /\ Move("stream")
    /\ UNCHANGED <<decision, resolved, effects, seenBy, lastOrdinal, reopened, armStarted,
                   proposals, terminal, failed, acked>>

(* A frame before arming, of an unknown type, or out of sequence. *)
BadFrame ==
    /\ at = "stream"
    /\ "misuse" \in Env
    /\ failed' = TRUE
    /\ Move("closing")
    /\ UNCHANGED <<durable, armStarted, armed, proposals, terminal, acked, lastOrdinal, reopened>>

Observation ==
    /\ at = "stream" /\ armed
    /\ Move("observe")
    /\ UNCHANGED <<durable, streamVars, lastOrdinal, reopened>>

ObserveReturns ==
    /\ at = "observe"
    /\ Move("stream")
    /\ UNCHANGED <<durable, streamVars, lastOrdinal, reopened>>

(* A proposal is kept until the terminal is durable; nothing is awaited. *)
Proposal ==
    /\ at = "stream" /\ armed
    /\ turn < LastOrdinal
    /\ Len(proposals) < MaxProposals
    /\ \E c \in Call : proposals' = Append(proposals, c)
    /\ UNCHANGED <<durable, armStarted, armed, terminal, failed, acked, at, cancelled, turn,
                   results, result, lastOrdinal, reopened>>

(* The terminal, whose continuation is the proposals unless the driver     *)
(* errs.                                                                   *)
TerminalFrame ==
    /\ at = "stream" /\ armed
    /\ \E calls \in CallLists, source \in Ordinal :
          /\ \/ calls = proposals /\ source = turn
             \/ "mismatch" \in Env /\ turn < LastOrdinal
          /\ terminal' = [calls |-> calls, source |-> source, proposed |-> proposals]
    /\ Move("record")
    /\ UNCHANGED <<durable, armStarted, armed, proposals, failed, acked, lastOrdinal, reopened>>

RecordReturns ==
    /\ at = "record"
    /\ child' = [child EXCEPT ![turn] = "sealed"]
    /\ decision' = [decision EXCEPT ![turn] = terminal]
    /\ Move("closing")
    /\ UNCHANGED <<resolved, effects, seenBy, streamVars, lastOrdinal, reopened>>

(* The stream ends without a terminal, or raises. *)
StreamEnds ==
    /\ at = "stream"
    /\ "misuse" \in Env
    /\ Finish("raised")
    /\ UNCHANGED <<durable, lastOrdinal, reopened>>

(* Mutant: the continuation is not compared with the proposals. *)
AcceptedUnchecked(t, n) == TRUE

(* The continuation check that follows the closed stream. *)
Accepted(t, n) == Sound(t, n)

(* stream.aclose() returns, or raises: after recorded truth its failure is *)
(* a diagnostic only.                                                      *)
ClosingReturns ==
    /\ at = "closing"
    /\ IF failed \/ ~Accepted(terminal, turn) THEN Finish("raised")
       ELSE Move("resolve") /\ UNCHANGED streamVars
    /\ UNCHANGED <<durable, lastOrdinal, reopened>>

Fates(t) == IF t.calls = <<>> THEN {"dropped"} ELSE {"kept", "dropped"}

(* The host keeps or drops the continuation; a terminal it substitutes is  *)
(* a defect.                                                               *)
ResolveReturns ==
    /\ at = "resolve"
    /\ \E fate \in Fates(terminal) : resolved' = [resolved EXCEPT ![turn] = fate]
    /\ \/ Move("acknowledge") /\ lastOrdinal' = turn /\ UNCHANGED streamVars
       \/ "misuse" \in Env /\ Finish("raised") /\ UNCHANGED lastOrdinal
    /\ UNCHANGED <<child, decision, effects, seenBy, reopened>>

(* Mutant: the tools start when the terminal is published, not when it is  *)
(* acknowledged.                                                           *)
AcknowledgedEarly == acked + 1 >= Len(proposals)

(* The observer has acknowledged every proposal and the terminal. *)
Acknowledged == acked = Len(proposals)

(* observer.observe answers for a proposal, then for the terminal; then    *)
(* the run completes or serves the continuation.                           *)
AcknowledgeReturns ==
    /\ at = "acknowledge"
    /\ seenBy' = IF acked = Len(proposals) THEN seenBy \cup {turn} ELSE seenBy
    /\ IF ~Acknowledged
       THEN /\ acked' = acked + 1
            /\ Move("acknowledge")
            /\ UNCHANGED <<armStarted, armed, proposals, terminal, failed>>
       ELSE IF resolved[turn] = "dropped" THEN Finish("completed") ELSE Serve(turn)
    /\ UNCHANGED <<child, decision, resolved, effects, lastOrdinal, reopened>>

-----------------------------------------------------------------------------
(* What an interrupted port call leaves behind: it took effect or not. *)
Landed ==
    \/ UNCHANGED durable
    \/ /\ at = "arming"
       /\ child' = [child EXCEPT ![turn] = "armed"]
       /\ UNCHANGED <<decision, resolved, effects, seenBy>>
    \/ /\ at = "record"
       /\ child' = [child EXCEPT ![turn] = "sealed"]
       /\ decision' = [decision EXCEPT ![turn] = terminal]
       /\ UNCHANGED <<resolved, effects, seenBy>>
    \/ /\ at = "execute"
       /\ effects' = effects \cup {<<turn, ThisCall>>}
       /\ UNCHANGED <<child, decision, resolved, seenBy>>
    \/ /\ at = "resolve"
       /\ \E fate \in Fates(terminal) : resolved' = [resolved EXCEPT ![turn] = fate]
       /\ UNCHANGED <<child, decision, effects, seenBy>>
    \/ /\ at = "acknowledge" /\ acked = Len(proposals)
       /\ seenBy' = seenBy \cup {turn}
       /\ UNCHANGED <<child, decision, resolved, effects>>

(* A host port raises, or the task is cancelled at one of its awaits.      *)
(* Inside the stream's loop the stream is closed first.                    *)
PortFails ==
    /\ "port_fault" \in Env
    /\ at \in Awaits \ {"stream"}
    /\ Landed
    /\ CASE at = "arming" -> Refused("raised")
         [] at \in {"observe", "record"} ->
               /\ failed' = TRUE
               /\ Move("closing")
               /\ UNCHANGED <<armStarted, armed, proposals, terminal, acked>>
         [] OTHER -> Finish("raised")
    /\ UNCHANGED <<lastOrdinal, reopened>>

Crash ==
    /\ "crash" \in Env
    /\ at # "rest"
    /\ Landed
    /\ Finish("crashed")
    /\ UNCHANGED <<lastOrdinal, reopened>>

Driver == DriverArms \/ BadFrame \/ Observation \/ Proposal \/ TerminalFrame \/ StreamEnds

Loop == \/ ExecuteReturns \/ OpenReturns \/ ArmReturns \/ ObserveReturns \/ RecordReturns
        \/ ClosingReturns \/ ResolveReturns \/ AcknowledgeReturns

Host == StartTurn \/ Cancel \/ \E n \in Ordinal : Resume(n)

(* Nobody asks for a run, or there is nothing left to run. *)
Idle == at = "rest" /\ UNCHANGED vars

Next == Host \/ Driver \/ Loop \/ PortFails \/ Crash \/ Idle

Spec == Init /\ [][Next]_vars
=============================================================================
