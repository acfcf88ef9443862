--------------------------- MODULE NativeProperties ---------------------------
(***************************************************************************)
(* The correctness properties of run_native and the fairness its event     *)
(* loop justifies, over the model of NativeSupervisor.                     *)
(***************************************************************************)
EXTENDS NativeSupervisor

(* A task asyncio.wait reported done is still done, and its result not     *)
(* taken, when the loop comes to it, whatever the handlers before it       *)
(* awaited; a batch being steered is not replaced meanwhile; and what is   *)
(* to be recorded last is a terminal.                                      *)
BatchDone ==
    /\ "event" \in batch => event # NoEvent
    /\ "callback" \in batch => step = "done"
    /\ "poll" \in batch => PollDone
    /\ "steer" \in batch => steerTask = "done"
    /\ at \notin {"batch", "port", "fence"} => batch = {}
    /\ at = "prepared" => pending # NoBatch
    /\ at = "record" => result \in {"native", "local"}

(* A call identity is dispatched at most once in an attempt, however often *)
(* the provider repeats it: execute() replays a recorded reply, and the    *)
(* lane starts nothing after a callback that died unrecorded               *)
(* (native.py:288-289, 609-611; adr 0012 "no second dispatch").            *)
DispatchOnce == \A c \in CallId : dispatches[c] <= 1

(* A reply on the wire was recorded before it was sent, and recorded only  *)
(* for an accepted identity (native.py:312-317).                           *)
ReplyFromLedger ==
    /\ wire \subseteq replies
    /\ \A c \in replies : accepted[c] # NoCall

(* Entered effects that have no recorded reply. *)
Unsettled == {c \in CallId : dispatches[c] > 0 /\ c \notin replies}

(* The strengthening both rest on: the only effect without a recorded      *)
(* reply is the active callback's, or the lane is closed for good; a       *)
(* callback about to be dispatched has never been dispatched or replied.   *)
Closed == stop # "none" \/ at \in Over

LaneInvariant ==
    /\ step \in {"owner", "accept", "gate"} => Unsettled = {}
    /\ step \in {"gate", "dispatch", "record", "recheck", "reply"} => accepted[active.id] # NoCall
    /\ step = "gate" => active.id \notin replies
    /\ step \in {"dispatch", "record"} => Unsettled \subseteq {active.id}
    /\ step \in {"recheck", "reply"} => active.id \in replies /\ Unsettled = {}
    /\ step = "done" /\ outcome \in {"ok", "rejected"} => Unsettled = {}
    /\ step = "done" => outcome # "none"
    /\ step = "idle" /\ ~Closed => Unsettled = {}
    /\ cancelReq => Closed

(* Nothing is dispatched once journal.fence has returned: stop() cancels    *)
(* the callback and clears the queue behind its fence (native.py:262-265), *)
(* the except clause leaves for finally, and the lane starts nothing       *)
(* (docs/native-agent-spec.md:397-398, "forbids new dispatch").            *)
DispatchBeforeFence ==
    [][step # "dispatch" /\ step' = "dispatch" => ~fenced]_vars

(* no_progress stops a turn only for two different calls with the same     *)
(* invalid bytes; a repeated delivery of one call is a replay and never a  *)
(* reason (native.py:530-538, docs/native-agent-spec.md:430-432).          *)
NoProgressJustified ==
    stop = "no_progress" =>
        \E c, d \in replies : /\ c # d
                              /\ accepted[c].body = accepted[d].body
                              /\ accepted[c].body \in InvalidBody

(* Where a call identity stands for the host. *)
CallStatus(c) == IF c \in wire THEN "sent"
                 ELSE IF c \in replies THEN "settled"
                 ELSE IF dispatches[c] > 0 THEN "entered"
                 ELSE IF accepted[c] # NoCall THEN "accepted"
                 ELSE "new"

(* The callback lane implements the abstract ledger of the host's promise. *)
Ledger == INSTANCE CallbackLedger WITH
              Calls     <- CallId,
              status    <- [c \in CallId |-> CallStatus(c)],
              authority <- ~revoked

LedgerSpec == Ledger!Spec
-----------------------------------------------------------------------------
(* Every way out of an armed attempt other than a recorded terminal leaves *)
(* the journal fenced (native.py:403-404, 612-624;                         *)
(* docs/native-agent-spec.md:426-429: "fails the turn and fences").        *)
FailureFences ==
    at = "ended" /\ armed /\ result \in {"raised", "not_submitted"} => fenced

(* A local stop terminal is never returned over a native terminal that the *)
(* reader had latched when the stream's loop gave up waiting               *)
(* (native.py:436-441, "Reader-latched native truth wins").                *)
TruthWins ==
    [][result # "local" /\ result' = "local" => latched \notin Native]_vars

(* Before run_native returns a terminal, the journal holds exactly that    *)
(* terminal's evidence, never both a native and a local one.               *)
TruthCommitted ==
    at = "ended" /\ result \in {"native", "local"} =>
        committed \cap {"native", "local"} = {result}
-----------------------------------------------------------------------------
(* Checkpoints only move over inputs that some delivery carries: an input  *)
(* the poll has passed is never forgotten (native.py:582-606).             *)
NoInputSkipped ==
    \A i \in 1..checkpoint : \E d \in SUBSET InputIds : i \in d /\ deliveries[d] # "none"

(* A call is accepted, dispatched and kept with the lineage that had been  *)
(* delivered when it first came off the stream, whatever is recorded while *)
(* it waits in the queue, for an owner check or for its journal; and the   *)
(* native thread has recorded every input of that lineage                  *)
(* (native.py:486-498, 514-520, 291-297).                                  *)
Lineage(callback) == <<callback.ids, callback.cp>>

LineageRecorded ==
    \A c \in CallId : accepted[c] # NoCall =>
        /\ asked[c] = {Lineage(accepted[c])}
        /\ \A i \in accepted[c].ids :
              \E d \in SUBSET InputIds : i \in d /\ deliveries[d] = "recorded"

(* Neither the poll checkpoint nor the delivered checkpoint ever moves     *)
(* back, although a poll may answer for a checkpoint that has been left    *)
(* and batches are merged across polls (native.py:333-340, 519, 606).      *)
CheckpointsAdvance ==
    [][checkpoint' >= checkpoint /\ deliveredCp' >= deliveredCp]_vars
-----------------------------------------------------------------------------
(* Fairness.  The event loop resumes a coroutine whose await is over, so   *)
(* the supervisor's own steps are weakly fair.  An expired grace competes  *)
(* with a stream that may always be about to deliver, but not at every     *)
(* resumption: strong fairness.  A latched terminal is queued in the       *)
(* stream and reached after finitely many events.  A submit() whose        *)
(* outcome is known returns.  Nothing else is assumed: callbacks,          *)
(* dispatch, host polls, steering, the interrupt answer and the provider   *)
(* may all stall for ever.                                                 *)
ControlFairness ==
    /\ WF_vars(Supervisor)
    /\ SF_vars(GraceExpires)
    /\ SF_vars(Runtime /\ EmitTerminal)
    /\ SF_vars(Runtime /\ submit' # submit)

ControlSpec == Spec /\ ControlFairness

(* A turn that is cancelled, or stopped for any other reason, is decided   *)
(* whatever stalls: "a stalled callback or withheld start acknowledgment   *)
(* cannot starve control" (SPEC.md:192-193).                               *)
ControlDecides == (cancelled \/ stop # "none") ~> (result # "none")

(* Once it has decided, run_native returns, or the one thing gather waits  *)
(* for is a cancelled callback that is still settling (native.py:642-647). *)
DecidedReturns ==
    (result # "none") ~> (at = "ended" \/ (at = "gather" /\ step \in Awaiting))

(* The other side moves too: the callback's awaits return, host polls      *)
(* answer, steering is answered and the submission gets an outcome.        *)
ProgressFairness ==
    /\ WF_vars(Callbacks)
    /\ SF_vars(Inputs /\ poll' # poll)
    /\ SF_vars(Inputs /\ steerTask' # steerTask)
    /\ SF_vars(Runtime /\ submission' # submission)

ProgressSpec == ControlSpec /\ ProgressFairness

(* An input the host accepts while the turn runs is steered, or the turn   *)
(* is over: polling goes on through silent reasoning and tool waits        *)
(* (SPEC.md:150, docs/native-agent-spec.md:555).                           *)
InputSteered ==
    \A i \in InputIds : (arrived >= i) ~> (checkpoint >= i \/ result # "none")
-----------------------------------------------------------------------------
(* Claims of the code and its documents that the code does not keep.       *)

(* native.py:580-581 refuses a batch that repeats an admitted input as a   *)
(* host defect, so with a host that answers exactly what came after the    *)
(* checkpoint it is asked about, no batch ready to steer is a repetition.  *)
NeverRepeated ==
    Handled /\ phase = "loop" /\ SteerDue /\ stop = "none" => ~Repeated

(* "a callback that settles after stop records its reply, never sends it"  *)
(* (SPEC.md:191): a callback whose dispatch has returned does not end      *)
(* after a stop without its reply in the journal.                          *)
SettledAfterStopRecorded ==
    [][stop # "none" /\ step = "record" /\ step' = "done" => active.id \in replies']_vars
=============================================================================
