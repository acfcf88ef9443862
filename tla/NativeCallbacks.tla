---------------------------- MODULE NativeCallbacks ----------------------------
(***************************************************************************)
(* The callback lane of run_native: the closure execute() that run_native  *)
(* starts as a task for one queued callback at a time (native.py:272-317,  *)
(* 609-611), the in-memory journal it records into (_TransientJournal,     *)
(* native.py:103-146) and the lane's part of the supervisor's state.       *)
(*                                                                         *)
(* A value of `step' names the await the task is suspended in; an action   *)
(* completes that await and runs the code up to the next one.  A task that *)
(* was cancelled raises at its await, except that a dispatched effect may  *)
(* still settle and return (tests/test_native_transient.py:255-267).       *)
(***************************************************************************)
EXTENDS NativeShared, Sequences

CONSTANTS
    CallId,        \* provider call identities
    Body,          \* a call's name and arguments: what proposal_digest hashes
    InvalidBody,   \* the bodies that fail the declared tool contract
    NoCall         \* no active callback

Callback == [id : CallId, body : Body, ids : SUBSET InputIds, cp : Checkpoints]

ASSUME CallbackAssumption == InvalidBody \subseteq Body /\ NoCall \notin Callback

VARIABLES
    queue,       \* callbacks accepted from the stream, in arrival order
    active,      \* the callback whose task exists
    step,        \* where its task is suspended; "idle" when there is no task
    outcome,     \* how a finished task ended
    cancelReq,   \* task.cancel() was called and has not been delivered
    lastInvalid, \* last_invalid: the last rejected <<body, call id>>, or <<>>
    accepted,    \* journal: the proposal first accepted for a call identity
    replies,     \* journal: identities whose reply is recorded
    order,       \* journal: accepted identities in acceptance order (ordinals)
    dispatches,  \* history: times dispatch was entered, per identity
    wire,        \* history: identities whose reply reached the native thread
    asked        \* history: the lineage an identity first came off the stream with

taskVars    == <<step, outcome, cancelReq>>
journalVars == <<accepted, replies, order>>
traceVars   == <<dispatches, wire, asked>>
laneVars    == <<queue, active, lastInvalid, taskVars, journalVars, traceVars>>

Awaiting == {"owner", "accept", "gate", "dispatch", "record", "recheck", "reply"}
Outcome  == {"none", "ok", "rejected", "cancelled", "failed"}

CallbackTypeOK ==
    /\ queue \in Seq(Callback)
    /\ active \in IF step = "idle" THEN {NoCall} ELSE Callback
    /\ step \in Awaiting \cup {"idle", "done"}
    /\ outcome \in Outcome
    /\ cancelReq \in BOOLEAN
    /\ lastInvalid \in (Body \X CallId) \cup {<<>>}
    /\ accepted \in [CallId -> Callback \cup {NoCall}]
    /\ replies \in SUBSET CallId
    /\ order \in Seq(CallId)
    /\ dispatches \in [CallId -> Nat]
    /\ wire \in SUBSET CallId
    /\ asked \in [CallId -> SUBSET ((SUBSET InputIds) \X Checkpoints)]

CallbackInit ==
    /\ queue = <<>>
    /\ active = NoCall
    /\ step = "idle"
    /\ outcome = "none"
    /\ cancelReq = FALSE
    /\ lastInvalid = <<>>
    /\ accepted = [c \in CallId |-> NoCall]
    /\ replies = {}
    /\ order = <<>>
    /\ dispatches = [c \in CallId |-> 0]
    /\ wire = {}
    /\ asked = [c \in CallId |-> {}]

-----------------------------------------------------------------------------
(* The receipt execute() returns: a NativeRejected result is recognised by *)
(* run_native when the task is done (native.py:530).                       *)
Receipt == IF active.body \in InvalidBody THEN "rejected" ELSE "ok"

Finish(result) ==
    /\ step' = "done"
    /\ outcome' = result

Advance(from, to) ==
    /\ step = from
    /\ ~cancelReq
    /\ step' = to
    /\ UNCHANGED <<outcome, cancelReq>>

LaneFrame == UNCHANGED <<queue, active, lastInvalid>>

(* Mutant: the callback is dispatched without being accepted first. *)
CallbackOwnerOnly ==
    /\ owned
    /\ Advance("owner", "gate")
    /\ LaneFrame /\ UNCHANGED <<journalVars, traceVars>>

(* await owner.require_current before anything is accepted *)
CallbackOwner ==
    /\ owned
    /\ Advance("owner", "accept")
    /\ LaneFrame /\ UNCHANGED <<journalVars, traceVars>>

(* Mutant: a recorded reply is not replayed. *)
AfterAcceptAnew == IF active.body \in InvalidBody THEN "record" ELSE "gate"

(* A recorded reply is replayed, invalid arguments settle undispatched. *)
AfterAccept ==
    IF active.id \in replies THEN "recheck"
    ELSE IF active.body \in InvalidBody THEN "record" ELSE "gate"

(* journal.record_invocation and the comparison with what it returned: the *)
(* first acceptance of an identity is kept.                                *)
CallbackAccept ==
    LET held == IF accepted[active.id] = NoCall THEN active ELSE accepted[active.id]
    IN  /\ step = "accept"
        /\ held.body = active.body
        /\ Advance("accept", AfterAccept)
        /\ accepted' = [accepted EXCEPT ![active.id] = held]
        /\ order' = IF accepted[active.id] = NoCall THEN Append(order, active.id)
                    ELSE order
        /\ LaneFrame /\ UNCHANGED <<replies, traceVars>>

(* A repeated call id with other bytes: "native invocation journal changed *)
(* the accepted proposal".                                                 *)
CallbackChanged ==
    /\ step = "accept"
    /\ ~cancelReq
    /\ accepted[active.id] # NoCall
    /\ accepted[active.id].body # active.body
    /\ Finish("failed")
    /\ LaneFrame /\ UNCHANGED <<cancelReq, journalVars, traceVars>>

(* The second owner check, then dispatch.dispatch is entered. *)
CallbackDispatch ==
    /\ owned
    /\ Advance("gate", "dispatch")
    /\ dispatches' = [dispatches EXCEPT ![active.id] = @ + 1]
    /\ LaneFrame /\ UNCHANGED <<journalVars, wire, asked>>

(* dispatch returns a result, whether or not the task was cancelled: an    *)
(* entered effect may swallow the cancellation and settle.                 *)
CallbackSettle ==
    /\ step = "dispatch"
    /\ step' = "record"
    /\ cancelReq' = FALSE
    /\ LaneFrame /\ UNCHANGED <<outcome, journalVars, traceVars>>

(* journal.record_reply *)
CallbackRecord ==
    /\ Advance("record", "recheck")
    /\ replies' = replies \cup {active.id}
    /\ LaneFrame /\ UNCHANGED <<accepted, order, traceVars>>

(* The owner check after the reply is recorded.  After a stop the receipt  *)
(* is returned unsent; otherwise turn.reply is called.                     *)
CallbackRecheck ==
    /\ step = "recheck"
    /\ ~cancelReq
    /\ owned
    /\ IF stop # "none" THEN Finish(Receipt)
                        ELSE step' = "reply" /\ UNCHANGED outcome
    /\ LaneFrame /\ UNCHANGED <<cancelReq, journalVars, traceVars>>

(* turn.reply completes; the runtime writes nothing on a revoked handle. *)
CallbackReply ==
    /\ step = "reply"
    /\ ~cancelReq
    /\ ~revoked
    /\ wire' = wire \cup {active.id}
    /\ Finish(Receipt)
    /\ LaneFrame /\ UNCHANGED <<cancelReq, journalVars, dispatches, asked>>

(* The cancellation is delivered at the await the task is suspended in. *)
CallbackCancelled ==
    /\ step \in Awaiting
    /\ cancelReq
    /\ cancelReq' = FALSE
    /\ Finish("cancelled")
    /\ LaneFrame /\ UNCHANGED <<journalVars, traceVars>>

(* An awaited port raises: the owner was lost, the handle is revoked, or   *)
(* any host port fails.                                                    *)
CallbackFails ==
    /\ step \in Awaiting
    /\ \/ ~owned /\ step \in {"owner", "gate", "recheck"}
       \/ revoked /\ step = "reply"
       \/ "port_fault" \in Env
    /\ Finish("failed")
    /\ cancelReq' = FALSE
    /\ LaneFrame /\ UNCHANGED <<journalVars, traceVars>>

CallbackNext ==
    \/ CallbackOwner \/ CallbackAccept \/ CallbackChanged \/ CallbackDispatch
    \/ CallbackSettle \/ CallbackRecord \/ CallbackRecheck \/ CallbackReply
    \/ CallbackCancelled \/ CallbackFails
-----------------------------------------------------------------------------
(* What the supervisor does to the lane. *)

(* `if callback_task is None and queue and stop_reason is None' *)
StartCallback ==
    IF step = "idle" /\ queue # <<>> /\ stop = "none"
    THEN /\ active' = Head(queue)
         /\ queue' = Tail(queue)
         /\ step' = "owner"
         /\ outcome' = "none"
         /\ UNCHANGED <<cancelReq, lastInvalid, journalVars, traceVars>>
    ELSE UNCHANGED laneVars

(* callback_task.cancel() on a task that has not finished *)
CancelCallback == cancelReq' = (step \in Awaiting)

(* Mutant: the active callback is left running. *)
StopQueue ==
    /\ queue' = <<>>
    /\ UNCHANGED <<active, lastInvalid, taskVars, journalVars, traceVars>>

(* The queue.clear() and cancel() of stop(), after its fence returned. *)
StopLane ==
    /\ queue' = <<>>
    /\ CancelCallback
    /\ UNCHANGED <<active, lastInvalid, step, outcome, journalVars, traceVars>>

EnqueueCallback(c) ==
    /\ queue' = Append(queue, c)
    /\ UNCHANGED <<active, lastInvalid, taskVars, journalVars, dispatches, wire>>

(* History: what the native thread had seen when it first made a call. *)
Hear(id, lineage) == asked' = [asked EXCEPT ![id] = IF @ = {} THEN {lineage} ELSE @]

ForgetInvalid ==
    /\ lastInvalid' = <<>>
    /\ UNCHANGED <<queue, active, taskVars, journalVars, traceVars>>

(* Mutant: the same call delivered twice counts. *)
NoProgressAnyCall ==
    /\ outcome = "rejected"
    /\ lastInvalid # <<>>
    /\ lastInvalid[1] = active.body

(* Two different calls with the same invalid bytes and nothing between. *)
NoProgress ==
    /\ outcome = "rejected"
    /\ lastInvalid # <<>>
    /\ lastInvalid[1] = active.body
    /\ lastInvalid[2] # active.id

(* Mutant: only the digest is remembered. *)
RejectionDigest == <<active.body>>

(* last_invalid: the digest and the call it came in. *)
Rejection == <<active.body, active.id>>

(* The supervisor takes a finished task's receipt and drops the task. *)
CollectCallback ==
    /\ lastInvalid' = IF outcome = "rejected" THEN Rejection ELSE <<>>
    /\ active' = NoCall
    /\ step' = "idle"
    /\ outcome' = "none"
    /\ UNCHANGED <<queue, cancelReq, journalVars, traceVars>>
=============================================================================
