----------------------------- MODULE NativeInputs -----------------------------
(***************************************************************************)
(* The input lane of run_native: the poll task (native.py:253-255), the    *)
(* merge of what it returns (observe_poll, 319-342), the steer task and    *)
(* its delivery record (547-608), and the host and native sides it talks   *)
(* to.  Host inputs are numbered in arrival order; checkpoint n covers     *)
(* inputs 1..n, so a poll through checkpoint c reads the inputs after c.   *)
(* A delivery is identified by its set of input ids, as _delivery_id does  *)
(* (672-675); the empty set is the initial delivery of the request.        *)
(***************************************************************************)
EXTENDS NativeShared, Sequences

CONSTANTS
    NoPoll,     \* no poll task
    NoBatch     \* nothing to steer

VARIABLES
    arrived,      \* host: inputs 1..arrived have been accepted by the host
    poll,         \* the poll task
    pending,      \* pending_input: the batch waiting to be steered
    checkpoint,   \* the checkpoint the next poll reads through
    steering,     \* steering_delivery: the delivery the steer task carries
    steerTask,    \* "none", "flying", "reached" the native thread, or "done"
    disposition,  \* the AgentControlReceipt's disposition
    deliveries,   \* delivery id -> its state; "none" if there is no such id
    deliveryCp,   \* delivery_checkpoints
    delivered,    \* delivered_ids, without the request's own inputs
    deliveredCp,  \* delivered_checkpoint
    echo          \* native side: deliveries its stream has yet to record

inputVars == <<arrived, poll, pending, checkpoint>>
steerVars == <<steering, steerTask, disposition, deliveries, deliveryCp,
               delivered, deliveredCp, echo>>
deliveryVars == <<inputVars, steerVars>>

Batch == [ids : SUBSET InputIds, cp : Checkpoints]
DeliveryState == {"none", "prepared", "sent", "queued", "recorded", "rejected"}
Disposition   == {"none", "accepted", "rejected", "not_sent", "unknown"}
Initial == {}   \* the delivery id of the request's own inputs

PollTask == [st : {"asleep", "called", "done"}, cp : Checkpoints,
             upto : Checkpoints, preempt : BOOLEAN]

ASSUME InputAssumption == NoPoll \notin PollTask /\ NoBatch \notin Batch

Asleep == [st |-> "asleep", cp |-> 0, upto |-> 0, preempt |-> FALSE]

InputTypeOK ==
    /\ arrived \in Checkpoints
    /\ poll \in PollTask \cup {NoPoll}
    /\ pending \in Batch \cup {NoBatch}
    /\ checkpoint \in Checkpoints
    /\ steering \in SUBSET InputIds
    /\ steerTask \in {"none", "flying", "reached", "done"}
    /\ disposition \in Disposition
    /\ deliveries \in [SUBSET InputIds -> DeliveryState]
    /\ deliveryCp \in [SUBSET InputIds -> Checkpoints]
    /\ delivered \in SUBSET InputIds
    /\ deliveredCp \in Checkpoints
    /\ echo \in Seq(SUBSET InputIds)

InputInit ==
    /\ arrived = 0
    /\ poll = NoPoll
    /\ pending = NoBatch
    /\ checkpoint = 0
    /\ steering = Initial
    /\ steerTask = "none"
    /\ disposition = "none"
    /\ deliveries = [d \in SUBSET InputIds |-> IF d = Initial THEN "prepared" ELSE "none"]
    /\ deliveryCp = [d \in SUBSET InputIds |-> 0]
    /\ delivered = {}
    /\ deliveredCp = 0
    /\ echo = <<>>

-----------------------------------------------------------------------------
(* The host. *)

InputArrives ==
    /\ arrived < NumInputs
    /\ arrived' = arrived + 1
    /\ UNCHANGED <<poll, pending, checkpoint, steerVars>>

(* What inputs.poll(request, cp) returns: AppendInputs of everything after *)
(* cp, NoNewInput as the empty batch.                                      *)
After(cp) == [ids |-> (cp + 1)..arrived, cp |-> arrived]

(* The sleep of poll_seconds ends and `checkpoint' is read. *)
PollCalls ==
    /\ poll # NoPoll
    /\ poll.st = "asleep"
    /\ poll' = [poll EXCEPT !.st = "called", !.cp = checkpoint]
    /\ UNCHANGED <<arrived, pending, checkpoint, steerVars>>

PollReturns ==
    /\ poll # NoPoll
    /\ poll.st = "called"
    /\ \E preempt \in BOOLEAN :
          /\ preempt => "preempt" \in Env
          /\ poll' = [poll EXCEPT !.st = "done", !.upto = arrived, !.preempt = preempt]
    /\ UNCHANGED <<arrived, pending, checkpoint, steerVars>>

PollDone == poll # NoPoll /\ poll.st = "done"

(* Mutant: the poll task is not created again. *)
NextPollNever == NoPoll

(* poll_task = asyncio.create_task(poll()) *)
NextPoll == Asleep

(* observe_poll on AppendInputs or NoNewInput, and the next poll task: a   *)
(* second append before the first is steered is merged by input identity   *)
(* and takes the newer checkpoint.                                         *)
ObservePoll ==
    LET ids == (poll.cp + 1)..poll.upto
    IN  /\ pending' = IF poll.preempt \/ ids = {} THEN pending
                      ELSE [ids |-> ids \cup IF pending = NoBatch THEN {} ELSE pending.ids,
                            cp  |-> poll.upto]
        /\ poll' = NextPoll
        /\ UNCHANGED <<arrived, checkpoint, steerVars>>

-----------------------------------------------------------------------------
(* Steering. *)

SteerDue == pending # NoBatch /\ steerTask = "none"

(* "native input append repeated an admitted input" *)
Repeated == pending.ids \cap delivered # {}

(* Mutant: pending_input is taken before the journal is awaited. *)
RecordPreparedTakes ==
    /\ deliveries' = [deliveries EXCEPT ![pending.ids] = "prepared"]
    /\ deliveryCp' = [deliveryCp EXCEPT ![pending.ids] = pending.cp]
    /\ pending' = NoBatch
    /\ UNCHANGED <<arrived, poll, checkpoint, steering, steerTask, disposition, delivered,
                   deliveredCp, echo>>

(* The delivery is recorded as prepared, then the steer task is created    *)
(* and the poll checkpoint moves past the batch.                           *)
RecordPrepared ==
    /\ deliveries' = [deliveries EXCEPT ![pending.ids] = "prepared"]
    /\ deliveryCp' = [deliveryCp EXCEPT ![pending.ids] = pending.cp]
    /\ UNCHANGED <<inputVars, steering, steerTask, disposition, delivered, deliveredCp, echo>>

(* Mutant: the checkpoint is the latest the host has answered with. *)
LaunchCheckpointLatest == IF PollDone THEN poll.upto ELSE pending.cp

LaunchCheckpoint == pending.cp

LaunchSteer ==
    /\ steering' = pending.ids
    /\ steerTask' = "flying"
    /\ disposition' = "none"
    /\ checkpoint' = LaunchCheckpoint
    /\ pending' = NoBatch
    /\ UNCHANGED <<arrived, poll, deliveries, deliveryCp, delivered, deliveredCp, echo>>

(* The native thread takes the message; its user-message item follows in   *)
(* the stream, before or after the RPC answer.                             *)
SteerReaches ==
    /\ steerTask = "flying"
    /\ ~revoked
    /\ steerTask' = "reached"
    /\ echo' = Append(echo, steering)
    /\ UNCHANGED <<inputVars, steering, disposition, deliveries, deliveryCp, delivered, deliveredCp>>

SteerAnswers ==
    /\ \/ steerTask = "reached" /\ disposition' = "accepted"
       \/ steerTask = "flying" /\ disposition' \in {"rejected", "not_sent"}
       \/ /\ "steer_unknown" \in Env
          /\ steerTask \in {"flying", "reached"}
          /\ disposition' = "unknown"
    /\ steerTask' = "done"
    /\ UNCHANGED <<inputVars, steering, deliveries, deliveryCp, delivered, deliveredCp, echo>>

(* Mutant: the disposition is stored as it came. *)
SteerStateRaw == disposition

(* What the receipt says about a delivery the stream has not recorded. *)
SteerState == CASE disposition = "accepted" -> "queued"
                [] disposition \in {"not_sent", "rejected"} -> "rejected"
                [] OTHER -> "sent"

(* Mutant: a rejected delivery is polled for again. *)
CollectSteerRollsBack ==
    /\ deliveries' = [deliveries EXCEPT ![steering] = IF @ = "recorded" THEN @ ELSE SteerState]
    /\ checkpoint' = IF SteerState = "rejected" THEN deliveredCp ELSE checkpoint
    /\ steerTask' = "none"
    /\ steering' = Initial
    /\ disposition' = "none"
    /\ UNCHANGED <<arrived, poll, pending, deliveryCp, delivered, deliveredCp, echo>>

(* The supervisor takes the steer receipt: the delivery's state follows    *)
(* the disposition unless the stream already recorded it.                  *)
CollectSteer ==
    /\ deliveries' = [deliveries EXCEPT ![steering] = IF @ = "recorded" THEN @ ELSE SteerState]
    /\ steerTask' = "none"
    /\ steering' = Initial
    /\ disposition' = "none"
    /\ UNCHANGED <<inputVars, deliveryCp, delivered, deliveredCp, echo>>

Unresolved == disposition = "unknown" /\ deliveries[steering] # "recorded"

(* AgentInputRecorded for delivery d: its inputs join the delivered ids    *)
(* and its checkpoint becomes the delivered checkpoint.                    *)
RecordInput(d) ==
    /\ deliveries' = [deliveries EXCEPT ![d] = "recorded"]
    /\ delivered' = delivered \cup d
    /\ deliveredCp' = deliveryCp[d]
    /\ UNCHANGED <<inputVars, steering, steerTask, disposition, deliveryCp, echo>>

(* The tasks are cancelled when run_native leaves its loop. *)
DropInputTasks ==
    /\ poll' = NoPoll
    /\ steerTask' = "none"
    /\ UNCHANGED <<arrived, pending, checkpoint, steering, disposition, deliveries,
                   deliveryCp, delivered, deliveredCp, echo>>

InputNext == \/ InputArrives \/ PollCalls \/ PollReturns
             \/ SteerReaches \/ SteerAnswers
=============================================================================
