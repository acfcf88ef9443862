-------------------------- MODULE NativeInputProofs --------------------------
(***************************************************************************)
(* The input lane for any number of host inputs, and what the callback     *)
(* lane remembers of them: no input is passed over, neither checkpoint     *)
(* moves back, a callback is attributed only to inputs the native thread   *)
(* has recorded, and a turn is stopped for lack of progress only on two    *)
(* recorded refusals.                                                      *)
(***************************************************************************)
EXTENDS NativeProofs

Stored(i) == \E d \in SUBSET InputIds : i \in d /\ deliveries[d] # "none"

(* The batch waiting to be steered always begins where the poll checkpoint *)
(* stands, whatever poll it was merged from: a poll reads through a        *)
(* checkpoint that is at most the present one, and up to everything that   *)
(* the batch already covers.                                               *)
PollInv ==
    /\ checkpoint <= arrived
    /\ pending # NoBatch => /\ checkpoint <= pending.cp /\ pending.cp <= arrived
                            /\ \A i \in InputIds : checkpoint < i /\ i <= pending.cp
                                                   => i \in pending.ids
    /\ poll # NoPoll /\ poll.st # "asleep" => poll.cp <= checkpoint
    /\ PollDone => /\ checkpoint <= poll.upto /\ poll.upto <= arrived
                   /\ pending # NoBatch => pending.cp <= poll.upto
    /\ at = "prepared" => deliveries[pending.ids] # "none"
    /\ \A i \in InputIds : i <= checkpoint => Stored(i)

(* A delivery is recorded only with its inputs joining the delivered ones, *)
(* and every delivered input is in a recorded delivery.                    *)
DeliveredInv ==
    /\ \A i \in delivered : \E d \in SUBSET InputIds : i \in d /\ deliveries[d] = "recorded"
    /\ \A d \in SUBSET InputIds : deliveries[d] = "recorded" => d \subseteq delivered

(* Every callback the lane holds is attributed to delivered inputs.        *)
LaneLineage ==
    /\ \A n \in 1..Len(queue) : queue[n].ids \subseteq delivered
    /\ step # "idle" => active.ids \subseteq delivered
    /\ \A c \in CallId : accepted[c] # NoCall => accepted[c].ids \subseteq delivered

(* Call c waits in the queue.                                              *)
Waiting(c) == \E n \in 1..Len(queue) : queue[n].id = c

(* Where a call first stands in the lane: there, unless it was accepted,   *)
(* it has the lineage it was heard with, and once heard it has not got     *)
(* lost while the lane is open.  Its repetitions may have a later lineage. *)
Attributed ==
    /\ \A c \in CallId : accepted[c] # NoCall => asked[c] = {Lineage(accepted[c])}
    /\ step # "idle" /\ accepted[active.id] = NoCall => asked[active.id] = {Lineage(active)}
    /\ step = "done" /\ outcome \in {"ok", "rejected"} => accepted[active.id] # NoCall
    /\ ~Closed =>
          /\ \A n \in 1..Len(queue) :
                /\ accepted[queue[n].id] = NoCall
                /\ step # "idle" => active.id # queue[n].id
                /\ \A m \in 1..(n - 1) : queue[m].id # queue[n].id
                => asked[queue[n].id] = {Lineage(queue[n])}
          /\ \A c \in CallId :
                asked[c] # {} => accepted[c] # NoCall \/ (step # "idle" /\ active.id = c) \/ Waiting(c)

(* c was refused: its reply is recorded, for the invalid bytes b.          *)
Refused(c, b) == c \in replies /\ accepted[c].body = b /\ b \in InvalidBody

(* Both refusals a stop for lack of progress compares are in the journal.  *)
Refusals ==
    /\ step \in {"gate", "dispatch", "record", "recheck", "reply"}
          => accepted[active.id].body = active.body
    /\ step = "done" /\ outcome = "rejected" => Refused(active.id, active.body)
    /\ lastInvalid # <<>> => Refused(lastInvalid[2], lastInvalid[1])
    /\ NoProgressJustified

-----------------------------------------------------------------------------
(* What the supervisor does to the input lane, and where it is suspended.  *)
InputStep ==
    \/ UNCHANGED deliveryVars /\ at' # "prepared"
    \/ Admit
    \/ pending # NoBatch /\ ~Repeated /\ RecordPrepared
    \/ at = "prepared" /\ LaunchSteer /\ at' # "prepared"
    \/ CollectSteer /\ at' # "prepared"
    \/ (\E d \in SUBSET InputIds : RecordInput(d)) /\ at' # "prepared"
    \/ PollDone /\ ObservePoll /\ at' # "prepared"
    \/ DropInputTasks /\ at' # "prepared"

LEMMA SupervisorSteps ==
    ASSUME TypeInv, Supervisor \/ SupervisorRaises \/ RetentionFails
    PROVE  InputStep
<1>. USE DEF InputStep, Go, Raise, Then, Stop, Decide
<1>1. CASE Arm
    BY <1>1 DEF Arm
<1>2. CASE Admit
    BY <1>2
<1>3. CASE Wake
    BY <1>3 DEF Wake
<1>4. CASE GraceExpires
    BY <1>4 DEF GraceExpires, GraceTerminal
<1>5. CASE Acknowledge
    BY <1>5 DEF Acknowledge
<1>6. CASE FenceReturns
    BY <1>6 DEF FenceReturns
<1>7. CASE PortReturns
    BY <1>7 DEF PortReturns
<1>8. CASE HandleInterrupt
    BY <1>8 DEF HandleInterrupt
<1>9. CASE HandleCancel
    BY <1>9 DEF HandleCancel
<1>10. CASE HandlePoll
    BY <1>10 DEF HandlePoll, Handling, TypeInv, BatchDone
<1>11. CASE HandleCall
    BY <1>11 DEF HandleCall
<1>12. CASE HandleRecorded
    BY <1>12 DEF HandleRecorded, Handling, Events, TypeInv, TypeOK, SupervisorTypeOK, BatchDone
<1>13. CASE HandleTerminal
    BY <1>13 DEF HandleTerminal
<1>14. CASE HandleOther
    BY <1>14 DEF HandleOther
<1>15. CASE HandleCallback
    BY <1>15 DEF HandleCallback
<1>16. CASE HandleSteer
    BY <1>16 DEF HandleSteer
<1>17. CASE SubmitAgain
    BY <1>17 DEF SubmitAgain
<1>18. CASE PrepareSteer
    BY <1>18 DEF PrepareSteer, SteerDue
<1>19. CASE Steer
    BY <1>19 DEF Steer
<1>20. CASE Turnover
    BY <1>20 DEF Turnover
<1>21. CASE Record
    BY <1>21 DEF Record
<1>22. CASE Evidence
    BY <1>22 DEF Evidence, AfterEvidence
<1>23. CASE LastFence
    BY <1>23 DEF LastFence
<1>24. CASE Drain
    BY <1>24 DEF Drain
<1>25. CASE Close
    BY <1>25 DEF Close
<1>26. CASE SupervisorRaises
    BY <1>26 DEF SupervisorRaises
<1>27. CASE RetentionFails
    BY <1>27 DEF RetentionFails
<1>. QED
    BY <1>1, <1>2, <1>3, <1>4, <1>5, <1>6, <1>7, <1>8, <1>9, <1>10, <1>11, <1>12, <1>13, <1>14,
       <1>15, <1>16, <1>17, <1>18, <1>19, <1>20, <1>21, <1>22, <1>23, <1>24, <1>25, <1>26, <1>27
       DEF Supervisor

(* The native thread's echo is the only thing of the input lane that the   *)
(* runtime touches, and it records nothing itself.                         *)
LEMMA RuntimeLeavesInputs ==
    ASSUME Runtime
    PROVE  UNCHANGED <<inputVars, deliveries, delivered, deliveredCp, laneVars, at, stop>>
<1>. USE DEF Surroundings, deliveryVars, steerVars, inputVars, sharedVars, flowVars
<1>1. CASE OwnerLost \/ Cancel \/ SubmitSends \/ SubmitReturns \/ TurnEnds \/ InterruptReturns
    BY <1>1 DEF OwnerLost, Cancel, SubmitSends, SubmitReturns, TurnEnds, InterruptReturns
<1>2. CASE SubmitAnswered
    BY <1>2 DEF SubmitAnswered
<1>3. CASE EmitCall
    BY <1>3 DEF EmitCall, Emit
<1>4. CASE EmitRecorded
    BY <1>4 DEF EmitRecorded, Emit
<1>5. CASE EmitTerminal \/ EmitOther
    BY <1>5 DEF EmitTerminal, EmitOther, Emit
<1>. QED
    BY <1>1, <1>2, <1>3, <1>4, <1>5 DEF Runtime

-----------------------------------------------------------------------------
(* No input is skipped. *)

LEMMA InputsPoll ==
    ASSUME TypeInv, PollInv, Inputs
    PROVE  PollInv'
<1>1. InputTypeOK /\ NumInputs \in Nat /\ UNCHANGED <<at, deliveries>>
    BY SharedAssumption
       DEF TypeInv, TypeOK, Inputs, Flow, flowVars, InputNext, InputArrives, PollCalls, PollReturns,
           SteerReaches, SteerAnswers, steerVars
<1>. USE <1>1 DEF PollInv, PollDone, Stored, InputTypeOK, Checkpoints, inputVars
<1>2. CASE InputArrives
    BY <1>2 DEF InputArrives, Batch, PollTask, Checkpoints
<1>3. CASE PollCalls
    BY <1>3 DEF PollCalls, PollTask
<1>4. CASE PollReturns
    BY <1>4 DEF PollReturns, PollTask
<1>5. CASE SteerReaches
    BY <1>5 DEF SteerReaches
<1>6. CASE SteerAnswers
    BY <1>6 DEF SteerAnswers
<1>. QED
    BY <1>2, <1>3, <1>4, <1>5, <1>6 DEF Inputs, InputNext

(* What is stored stays stored. *)
LEMMA StoredForGood ==
    ASSUME TypeInv, InputStep
    PROVE  \A d \in SUBSET InputIds : deliveries[d] # "none" => deliveries'[d] # "none"
<1>1. deliveries \in [SUBSET InputIds -> DeliveryState]
    BY DEF TypeInv, TypeOK, InputTypeOK
<1>2. CASE RecordPrepared
    BY <1>1, <1>2 DEF RecordPrepared
<1>3. CASE CollectSteer
    BY <1>1, <1>3 DEF CollectSteer, SteerState
<1>4. CASE \E d \in SUBSET InputIds : RecordInput(d)
    BY <1>1, <1>4 DEF RecordInput
<1>5. CASE UNCHANGED deliveries
    BY <1>5
<1>. QED
    BY <1>2, <1>3, <1>4, <1>5
       DEF InputStep, deliveryVars, steerVars, Admit, LaunchSteer, ObservePoll, DropInputTasks

LEMMA StepPoll ==
    ASSUME TypeInv, PollInv, InputStep
    PROVE  PollInv'
<1>1. InputTypeOK /\ NumInputs \in Nat /\ BatchDone
    BY SharedAssumption DEF TypeInv, TypeOK
<1>2. \A i \in InputIds : Stored(i) => Stored(i)'
    BY StoredForGood DEF Stored
<1>. USE <1>1, <1>2 DEF PollInv, PollDone, InputTypeOK, Checkpoints, inputVars, steerVars
<1>3. CASE UNCHANGED deliveryVars /\ at' # "prepared"
    BY <1>3 DEF deliveryVars, Stored
<1>4. CASE Admit
    <2>1. /\ poll' = Asleep /\ at' # "prepared"
          /\ UNCHANGED <<arrived, checkpoint, deliveries>>
        BY <1>4 DEF Admit
    <2>2. pending' = NoBatch \/ pending' = [ids |-> (checkpoint + 1)..arrived, cp |-> arrived]
        BY <1>4 DEF Admit, After
    <2>3. \A i \in InputIds : Stored(i)' = Stored(i)
        BY <2>1 DEF Stored
    <2>4. CASE pending' = NoBatch
        BY <2>1, <2>3, <2>4 DEF Asleep
    <2>5. CASE pending' = [ids |-> (checkpoint + 1)..arrived, cp |-> arrived]
        <3>1. pending'.cp = arrived /\ pending'.ids = (checkpoint + 1)..arrived
            BY <2>5
        <3>2. \A i \in InputIds : checkpoint < i /\ i <= arrived => i \in pending'.ids
            BY <3>1 DEF InputIds
        <3>. QED
            BY <2>1, <2>3, <3>1, <3>2 DEF Asleep
    <2>. QED
        BY <2>2, <2>4, <2>5
<1>5. CASE pending # NoBatch /\ RecordPrepared
    BY <1>5 DEF RecordPrepared, Batch
<1>6. CASE at = "prepared" /\ LaunchSteer /\ at' # "prepared"
    <2>1. pending # NoBatch /\ pending \in Batch
        BY <1>6 DEF BatchDone
    <2>2. /\ checkpoint' = pending.cp /\ pending' = NoBatch
          /\ UNCHANGED <<arrived, poll, deliveries>>
        BY <1>6 DEF LaunchSteer, LaunchCheckpoint
    <2>3. ASSUME NEW i \in InputIds, i <= checkpoint'
          PROVE  Stored(i)'
        <3>1. CASE i <= checkpoint
            BY <3>1
        <3>2. CASE checkpoint < i
            BY <2>1, <2>2, <2>3, <3>2, <1>6 DEF Stored, Batch
        <3>. QED
            BY <3>1, <3>2 DEF InputIds
    <2>4. poll # NoPoll /\ poll.st # "asleep" => poll.cp <= checkpoint'
        BY <2>1, <2>2 DEF PollTask, Batch, Checkpoints
    <2>. QED
        BY <1>6, <2>1, <2>2, <2>3, <2>4 DEF Batch
<1>7. CASE CollectSteer /\ at' # "prepared"
    BY <1>7 DEF CollectSteer
<1>8. CASE (\E d \in SUBSET InputIds : RecordInput(d)) /\ at' # "prepared"
    BY <1>8 DEF RecordInput
<1>9. CASE PollDone /\ ObservePoll /\ at' # "prepared"
    <2>1. poll \in PollTask /\ poll.cp <= checkpoint /\ checkpoint <= poll.upto
        BY <1>9
    <2>2. poll' = Asleep /\ UNCHANGED <<arrived, checkpoint, deliveries>>
        BY <1>9 DEF ObservePoll, NextPoll
    <2>3. CASE pending' = pending
        BY <1>9, <2>2, <2>3 DEF Asleep, Stored
    <2>4. CASE pending' = [ids |-> ((poll.cp + 1)..poll.upto)
                                    \cup (IF pending = NoBatch THEN {} ELSE pending.ids),
                           cp  |-> poll.upto]
        <3>1. pending'.cp = poll.upto /\ (poll.cp + 1)..poll.upto \subseteq pending'.ids
            BY <2>4
        <3>2. \A i \in InputIds : checkpoint < i /\ i <= pending'.cp => i \in pending'.ids
            BY <2>1, <3>1 DEF PollTask, InputIds, Checkpoints
        <3>. QED
            BY <1>9, <2>1, <2>2, <3>1, <3>2 DEF Asleep, Stored
    <2>. QED
        BY <1>9, <2>3, <2>4 DEF ObservePoll
<1>10. CASE DropInputTasks /\ at' # "prepared"
    BY <1>10 DEF DropInputTasks, Stored
<1>. QED
    BY <1>3, <1>4, <1>5, <1>6, <1>7, <1>8, <1>9, <1>10 DEF InputStep

LEMMA PollInvInductive == Spec => []PollInv
<1>1. Init => PollInv
    BY SharedAssumption DEF Init, InputInit, PollInv, PollDone, InputIds, Stored
<1>2. TypeInv /\ PollInv /\ [Next]_vars => PollInv'
    <2>. SUFFICES ASSUME TypeInv, PollInv, [Next]_vars
                  PROVE  PollInv'
        OBVIOUS
    <2>. USE DEF PollInv, PollDone, Stored
    <2>1. CASE Supervisor \/ SupervisorRaises \/ RetentionFails
        BY <2>1, SupervisorSteps, StepPoll
    <2>2. CASE Callbacks
        BY <2>2 DEF Callbacks, Flow, flowVars, deliveryVars, inputVars, steerVars
    <2>3. CASE Inputs
        BY <2>3, InputsPoll
    <2>4. CASE Runtime
        BY <2>4, RuntimeLeavesInputs DEF inputVars
    <2>5. CASE UNCHANGED vars
        BY <2>5 DEF vars, flowVars, deliveryVars, inputVars, steerVars
    <2>. QED
        BY <2>1, <2>2, <2>3, <2>4, <2>5 DEF Next, Ended
<1>. QED
    BY <1>1, <1>2, TypeInvInductive, PTL DEF Spec

(* The poll checkpoint never passes an input that no stored delivery       *)
(* carries, for any number of inputs and any order of polls and steers.    *)
THEOREM InputsAreCarried == Spec => []NoInputSkipped
<1>1. TypeInv /\ PollInv => NoInputSkipped
    BY SharedAssumption
       DEF TypeInv, TypeOK, InputTypeOK, Checkpoints, InputIds, PollInv, Stored, NoInputSkipped
<1>. QED
    BY <1>1, PollInvInductive, TypeInvInductive, PTL

-----------------------------------------------------------------------------
(* Lineage. *)

(* What is delivered stays delivered.                                      *)
LEMMA StepDelivers ==
    ASSUME TypeInv, DeliveredInv, InputStep
    PROVE  DeliveredInv' /\ delivered \subseteq delivered'
<1>. USE DEF DeliveredInv, inputVars, steerVars
<1>1. /\ deliveries \in [SUBSET InputIds -> DeliveryState] /\ delivered \in SUBSET InputIds
      /\ steering \in SUBSET InputIds
    BY DEF TypeInv, TypeOK, InputTypeOK
<1>2. CASE UNCHANGED <<deliveries, delivered>>
    BY <1>2
<1>3. CASE pending # NoBatch /\ ~Repeated /\ RecordPrepared
    <2>1. pending.ids \in SUBSET InputIds /\ pending.ids \cap delivered = {}
        BY <1>3 DEF Repeated, TypeInv, TypeOK, InputTypeOK, Batch
    <2>2. deliveries' = [deliveries EXCEPT ![pending.ids] = "prepared"] /\ delivered' = delivered
        BY <1>3 DEF RecordPrepared
    <2>3. ASSUME NEW i \in delivered
          PROVE  \E d \in SUBSET InputIds : i \in d /\ deliveries'[d] = "recorded"
        <3>1. PICK d \in SUBSET InputIds : i \in d /\ deliveries[d] = "recorded"
            OBVIOUS
        <3>2. d # pending.ids
            BY <2>1, <3>1
        <3>. QED
            BY <1>1, <2>2, <3>1, <3>2
    <2>4. \A d \in SUBSET InputIds : deliveries'[d] = "recorded" => deliveries[d] = "recorded"
        BY <1>1, <2>1, <2>2
    <2>. QED
        BY <2>2, <2>3, <2>4
<1>4. CASE CollectSteer
    <2>1. /\ delivered' = delivered
          /\ \A d \in SUBSET InputIds : deliveries'[d] = "recorded" <=> deliveries[d] = "recorded"
        BY <1>1, <1>4 DEF CollectSteer, SteerState
    <2>. QED
        BY <2>1
<1>5. ASSUME NEW d \in SUBSET InputIds, RecordInput(d)
      PROVE  DeliveredInv' /\ delivered \subseteq delivered'
    <2>1. /\ delivered' = delivered \cup d /\ deliveries'[d] = "recorded"
          /\ \A e \in SUBSET InputIds : e # d => deliveries'[e] = deliveries[e]
        BY <1>1, <1>5 DEF RecordInput
    <2>. QED
        BY <1>1, <2>1
<1>. QED
    BY <1>2, <1>3, <1>4, <1>5
       DEF InputStep, deliveryVars, Admit, LaunchSteer, ObservePoll, DropInputTasks

LEMMA StepLineage ==
    ASSUME TypeInv, DeliveredInv, LaneLineage, InputStep, LaneFootprint
    PROVE  LaneLineage'
<1>1. delivered \subseteq delivered' /\ CallbackTypeOK
    BY StepDelivers DEF TypeInv, TypeOK
<1>. USE <1>1 DEF LaneLineage, CallbackTypeOK, laneVars, taskVars, journalVars, traceVars
<1>2. CASE UNCHANGED <<queue, active, step, accepted>>
    BY <1>2
<1>3. CASE StartCallback
    <2>1. CASE UNCHANGED laneVars
        BY <2>1
    <2>2. CASE queue # <<>> /\ active' = Head(queue) /\ queue' = Tail(queue) /\ accepted' = accepted
        <3>1. /\ Len(queue) \in Nat \ {0} /\ Head(queue) = queue[1]
              /\ Len(queue') = Len(queue) - 1
              /\ \A n \in 1..Len(queue') : queue'[n] = queue[n + 1]
            BY <2>2, HeadTailProperties, LenProperties, EmptySeq
        <3>. QED
            BY <2>2, <3>1
    <2>. QED
        BY <1>3, <2>1, <2>2 DEF StartCallback
<1>4. CASE StopLane
    BY <1>4 DEF StopLane
<1>5. ASSUME NEW c \in Callback, c.ids = delivered, EnqueueCallback(c)
      PROVE  LaneLineage'
    <2>1. /\ Len(queue) \in Nat /\ Len(queue') = Len(queue) + 1
          /\ \A n \in 1..Len(queue) : queue'[n] = queue[n]
          /\ queue'[Len(queue) + 1] = c
        <3>1. queue \in Seq(Callback) /\ queue' = Append(queue, c)
            BY <1>5 DEF EnqueueCallback
        <3>. QED
            BY <1>5, <3>1, AppendFacts
    <2>2. ASSUME NEW n \in 1..Len(queue')
          PROVE  queue'[n].ids \subseteq delivered'
        <3>1. CASE n \in 1..Len(queue)
            BY <2>1, <3>1
        <3>2. CASE n = Len(queue) + 1
            BY <1>5, <2>1, <3>2
        <3>. QED
            BY <2>1, <3>1, <3>2
    <2>. QED
        BY <1>5, <2>2 DEF EnqueueCallback
<1>6. CASE CollectCallback
    BY <1>6 DEF CollectCallback
<1>. QED
    BY <1>2, <1>3, <1>4, <1>5, <1>6 DEF LaneFootprint, ForgetInvalid

LEMMA CallbackLineage ==
    ASSUME TypeInv, LaneLineage, Callbacks
    PROVE  LaneLineage' /\ UNCHANGED <<deliveries, delivered>>
<1>1. CallbackTypeOK /\ UNCHANGED <<deliveries, delivered, queue, active>>
    BY DEF TypeInv, TypeOK, Callbacks, deliveryVars, steerVars, CallbackNext, CallbackOwner,
           CallbackAccept, CallbackChanged, CallbackDispatch, CallbackSettle, CallbackRecord,
           CallbackRecheck, CallbackReply, CallbackCancelled, CallbackFails, LaneFrame
<1>. USE <1>1 DEF LaneLineage, CallbackTypeOK, LaneFrame, journalVars
<1>2. step # "idle"
    BY DEF Callbacks, CallbackNext, CallbackOwner, CallbackAccept, CallbackChanged,
           CallbackDispatch, CallbackSettle, CallbackRecord, CallbackRecheck, CallbackReply,
           CallbackCancelled, CallbackFails, Advance, Awaiting
<1>3. CASE CallbackAccept
    <2>1. accepted' \in {accepted, [accepted EXCEPT ![active.id] = active]}
        BY <1>3 DEF CallbackAccept
    <2>2. active.ids \subseteq delivered
        BY <1>2
    <2>. QED
        BY <2>1, <2>2
<1>4. CASE accepted' = accepted
    BY <1>2, <1>4
<1>. QED
    BY <1>3, <1>4 DEF Callbacks, CallbackNext, CallbackOwner, CallbackChanged, CallbackDispatch,
                      CallbackSettle, CallbackRecord, CallbackRecheck, CallbackReply,
                      CallbackCancelled, CallbackFails

LEMMA LineageInductive == Spec => [](DeliveredInv /\ LaneLineage)
<1>1. Init => DeliveredInv /\ LaneLineage
    BY DEF Init, InputInit, CallbackInit, DeliveredInv, LaneLineage, Initial
<1>2. TypeInv /\ DeliveredInv /\ LaneLineage /\ [Next]_vars => (DeliveredInv /\ LaneLineage)'
    <2>. SUFFICES ASSUME TypeInv, DeliveredInv, LaneLineage, [Next]_vars
                  PROVE  DeliveredInv' /\ LaneLineage'
        OBVIOUS
    <2>1. CASE Supervisor \/ SupervisorRaises \/ RetentionFails
        BY <2>1, SupervisorSteps, SupervisorLane, StepDelivers, StepLineage
    <2>2. CASE Callbacks
        BY <2>2, CallbackLineage DEF DeliveredInv
    <2>3. CASE Inputs \/ Runtime \/ UNCHANGED vars
        <3>1. UNCHANGED <<deliveries, delivered, laneVars>>
            BY <2>3, RuntimeLeavesInputs
               DEF Inputs, InputNext, InputArrives, PollCalls, PollReturns, SteerReaches,
                   SteerAnswers, steerVars, vars, deliveryVars
        <3>. QED
            BY <3>1 DEF DeliveredInv, LaneLineage, laneVars, taskVars, journalVars
    <2>. QED
        BY <2>1, <2>2, <2>3 DEF Next, Ended
<1>. QED
    BY <1>1, <1>2, TypeInvInductive, PTL DEF Spec

LEMMA CallbackAttributed ==
    ASSUME LaneInv, Attributed, Callbacks
    PROVE  Attributed'
<1>1. /\ CallbackTypeOK /\ LaneInvariant /\ UNCHANGED <<queue, active, asked>>
      /\ Closed' = Closed
    BY DEF LaneInv, TypeInv, TypeOK, Closed, Callbacks, Flow, sharedVars, flowVars, CallbackNext,
           CallbackOwner, CallbackAccept, CallbackChanged, CallbackDispatch, CallbackSettle,
           CallbackRecord, CallbackRecheck, CallbackReply, CallbackCancelled, CallbackFails,
           LaneFrame, traceVars
<1>2. step # "idle" /\ step' # "idle"
    BY DEF Callbacks, CallbackNext, CallbackOwner, CallbackAccept, AfterAccept, CallbackChanged,
           CallbackDispatch, CallbackSettle, CallbackRecord, CallbackRecheck, CallbackReply,
           CallbackCancelled, CallbackFails, Advance, Finish, Awaiting
<1>3. active \in Callback /\ active.id \in CallId /\ active # NoCall
    BY <1>1, <1>2, CallbackAssumption DEF CallbackTypeOK, Callback
<1>4. \A n \in 1..Len(queue) : queue[n].id \in CallId
    <2>1. queue \in Seq(Callback)
        BY <1>1 DEF CallbackTypeOK
    <2>2. \A n \in 1..Len(queue) : queue[n] \in Callback
        BY <2>1, ElementOfSeq
    <2>. QED
        BY <2>2 DEF Callback
<1>. USE DEF Attributed, Waiting
<1>5. CASE CallbackAccept /\ accepted[active.id] = NoCall
    <2>1. /\ accepted' = [accepted EXCEPT ![active.id] = active]
          /\ step' # "done"
        BY <1>5 DEF CallbackAccept, Advance, AfterAccept
    <2>2. accepted'[active.id] = active /\ \A c \in CallId \ {active.id} : accepted'[c] = accepted[c]
        BY <1>1, <1>3, <2>1 DEF CallbackTypeOK
    <2>. QED
        BY <1>1, <1>2, <1>3, <1>4, <1>5, <2>1, <2>2
<1>6. CASE ~(CallbackAccept /\ accepted[active.id] = NoCall)
    <2>1. accepted' = accepted
        BY <1>1, <1>3, <1>6
           DEF CallbackTypeOK, Callbacks, CallbackNext, CallbackOwner, CallbackAccept,
               CallbackChanged, CallbackDispatch, CallbackSettle, CallbackRecord, CallbackRecheck,
               CallbackReply, CallbackCancelled, CallbackFails, journalVars
    <2>2. step' = "done" /\ outcome' \in {"ok", "rejected"} => accepted[active.id] # NoCall
        BY <1>1 DEF LaneInvariant, Callbacks, CallbackNext, CallbackOwner, CallbackAccept,
               AfterAccept, CallbackChanged, CallbackDispatch, CallbackSettle, CallbackRecord,
               CallbackRecheck, CallbackReply, CallbackCancelled, CallbackFails, Advance, Finish
    <2>. QED
        BY <1>1, <1>2, <2>1, <2>2
<1>. QED
    BY <1>5, <1>6

(* A call that joins the queue. *)
LEMMA HearingAttributes ==
    ASSUME LaneInv, Attributed, ~Closed, NEW c \in Callback, EnqueueCallback(c),
           Hear(c.id, Lineage(c))
    PROVE  Attributed'
<1>1. /\ CallbackTypeOK /\ c.id \in CallId
      /\ UNCHANGED <<active, step, outcome, accepted>>
    BY DEF LaneInv, TypeInv, TypeOK, Callback, EnqueueCallback, taskVars, journalVars
<1>2. /\ Len(queue) \in Nat /\ Len(queue') = Len(queue) + 1
      /\ \A n \in 1..Len(queue) : queue'[n] = queue[n] /\ queue[n].id \in CallId
      /\ queue'[Len(queue) + 1] = c
    <2>1. queue \in Seq(Callback) /\ queue' = Append(queue, c)
        BY <1>1 DEF CallbackTypeOK, EnqueueCallback
    <2>2. /\ Len(queue) \in Nat /\ Len(queue') = Len(queue) + 1
          /\ \A n \in 1..Len(queue) : queue'[n] = queue[n] /\ queue[n] \in Callback
          /\ queue'[Len(queue) + 1] = c
        BY <2>1, AppendFacts
    <2>. QED
        BY <2>2 DEF Callback
<1>3. /\ asked[c.id] = {} => asked'[c.id] = {Lineage(c)}
      /\ asked[c.id] # {} => asked'[c.id] = asked[c.id]
      /\ \A d \in CallId \ {c.id} : asked'[d] = asked[d]
    BY <1>1 DEF Hear, CallbackTypeOK
<1>4. \A d \in CallId : asked[d] # {} => asked'[d] = asked[d]
    BY <1>3
<1>5. \A d \in CallId : accepted[d] # NoCall => asked'[d] = {Lineage(accepted[d])}
    BY <1>4 DEF Attributed
<1>6. step # "idle" => active.id \in CallId
    BY <1>1 DEF CallbackTypeOK, Callback
<1>7. step # "idle" /\ accepted[active.id] = NoCall => asked'[active.id] = {Lineage(active)}
    BY <1>4, <1>6 DEF Attributed
<1>8. ASSUME NEW n \in 1..Len(queue'),
             accepted[queue'[n].id] = NoCall,
             step # "idle" => active.id # queue'[n].id,
             \A m \in 1..(n - 1) : queue'[m].id # queue'[n].id
      PROVE  asked'[queue'[n].id] = {Lineage(queue'[n])}
    <2>1. CASE n \in 1..Len(queue)
        <3>1. \A m \in 1..(n - 1) : queue[m].id # queue[n].id
            BY <1>2, <1>8, <2>1
        <3>2. asked[queue[n].id] = {Lineage(queue[n])}
            BY <1>2, <1>8, <2>1, <3>1 DEF Attributed
        <3>. QED
            BY <1>2, <1>4, <2>1, <3>2
    <2>2. CASE n = Len(queue) + 1
        <3>1. ~Waiting(c.id)
            BY <1>2, <1>8, <2>2 DEF Waiting
        <3>2. asked[c.id] = {}
            BY <1>1, <1>2, <1>8, <2>2, <3>1 DEF Attributed
        <3>. QED
            BY <1>2, <1>3, <2>2, <3>2
    <2>. QED
        BY <1>2, <2>1, <2>2
<1>9. ASSUME NEW d \in CallId, asked'[d] # {}
      PROVE  accepted[d] # NoCall \/ (step # "idle" /\ active.id = d) \/ Waiting(d)'
    <2>1. CASE d = c.id
        BY <1>2, <2>1 DEF Waiting
    <2>2. CASE d # c.id
        <3>1. asked[d] # {}
            BY <1>3, <1>9, <2>2
        <3>2. Waiting(d) => Waiting(d)'
            BY <1>2 DEF Waiting
        <3>. QED
            BY <3>1, <3>2 DEF Attributed
    <2>. QED
        BY <2>1, <2>2
<1>. QED
    BY <1>1, <1>5, <1>7, <1>8, <1>9 DEF Attributed

LEMMA StepAttributed ==
    ASSUME LaneInv, Attributed, Supervisor \/ SupervisorRaises \/ RetentionFails
    PROVE  Attributed'
<1>1. /\ CallbackTypeOK /\ LaneFootprint /\ LaneInvariant
      /\ Closed => Closed'
    BY SupervisorLane, ClosedForGood DEF LaneInv, TypeInv, TypeOK, Next
<1>. USE DEF laneVars, taskVars, journalVars, traceVars
<1>2. CASE UNCHANGED <<queue, active, step, outcome, accepted, asked>>
    BY <1>1, <1>2 DEF Attributed, Waiting
<1>3. CASE at \notin Over /\ StartCallback /\ ~UNCHANGED laneVars
    <2>1. /\ step = "idle" /\ queue # <<>> /\ step' = "owner" /\ ~Closed
          /\ active' = Head(queue) /\ queue' = Tail(queue) /\ UNCHANGED <<accepted, asked>>
        BY <1>3 DEF StartCallback, Closed
    <2>2. /\ Len(queue) \in Nat \ {0} /\ Head(queue) = queue[1]
          /\ Len(queue') = Len(queue) - 1
          /\ \A n \in 1..Len(queue') : queue'[n] = queue[n + 1]
        <3>1. queue \in Seq(Callback)
            BY <1>1 DEF CallbackTypeOK
        <3>. QED
            BY <2>1, <3>1, TailFacts
    <2>3. accepted[active'.id] = NoCall => asked[active'.id] = {Lineage(active')}
        <3>1. 1 \in 1..Len(queue) /\ 1..(1 - 1) = {} /\ active' = queue[1]
            BY <2>1, <2>2
        <3>. QED
            BY <2>1, <3>1 DEF Attributed
    <2>4. ASSUME NEW n \in 1..Len(queue'),
                 accepted[queue'[n].id] = NoCall,
                 active'.id # queue'[n].id,
                 \A m \in 1..(n - 1) : queue'[m].id # queue'[n].id
          PROVE  asked[queue'[n].id] = {Lineage(queue'[n])}
        <3>1. n + 1 \in 1..Len(queue) /\ queue'[n] = queue[n + 1]
            BY <2>2
        <3>2. \A m \in 1..n : queue[m].id # queue[n + 1].id
            <4>1. \A m \in 1..n : m = 1 \/ (m - 1 \in 1..(n - 1) /\ m - 1 \in 1..Len(queue'))
                BY <2>2
            <4>2. \A m \in 1..n : m # 1 => queue'[m - 1] = queue[m]
                BY <2>2
            <4>. QED
                BY <2>1, <2>2, <2>4, <3>1, <4>1, <4>2
        <3>. QED
            BY <2>1, <2>4, <3>1, <3>2 DEF Attributed
    <2>5. \A c \in CallId : Waiting(c) => active'.id = c \/ Waiting(c)'
        <3>1. SUFFICES ASSUME NEW n \in 1..Len(queue), n # 1
                       PROVE  n - 1 \in 1..Len(queue') /\ queue'[n - 1] = queue[n]
            BY <2>1, <2>2 DEF Waiting
        <3>2. n - 1 \in 1..Len(queue') /\ (n - 1) + 1 = n
            BY <2>2, <3>1
        <3>. QED
            BY <2>2, <3>2
    <2>. QED
        BY <2>1, <2>3, <2>4, <2>5 DEF Attributed
<1>4. CASE at = "fence" /\ StopLane
    <2>1. Closed'
        BY <1>1, <1>4 DEF LaneInv, FenceInvariant, Closed
    <2>. QED
        BY <1>4, <2>1 DEF StopLane, Attributed
<1>5. CASE \E c \in Callback : ~Closed /\ EnqueueCallback(c) /\ Hear(c.id, Lineage(c))
    BY <1>5, HearingAttributes
<1>6. CASE /\ step = "done" /\ outcome # "failed" /\ (outcome = "cancelled" => stop # "none")
           /\ CollectCallback
    <2>1. step' = "idle" /\ UNCHANGED <<queue, accepted, asked>>
        BY <1>6 DEF CollectCallback
    <2>2. accepted[active.id] # NoCall \/ Closed'
        BY <1>1, <1>6 DEF LaneInvariant, CallbackTypeOK, Outcome, Attributed, Closed
    <2>. QED
        BY <1>1, <1>6, <2>1, <2>2 DEF Attributed, Waiting
<1>. QED
    BY <1>1, <1>2, <1>3, <1>4, <1>5, <1>6
       DEF LaneFootprint, ForgetInvalid, CancelCallback

LEMMA AttributedInductive == Spec => []Attributed
<1>1. Init => Attributed
    BY EmptySeq DEF Init, CallbackInit, Attributed
<1>2. LaneInv /\ Attributed /\ [Next]_vars => Attributed'
    <2>. SUFFICES ASSUME LaneInv, Attributed, [Next]_vars
                  PROVE  Attributed'
        OBVIOUS
    <2>1. CASE Supervisor \/ SupervisorRaises \/ RetentionFails
        BY <2>1, StepAttributed
    <2>2. CASE Callbacks
        BY <2>2, CallbackAttributed
    <2>3. CASE Inputs \/ Runtime
        <3>1. UNCHANGED laneVars /\ (Closed => Closed')
            BY <2>3, RuntimeLeavesInputs, ClosedForGood DEF Inputs, LaneInv, Next
        <3>. QED
            BY <3>1 DEF Attributed, Waiting, laneVars, taskVars, journalVars, traceVars
    <2>4. CASE UNCHANGED vars
        BY <2>4 DEF Attributed, Waiting, Closed, vars, sharedVars, flowVars, laneVars, taskVars,
                    journalVars, traceVars
    <2>. QED
        BY <2>1, <2>2, <2>3, <2>4 DEF Next, Ended
<1>. QED
    BY <1>1, <1>2, LaneInvInductive, PTL DEF Spec

(* A call is accepted with what had been delivered when it was first made, *)
(* whatever is recorded while it waits, and the native thread has recorded *)
(* all of that.                                                            *)
THEOREM LineageIsRecorded == Spec => []LineageRecorded
<1>1. DeliveredInv /\ LaneLineage /\ Attributed => LineageRecorded
    BY DEF DeliveredInv, LaneLineage, Attributed, LineageRecorded
<1>. QED
    BY <1>1, LineageInductive, AttributedInductive, PTL

-----------------------------------------------------------------------------
(* Lack of progress. *)

LEMMA CallbackRefusals ==
    ASSUME LaneInv, Refusals, Callbacks
    PROVE  Refusals'
<1>1. /\ CallbackTypeOK /\ UNCHANGED <<stop, lastInvalid, active>>
      /\ ReplyFromLedger /\ LaneInvariant
    BY DEF LaneInv, TypeInv, TypeOK, Callbacks, Flow, sharedVars, CallbackNext, CallbackOwner,
           CallbackAccept, CallbackChanged, CallbackDispatch, CallbackSettle, CallbackRecord,
           CallbackRecheck, CallbackReply, CallbackCancelled, CallbackFails, LaneFrame
<1>2. step # "idle" => active \in Callback /\ active.id \in CallId /\ active # NoCall
    BY <1>1, CallbackAssumption DEF CallbackTypeOK, Callback
<1>3. \A c \in CallId : accepted[c] # NoCall => accepted'[c] = accepted[c]
    BY <1>1, <1>2
       DEF CallbackTypeOK, Callbacks, CallbackNext, CallbackOwner, CallbackAccept, CallbackChanged,
           CallbackDispatch, CallbackSettle, CallbackRecord, CallbackRecheck, CallbackReply,
           CallbackCancelled, CallbackFails, journalVars
<1>4. replies \subseteq CallId /\ replies \subseteq replies'
    BY <1>1 DEF CallbackTypeOK, Callbacks, CallbackNext, CallbackOwner, CallbackAccept,
           CallbackChanged, CallbackDispatch, CallbackSettle, CallbackRecord, CallbackRecheck,
           CallbackReply, CallbackCancelled, CallbackFails, journalVars
<1>5. \A c, b : Refused(c, b) => Refused(c, b)'
    BY <1>1, <1>3, <1>4 DEF Refused, ReplyFromLedger
<1>6. NoProgressJustified'
    BY <1>1, <1>3, <1>4 DEF Refusals, NoProgressJustified, ReplyFromLedger
<1>7. lastInvalid' # <<>> => Refused(lastInvalid[2], lastInvalid[1])'
    BY <1>1, <1>5 DEF Refusals
<1>8. CASE CallbackAccept
    <2>1. accepted'[active.id].body = active.body
        BY <1>1, <1>2, <1>8 DEF CallbackAccept, CallbackTypeOK
    <2>2. step' # "done"
        BY <1>8 DEF CallbackAccept, Advance, AfterAccept
    <2>. QED
        BY <1>1, <1>6, <1>7, <2>1, <2>2 DEF Refusals
<1>9. CASE CallbackRecheck \/ CallbackReply
    <2>1. /\ active.id \in replies /\ accepted[active.id].body = active.body
          /\ UNCHANGED <<accepted, replies>>
        BY <1>1, <1>9 DEF Refusals, LaneInvariant, CallbackRecheck, CallbackReply, journalVars
    <2>2. outcome' = "rejected" /\ step' = "done" => active.body \in InvalidBody
        BY <1>9 DEF CallbackRecheck, CallbackReply, Finish, Receipt
    <2>. QED
        BY <1>1, <1>6, <1>7, <2>1, <2>2 DEF Refusals, Refused
<1>10. CASE ~CallbackAccept /\ ~CallbackRecheck /\ ~CallbackReply
    <2>1. /\ accepted' = accepted
          /\ step' \in {"gate", "dispatch", "record", "recheck", "reply"}
             => step \in {"gate", "dispatch", "record", "recheck", "reply"}
          /\ step' = "done" => outcome' # "rejected"
        BY <1>10 DEF Callbacks, CallbackNext, CallbackOwner, CallbackChanged, CallbackDispatch,
           CallbackSettle, CallbackRecord, CallbackCancelled, CallbackFails, journalVars, Advance,
           Finish
    <2>. QED
        BY <1>1, <1>6, <1>7, <2>1 DEF Refusals
<1>. QED
    BY <1>8, <1>9, <1>10

(* The only step that stops a turn for lack of progress.                   *)
LEMMA NoProgressStops ==
    ASSUME TypeInv, Supervisor \/ SupervisorRaises \/ RetentionFails
    PROVE  stop' = "no_progress" => stop = "no_progress" \/ (step = "done" /\ NoProgress)
<1>. USE DEF Go, Raise, Then, Stop, Decide, sharedVars
<1>1. CASE Arm \/ Admit \/ Wake \/ Acknowledge \/ FenceReturns \/ PortReturns
    BY <1>1 DEF Arm, Admit, Wake, Acknowledge, FenceReturns, PortReturns
<1>2. CASE GraceExpires
    BY <1>2 DEF GraceExpires, GraceTerminal
<1>3. CASE HandleInterrupt \/ HandleCancel
    BY <1>3 DEF HandleInterrupt, HandleCancel
<1>4. CASE HandlePoll
    BY <1>4 DEF HandlePoll
<1>5. CASE HandleCall \/ HandleRecorded
    BY <1>5 DEF HandleCall, HandleRecorded
<1>6. CASE HandleTerminal \/ HandleOther
    BY <1>6 DEF HandleTerminal, HandleOther
<1>7. CASE HandleCallback
    BY <1>7 DEF HandleCallback, Handling, TypeInv, BatchDone
<1>8. CASE HandleSteer \/ SubmitAgain \/ PrepareSteer
    BY <1>8 DEF HandleSteer, SubmitAgain, PrepareSteer
<1>9. CASE Steer \/ Turnover \/ Record \/ Evidence \/ LastFence \/ Drain \/ Close
    BY <1>9 DEF Steer, Turnover, Record, Evidence, LastFence, Drain, Close
<1>10. CASE SupervisorRaises \/ RetentionFails
    BY <1>10 DEF SupervisorRaises, RetentionFails
<1>. QED
    BY <1>1, <1>2, <1>3, <1>4, <1>5, <1>6, <1>7, <1>8, <1>9, <1>10 DEF Supervisor

LEMMA SupervisorRefusals ==
    ASSUME LaneInv, Refusals, Supervisor \/ SupervisorRaises \/ RetentionFails
    PROVE  Refusals'
<1>1. TypeInv /\ CallbackTypeOK /\ LaneFootprint
    BY SupervisorLane DEF LaneInv, TypeInv, TypeOK
<1>. USE DEF laneVars, taskVars, journalVars, traceVars
<1>2. UNCHANGED <<accepted, replies>>
    BY <1>1 DEF LaneFootprint, StartCallback, StopLane, EnqueueCallback, ForgetInvalid,
                CollectCallback
<1>3. NoProgressJustified'
    <2>1. CASE stop = "no_progress"
        BY <1>2, <2>1 DEF Refusals, NoProgressJustified
    <2>2. CASE step = "done" /\ NoProgress
        <3>1. /\ Refused(active.id, active.body) /\ Refused(lastInvalid[2], active.body)
              /\ lastInvalid[2] # active.id
            BY <2>2 DEF Refusals, NoProgress
        <3>. QED
            BY <1>2, <3>1 DEF Refused, NoProgressJustified
    <2>3. CASE stop' # "no_progress"
        BY <2>3 DEF NoProgressJustified
    <2>. QED
        BY <1>1, <2>1, <2>2, <2>3, NoProgressStops
<1>4. lastInvalid' # <<>> => Refused(lastInvalid[2], lastInvalid[1])'
    <2>1. CASE lastInvalid' = lastInvalid
        BY <1>2, <2>1 DEF Refusals, Refused
    <2>2. CASE lastInvalid' = <<>>
        BY <2>2
    <2>3. CASE step = "done" /\ outcome = "rejected" /\ lastInvalid' = Rejection
        <3>1. lastInvalid'[1] = active.body /\ lastInvalid'[2] = active.id
            BY <2>3 DEF Rejection
        <3>. QED
            BY <1>2, <2>3, <3>1 DEF Refusals, Refused
    <2>. QED
        BY <1>1, <2>1, <2>2, <2>3
           DEF LaneFootprint, StartCallback, StopLane, EnqueueCallback, ForgetInvalid,
               CollectCallback
<1>5. step' \in {"gate", "dispatch", "record", "recheck", "reply", "done"}
         => step' = step /\ UNCHANGED <<active, outcome>>
    BY <1>1 DEF LaneFootprint, StartCallback, StopLane, EnqueueCallback, ForgetInvalid,
                CollectCallback
<1>. QED
    BY <1>2, <1>3, <1>4, <1>5 DEF Refusals, Refused

(* A turn stopped for lack of progress has two different refused calls     *)
(* with the same invalid bytes in its journal.                             *)
THEOREM StopsForLackOfProgress == Spec => []NoProgressJustified
<1>1. Init => Refusals
    BY DEF Init, SharedInit, CallbackInit, Refusals, NoProgressJustified
<1>2. LaneInv /\ Refusals /\ [Next]_vars => Refusals'
    <2>. SUFFICES ASSUME LaneInv, Refusals, [Next]_vars
                  PROVE  Refusals'
        OBVIOUS
    <2>1. CASE Supervisor \/ SupervisorRaises \/ RetentionFails
        BY <2>1, SupervisorRefusals
    <2>2. CASE Callbacks
        BY <2>2, CallbackRefusals
    <2>3. CASE Inputs \/ Runtime \/ UNCHANGED vars
        <3>1. UNCHANGED <<laneVars, stop>>
            BY <2>3, RuntimeLeavesInputs DEF Inputs, Flow, vars, sharedVars
        <3>. QED
            BY <3>1 DEF Refusals, Refused, NoProgressJustified, laneVars, taskVars, journalVars
    <2>. QED
        BY <2>1, <2>2, <2>3 DEF Next, Ended
<1>3. Refusals => NoProgressJustified
    BY DEF Refusals
<1>. QED
    BY <1>1, <1>2, <1>3, LaneInvInductive, PTL DEF Spec

-----------------------------------------------------------------------------
(* Checkpoints. *)

Held(d) == deliveries[d] # "none"

(* c is the last input of d.                                               *)
LastOf(d, c) == c \in d /\ \A i \in d : i <= c

(* A delivery's checkpoint is its last input, so that a delivery prepared  *)
(* again, from a poll that answered for a checkpoint already left, is      *)
(* prepared with the checkpoint it has.                                    *)
CpInv ==
    /\ at \in {"arm", "admit"} => checkpoint = 0
    /\ Held(Initial) /\ deliveryCp[Initial] = 0
    /\ Held(steering)
    /\ pending # NoBatch => LastOf(pending.ids, pending.cp)
    /\ \A d \in SUBSET InputIds : d # Initial /\ Held(d) => LastOf(d, deliveryCp[d])

(* The native thread has yet to record d, or the supervisor has yet to     *)
(* take note that it has.                                                  *)
Awaited(d) ==
    Held(d) /\ deliveredCp <= deliveryCp[d] /\ deliveryCp[d] <= checkpoint

(* The deliveries on their way back from the native thread are in          *)
(* checkpoint order: the one the supervisor is told of next, those of the  *)
(* stream, and the one a steer task still carries, which no other follows. *)
(* The request's own delivery comes before any steer can be launched.      *)
OrderInv ==
    /\ submission # "accepted" => checkpoint = 0
    /\ phase = "loop" => submission = "accepted"
    /\ at = "prepared" => phase = "loop"
    /\ deliveredCp <= checkpoint
    /\ steerTask = "flying" => deliveryCp[steering] = checkpoint
    /\ \A n \in 1..Len(echo) : Awaited(echo[n])
    /\ \A m, n \in 1..Len(echo) : m <= n => deliveryCp[echo[m]] <= deliveryCp[echo[n]]
    /\ event # NoEvent /\ event[1] = "recorded"
          => /\ Awaited(event[2])
             /\ \A n \in 1..Len(echo) : deliveryCp[event[2]] <= deliveryCp[echo[n]]

(* What the supervisor does to the flow that the order depends on.         *)
FlowStep ==
    /\ submission' = submission
    /\ at' # "arm" /\ (at' = "admit" => at = "arm")
    /\ at' = "prepared" => phase' = "loop"
    /\ phase' = "loop" => phase = "loop" \/ submission = "accepted"
    /\ \/ /\ deliveredCp' = deliveredCp /\ event' \in {event, NoEvent}
          /\ \/ deliveries' = deliveries
             \/ pending # NoBatch /\ RecordPrepared
             \/ CollectSteer
       \/ /\ event # NoEvent /\ event[1] = "recorded" /\ event' = NoEvent
          /\ RecordInput(event[2])

LEMMA SupervisorOrder ==
    ASSUME TypeInv, Supervisor \/ SupervisorRaises \/ RetentionFails
    PROVE  FlowStep
<1>. USE DEF FlowStep, Go, Raise, Then, Stop, Decide, turnVars, deliveryVars, steerVars
<1>1. CASE Arm
    BY <1>1 DEF Arm
<1>2. CASE Admit
    BY <1>2 DEF Admit
<1>3. CASE Wake \/ SubmitAgain
    BY <1>3 DEF Wake, SubmitAgain
<1>4. CASE GraceExpires
    BY <1>4 DEF GraceExpires, GraceTerminal
<1>5. CASE Acknowledge
    BY <1>5 DEF Acknowledge
<1>6. CASE FenceReturns \/ PortReturns
    BY <1>6 DEF FenceReturns, PortReturns
<1>7. CASE HandleInterrupt \/ HandleCancel
    BY <1>7 DEF HandleInterrupt, HandleCancel
<1>8. CASE HandlePoll
    BY <1>8 DEF HandlePoll, ObservePoll
<1>9. CASE HandleCall
    BY <1>9 DEF HandleCall
<1>10. CASE HandleRecorded
    BY <1>10 DEF HandleRecorded, RecordInput, Handling, TypeInv, BatchDone
<1>11. CASE HandleTerminal
    BY <1>11 DEF HandleTerminal
<1>12. CASE HandleOther
    BY <1>12 DEF HandleOther
<1>13. CASE HandleCallback
    BY <1>13 DEF HandleCallback
<1>14. CASE HandleSteer
    BY <1>14 DEF HandleSteer, CollectSteer
<1>15. CASE PrepareSteer
    BY <1>15 DEF PrepareSteer, SteerDue, RecordPrepared
<1>16. CASE Steer
    BY <1>16 DEF Steer, LaunchSteer
<1>17. CASE Turnover
    BY <1>17 DEF Turnover
<1>18. CASE Record \/ LastFence \/ Close
    BY <1>18 DEF Record, LastFence, Close
<1>19. CASE Evidence
    BY <1>19 DEF Evidence, AfterEvidence
<1>20. CASE Drain
    BY <1>20 DEF Drain, DropInputTasks
<1>21. CASE SupervisorRaises \/ RetentionFails
    BY <1>21 DEF SupervisorRaises, RetentionFails
<1>. QED
    BY <1>1, <1>2, <1>3, <1>4, <1>5, <1>6, <1>7, <1>8, <1>9, <1>10, <1>11, <1>12, <1>13, <1>14,
       <1>15, <1>16, <1>17, <1>18, <1>19, <1>20, <1>21 DEF Supervisor

(* A step keeps every delivery's checkpoint.                               *)
LEMMA StepCheckpoints ==
    ASSUME TypeInv, PollInv, CpInv, OrderInv, InputStep, FlowStep
    PROVE  /\ CpInv'
           /\ \A d \in SUBSET InputIds : Held(d) => Held(d)' /\ deliveryCp'[d] = deliveryCp[d]
<1>1. InputTypeOK /\ NumInputs \in Nat /\ BatchDone
    BY SharedAssumption DEF TypeInv, TypeOK
<1>2. \A d \in SUBSET InputIds : Held(d) => Held(d)'
    BY StoredForGood DEF Held
<1>3. Initial \in SUBSET InputIds
    BY DEF Initial
<1>. USE <1>1, <1>2, <1>3 DEF inputVars, steerVars, deliveryVars
<1>4. at' \in {"arm", "admit"} => checkpoint' = 0
    BY DEF CpInv, FlowStep, InputStep, RecordPrepared, LaunchSteer, CollectSteer, RecordInput,
           ObservePoll, DropInputTasks, Admit
<1>5. pending' # NoBatch => LastOf(pending'.ids, pending'.cp)
    <2>1. CASE pending' = pending
        BY <2>1 DEF CpInv
    <2>2. CASE Admit
        <3>1. CASE pending' = NoBatch
            BY <3>1
        <3>2. CASE pending' # NoBatch
            <4>1. at = "admit" /\ arrived # 0 /\ pending' = After(checkpoint)
                BY <2>2, <3>2 DEF Admit
            <4>2. checkpoint = 0 /\ pending' = [ids |-> 1..arrived, cp |-> arrived]
                BY <4>1 DEF CpInv, After
            <4>. QED
                BY <4>1, <4>2 DEF LastOf, InputTypeOK, Checkpoints
        <3>. QED
            BY <3>1, <3>2
    <2>3. CASE PollDone /\ ObservePoll /\ pending' # pending
        <3>. DEFINE new == (poll.cp + 1)..poll.upto
                    old == IF pending = NoBatch THEN {} ELSE pending.ids
        <3>1. /\ poll \in PollTask
              /\ new # {} /\ pending' = [ids |-> new \cup old, cp |-> poll.upto]
            BY <2>3 DEF ObservePoll, PollDone, InputTypeOK
        <3>2. poll.cp \in Nat /\ poll.upto \in Nat
            BY <3>1 DEF PollTask, Checkpoints
        <3>3. poll.upto \in new /\ \A i \in new : i <= poll.upto
            BY <3>1, <3>2
        <3>4. \A i \in old : i <= poll.upto
            <4>1. CASE pending = NoBatch
                BY <4>1
            <4>2. CASE pending # NoBatch
                <5>1. pending \in Batch /\ pending.cp <= poll.upto
                    BY <2>3, <4>2 DEF PollInv, InputTypeOK
                <5>2. \A i \in pending.ids : i \in Nat /\ i <= pending.cp
                    BY <4>2, <5>1 DEF CpInv, LastOf, Batch, InputIds
                <5>. QED
                    BY <3>2, <4>2, <5>1, <5>2 DEF Batch, Checkpoints
            <4>. QED
                BY <4>1, <4>2
        <3>5. pending'.ids = new \cup old /\ pending'.cp = poll.upto
            BY <3>1
        <3>. HIDE DEF new, old
        <3>. QED
            BY <3>3, <3>4, <3>5 DEF LastOf
    <2>. QED
        BY <2>1, <2>2, <2>3
           DEF InputStep, RecordPrepared, LaunchSteer, CollectSteer, RecordInput, DropInputTasks
<1>6. ASSUME NEW d \in SUBSET InputIds, Held(d)
      PROVE  deliveryCp'[d] = deliveryCp[d]
    <2>1. CASE deliveryCp' = deliveryCp
        BY <2>1
    <2>2. CASE pending # NoBatch /\ RecordPrepared /\ d = pending.ids
        <3>1. pending \in Batch /\ deliveryCp'[d] = pending.cp
            BY <2>2 DEF RecordPrepared, InputTypeOK, Batch
        <3>2. LastOf(d, pending.cp) /\ LastOf(d, deliveryCp[d])
            BY <1>6, <2>2 DEF CpInv, LastOf, Initial
        <3>3. deliveryCp[d] \in Nat /\ pending.cp \in Nat
            BY <3>1 DEF InputTypeOK, Batch, Checkpoints
        <3>. QED
            BY <3>1, <3>2, <3>3 DEF LastOf
    <2>3. CASE RecordPrepared /\ d # pending.ids
        BY <2>3 DEF RecordPrepared, InputTypeOK
    <2>. QED
        BY <2>1, <2>2, <2>3
           DEF InputStep, Admit, LaunchSteer, CollectSteer, RecordInput, ObservePoll, DropInputTasks
<1>7. ASSUME NEW d \in SUBSET InputIds, d # Initial, Held(d)', ~Held(d)
      PROVE  LastOf(d, deliveryCp'[d])
    <2>1. CASE pending # NoBatch /\ RecordPrepared
        <3>1. pending \in Batch
            BY <2>1 DEF InputTypeOK
        <3>2. d = pending.ids
            BY <1>7, <2>1, <3>1 DEF RecordPrepared, InputTypeOK, Held, Batch
        <3>. QED
            BY <2>1, <3>1, <3>2 DEF RecordPrepared, InputTypeOK, CpInv, Batch
    <2>2. CASE CollectSteer
        BY <1>7, <2>2 DEF CollectSteer, InputTypeOK, Held, CpInv
    <2>3. CASE event # NoEvent /\ event[1] = "recorded" /\ RecordInput(event[2])
        BY <1>7, <2>3 DEF RecordInput, InputTypeOK, Held, OrderInv, Awaited
    <2>4. CASE deliveries' = deliveries
        BY <1>7, <2>4 DEF Held
    <2>. QED
        BY <2>1, <2>2, <2>3, <2>4 DEF FlowStep
<1>8. Held(steering)'
    <2>1. CASE at = "prepared" /\ LaunchSteer
        BY <2>1 DEF LaunchSteer, PollInv, Held
    <2>2. CASE steering' \in {steering, Initial}
        BY <2>2 DEF CpInv, InputTypeOK
    <2>. QED
        BY <2>1, <2>2
           DEF InputStep, Admit, RecordPrepared, CollectSteer, RecordInput, ObservePoll,
               DropInputTasks
<1>. QED
    BY <1>4, <1>5, <1>6, <1>7, <1>8 DEF CpInv

(* A supervisor step leaves the stream alone: it takes note of one         *)
(* delivery, launches one past all those before it, or neither.            *)
LEMMA StepOrder ==
    ASSUME TypeInv, PollInv, CpInv, OrderInv, InputStep, FlowStep
    PROVE  OrderInv' /\ checkpoint' >= checkpoint /\ deliveredCp' >= deliveredCp
<1>1. InputTypeOK /\ event \in Events \cup {NoEvent} /\ BatchDone
    BY DEF TypeInv, TypeOK, SupervisorTypeOK
<1>2. \A d \in SUBSET InputIds : Held(d) => Held(d)' /\ deliveryCp'[d] = deliveryCp[d]
    BY StepCheckpoints
<1>3. echo' = echo /\ \A n \in 1..Len(echo) : echo[n] \in SUBSET InputIds
    BY <1>1 DEF InputTypeOK, InputStep, Admit, RecordPrepared, LaunchSteer, CollectSteer,
           RecordInput, ObservePoll, DropInputTasks, deliveryVars, steerVars
<1>4. event # NoEvent /\ event[1] = "recorded" => event[2] \in SUBSET InputIds
    BY <1>1 DEF Events
<1>5. checkpoint \in Nat /\ deliveredCp \in Nat /\ \A d \in SUBSET InputIds : deliveryCp[d] \in Nat
    BY <1>1 DEF InputTypeOK, Checkpoints
<1>6. /\ checkpoint' \in Nat /\ checkpoint' >= checkpoint
      /\ checkpoint' # checkpoint => submission = "accepted"
      /\ steerTask' = "flying" => deliveryCp'[steering'] = checkpoint'
    <2>1. CASE at = "prepared" /\ LaunchSteer
        <3>1. pending \in Batch /\ LastOf(pending.ids, pending.cp) /\ checkpoint <= pending.cp
            BY <1>1, <2>1 DEF BatchDone, InputTypeOK, CpInv, PollInv
        <3>2. Held(pending.ids) /\ pending.ids # Initial /\ pending.ids \in SUBSET InputIds
            BY <2>1, <3>1 DEF PollInv, Held, LastOf, Initial, Batch
        <3>3. LastOf(pending.ids, deliveryCp[pending.ids]) /\ pending.cp \in Nat
            BY <3>1, <3>2 DEF CpInv, Batch, Checkpoints
        <3>4. deliveryCp[pending.ids] = pending.cp
            BY <1>5, <3>1, <3>2, <3>3 DEF LastOf
        <3>. QED
            BY <2>1, <3>1, <3>3, <3>4 DEF LaunchSteer, LaunchCheckpoint, OrderInv
    <2>2. CASE checkpoint' = checkpoint /\ (steerTask' = "flying" => steerTask = "flying"
                                                                     /\ steering' = steering)
        BY <1>1, <1>2, <1>5, <2>2 DEF OrderInv, CpInv, InputTypeOK
    <2>. QED
        BY <2>1, <2>2
           DEF InputStep, Admit, RecordPrepared, CollectSteer, RecordInput, ObservePoll,
               DropInputTasks, deliveryVars, inputVars, steerVars
<1>7. /\ deliveredCp' \in Nat /\ deliveredCp' >= deliveredCp /\ deliveredCp' <= checkpoint
      /\ \A n \in 1..Len(echo) : deliveredCp' <= deliveryCp[echo[n]]
      /\ event' # NoEvent /\ event'[1] = "recorded" => event' = event /\ deliveredCp' = deliveredCp
    <2>1. CASE deliveredCp' = deliveredCp /\ event' \in {event, NoEvent}
        BY <1>5, <2>1 DEF OrderInv, Awaited
    <2>2. CASE /\ event # NoEvent /\ event[1] = "recorded" /\ event' = NoEvent
               /\ RecordInput(event[2])
        BY <1>4, <1>5, <2>2 DEF OrderInv, Awaited, RecordInput
    <2>. QED
        BY <2>1, <2>2 DEF FlowStep
<1>8. \A n \in 1..Len(echo) : Awaited(echo[n])'
    BY <1>2, <1>3, <1>5, <1>6, <1>7 DEF OrderInv, Awaited
<1>9. \A m, n \in 1..Len(echo) : m <= n => deliveryCp'[echo[m]] <= deliveryCp'[echo[n]]
    BY <1>2, <1>3 DEF OrderInv, Awaited
<1>10. event' # NoEvent /\ event'[1] = "recorded"
          => /\ Awaited(event[2])' /\ event' = event
             /\ \A n \in 1..Len(echo) : deliveryCp'[event[2]] <= deliveryCp'[echo[n]]
    BY <1>2, <1>3, <1>4, <1>5, <1>6, <1>7 DEF OrderInv, Awaited
<1>11. /\ submission' # "accepted" => checkpoint' = 0
       /\ phase' = "loop" => submission' = "accepted"
       /\ at' = "prepared" => phase' = "loop"
    BY <1>6 DEF OrderInv, FlowStep
<1>12. deliveredCp' <= checkpoint'
    BY <1>5, <1>6, <1>7
<1>. QED
    BY <1>3, <1>6, <1>7, <1>8, <1>9, <1>10, <1>11, <1>12 DEF OrderInv, Awaited, Held

(* What the runtime and the host leave alone, and what they may do to the  *)
(* stream: pass its head on, or append one delivery at its end.            *)
Rest == UNCHANGED <<at, phase, pending, checkpoint, deliveries, deliveryCp, deliveredCp, steering>>

StreamStep ==
    \/ UNCHANGED <<echo, event>>
    \/ echo' = echo /\ event = NoEvent /\ event'[1] # "recorded"
    \/ /\ echo # <<>> /\ event = NoEvent
       /\ event' = <<"recorded", Head(echo)>> /\ echo' = Tail(echo)
    \/ /\ event' = event /\ echo' = Append(echo, Initial)
       /\ submission # "accepted"
    \/ /\ event' = event /\ echo' = Append(echo, steering)
       /\ steerTask = "flying"

LEMMA RuntimeStream ==
    ASSUME TypeInv, Runtime
    PROVE  /\ Rest /\ StreamStep /\ steerTask' = steerTask
           /\ submission' = "accepted" \/ submission # "accepted"
<1>. USE DEF Rest, StreamStep, Surroundings, deliveryVars, steerVars, inputVars, sharedVars,
             flowVars, turnVars
<1>1. CASE OwnerLost \/ Cancel \/ SubmitSends \/ SubmitReturns \/ TurnEnds \/ InterruptReturns
    BY <1>1 DEF OwnerLost, Cancel, SubmitSends, SubmitReturns, TurnEnds, InterruptReturns
<1>2. CASE SubmitAnswered
    BY <1>2 DEF SubmitAnswered
<1>3. CASE EmitCall
    BY <1>3 DEF EmitCall, Emit, Listening
<1>4. CASE EmitRecorded
    BY <1>4 DEF EmitRecorded, Emit, Listening
<1>5. CASE EmitTerminal
    BY <1>5 DEF EmitTerminal, Emit, Listening
<1>6. CASE EmitOther
    BY <1>6 DEF EmitOther, Emit, Listening
<1>. QED
    BY <1>1, <1>2, <1>3, <1>4, <1>5, <1>6 DEF Runtime

LEMMA InputsStream ==
    ASSUME TypeInv, Inputs
    PROVE  /\ Rest /\ StreamStep /\ submission' = submission
           /\ steerTask' = "flying" => steerTask = "flying"
<1>. USE DEF Rest, StreamStep, Inputs, Flow, flowVars, turnVars, inputVars, steerVars
<1>1. CASE InputArrives \/ PollCalls \/ PollReturns
    BY <1>1 DEF InputArrives, PollCalls, PollReturns
<1>2. CASE SteerReaches
    BY <1>2 DEF SteerReaches
<1>3. CASE SteerAnswers
    BY <1>3 DEF SteerAnswers
<1>. QED
    BY <1>1, <1>2, <1>3 DEF InputNext

(* The stream keeps its order: before the submission is accepted nothing   *)
(* has been launched, and what a steer task carries is the latest.         *)
LEMMA StreamKeepsOrder ==
    ASSUME TypeInv, CpInv, OrderInv, Rest, StreamStep,
           steerTask' = "flying" => steerTask = "flying",
           submission' = "accepted" \/ submission # "accepted"
    PROVE  CpInv' /\ OrderInv'
<1>1. CpInv'
    BY DEF CpInv, Rest, Held
<1>2. /\ echo \in Seq(SUBSET InputIds) /\ Len(echo) \in Nat
      /\ \A n \in 1..Len(echo) : echo[n] \in SUBSET InputIds
      /\ Initial \in SUBSET InputIds /\ steering \in SUBSET InputIds
      /\ checkpoint \in Nat /\ deliveredCp \in Nat
      /\ \A d \in SUBSET InputIds : deliveryCp[d] \in Nat
    BY LenProperties DEF TypeInv, TypeOK, InputTypeOK, Checkpoints, Initial
<1>3. /\ submission' # "accepted" => checkpoint' = 0
      /\ phase' = "loop" => submission' = "accepted"
      /\ at' = "prepared" => phase' = "loop"
      /\ deliveredCp' <= checkpoint'
      /\ steerTask' = "flying" => deliveryCp'[steering'] = checkpoint'
    BY DEF OrderInv, Rest
<1>4. \A d : Awaited(d)' <=> Awaited(d)
    BY DEF Awaited, Held, Rest
<1>. DEFINE Ordered(e) == /\ \A n \in 1..Len(e) : Awaited(e[n])
                          /\ \A m, n \in 1..Len(e) :
                                m <= n => deliveryCp[e[m]] <= deliveryCp[e[n]]
            Heard(v, e) == v # NoEvent /\ v[1] = "recorded"
                              => /\ Awaited(v[2])
                                 /\ \A n \in 1..Len(e) : deliveryCp[v[2]] <= deliveryCp[e[n]]
<1>5. Ordered(echo) /\ Heard(event, echo)
    BY DEF OrderInv
<1>6. ASSUME NEW d \in SUBSET InputIds, Awaited(d), deliveryCp[d] = checkpoint,
             echo' = Append(echo, d), event' = event
      PROVE  Ordered(echo') /\ Heard(event', echo')
    <2>1. /\ Len(echo') = Len(echo) + 1 /\ echo'[Len(echo) + 1] = d
          /\ \A n \in 1..Len(echo) : echo'[n] = echo[n]
        BY <1>2, <1>6, AppendProperties
    <2>2. \A n \in 1..Len(echo') : n \in 1..Len(echo) \/ n = Len(echo) + 1
        BY <1>2, <2>1
    <2>3. \A n \in 1..Len(echo') : Awaited(echo'[n]) /\ echo'[n] \in SUBSET InputIds
        BY <1>2, <1>5, <1>6, <2>1, <2>2
    <2>4. \A m, n \in 1..Len(echo') : m <= n => deliveryCp[echo'[m]] <= deliveryCp[echo'[n]]
        <3>1. TAKE m, n \in 1..Len(echo')
        <3>2. CASE n = Len(echo) + 1
            BY <1>6, <2>1, <2>3, <3>2 DEF Awaited
        <3>3. CASE n \in 1..Len(echo) /\ m <= n
            BY <1>2, <1>5, <2>1, <3>3
        <3>. QED
            BY <2>2, <3>2, <3>3
    <2>5. Heard(event', echo')
        BY <1>2, <1>5, <1>6, <2>1, <2>2 DEF Awaited
    <2>. QED
        BY <2>3, <2>4, <2>5
<1>7. Ordered(echo') /\ Heard(event', echo')
    <2>1. CASE UNCHANGED <<echo, event>>
        BY <1>5, <2>1
    <2>2. CASE echo' = echo /\ event'[1] # "recorded"
        BY <1>5, <2>2
    <2>3. CASE echo # <<>> /\ event' = <<"recorded", Head(echo)>> /\ echo' = Tail(echo)
        <3>1. /\ Len(echo) \in Nat \ {0} /\ Head(echo) = echo[1] /\ Len(echo') = Len(echo) - 1
              /\ \A n \in 1..Len(echo') : echo'[n] = echo[n + 1]
            BY <1>2, <2>3, HeadTailProperties, LenProperties, EmptySeq
        <3>2. \A n \in 1..Len(echo') : n + 1 \in 1..Len(echo)
            BY <3>1
        <3>3. Ordered(echo')
            BY <1>5, <3>1, <3>2
        <3>4. Heard(event', echo')
            BY <1>5, <2>3, <3>1, <3>2
        <3>. QED
            BY <3>3, <3>4
    <2>4. CASE event' = event /\ echo' = Append(echo, Initial) /\ submission # "accepted"
        <3>1. checkpoint = 0 /\ deliveredCp = 0 /\ Awaited(Initial) /\ deliveryCp[Initial] = 0
            BY <1>2, <2>4 DEF OrderInv, CpInv, Awaited
        <3>. QED
            BY <1>2, <1>6, <2>4, <3>1
    <2>5. CASE event' = event /\ echo' = Append(echo, steering) /\ steerTask = "flying"
        <3>1. deliveryCp[steering] = checkpoint /\ Awaited(steering)
            BY <1>2, <2>5 DEF OrderInv, CpInv, Awaited
        <3>. QED
            BY <1>2, <1>6, <2>5, <3>1
    <2>. QED
        BY <2>1, <2>2, <2>3, <2>4, <2>5 DEF StreamStep
<1>8. \A n \in 1..Len(echo') : Awaited(echo[n])'
    BY <1>4, <1>7
<1>. QED
    BY <1>1, <1>3, <1>4, <1>7, <1>8 DEF OrderInv, Rest

LEMMA OrderInductive == Spec => [](CpInv /\ OrderInv)
<1>1. Init => CpInv /\ OrderInv
    <2>1. Initial \in SUBSET InputIds
        BY DEF Initial
    <2>. QED
        BY <2>1, SharedAssumption DEF Init, InputInit, CpInv, OrderInv, Held
<1>2. TypeInv /\ PollInv /\ CpInv /\ OrderInv /\ [Next]_vars => (CpInv /\ OrderInv)'
    <2>. SUFFICES ASSUME TypeInv, PollInv, CpInv, OrderInv, [Next]_vars
                  PROVE  CpInv' /\ OrderInv'
        OBVIOUS
    <2>1. CASE Supervisor \/ SupervisorRaises \/ RetentionFails
        BY <2>1, SupervisorSteps, SupervisorOrder, StepCheckpoints, StepOrder
    <2>2. CASE Inputs
        BY <2>2, InputsStream, StreamKeepsOrder
    <2>3. CASE Runtime
        BY <2>3, RuntimeStream, StreamKeepsOrder
    <2>4. CASE Callbacks \/ UNCHANGED vars
        <3>1. Rest /\ UNCHANGED <<echo, event, steerTask, submission>>
            BY <2>4 DEF Callbacks, Flow, vars, flowVars, turnVars, deliveryVars, inputVars,
                        steerVars, Rest
        <3>. QED
            BY <3>1, StreamKeepsOrder DEF StreamStep
    <2>. QED
        BY <2>1, <2>2, <2>3, <2>4 DEF Next, Ended
<1>. QED
    BY <1>1, <1>2, TypeInvInductive, PollInvInductive, PTL DEF Spec

(* The poll checkpoint and the delivered checkpoint never move back, for   *)
(* any number of inputs, stale polls and answers of the native thread that *)
(* come before, after or without the answer of the steer.                  *)
THEOREM CheckpointsOnlyAdvance == Spec => CheckpointsAdvance
<1>1. /\ TypeInv /\ PollInv /\ CpInv /\ OrderInv /\ [Next]_vars
      => [checkpoint' >= checkpoint /\ deliveredCp' >= deliveredCp]_vars
    <2>. SUFFICES ASSUME TypeInv, PollInv, CpInv, OrderInv, Next
                  PROVE  checkpoint' >= checkpoint /\ deliveredCp' >= deliveredCp
        OBVIOUS
    <2>1. checkpoint \in Nat /\ deliveredCp \in Nat
        BY DEF TypeInv, TypeOK, InputTypeOK, Checkpoints
    <2>2. CASE Supervisor \/ SupervisorRaises \/ RetentionFails
        BY <2>2, SupervisorSteps, SupervisorOrder, StepOrder
    <2>3. CASE Inputs \/ Runtime
        BY <2>1, <2>3, InputsStream, RuntimeStream DEF Rest
    <2>4. CASE Callbacks \/ Ended
        BY <2>1, <2>4 DEF Callbacks, Ended, vars, deliveryVars, inputVars, steerVars
    <2>. QED
        BY <2>2, <2>3, <2>4 DEF Next
<1>. QED
    BY <1>1, OrderInductive, TypeInvInductive, PollInvInductive, PTL DEF Spec, CheckpointsAdvance
=============================================================================
