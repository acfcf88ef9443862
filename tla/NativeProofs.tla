------------------------------ MODULE NativeProofs ------------------------------
(***************************************************************************)
(* The safety of run_native for every set of call identities, argument     *)
(* bytes, host inputs, queue bound and environment: its types, its         *)
(* callback lane, and the ways out of an armed attempt.                    *)
(***************************************************************************)
EXTENDS NativeProperties, TLAPS, SequenceTheorems

-----------------------------------------------------------------------------
(* Type correctness.  BatchDone is proved with it: HandleCall and          *)
(* HandleCallback take apart an event and a finished task that are         *)
(* well-typed only because they are still there.                           *)

(* Type correctness of the lanes, operation by operation. *)

(* Every step of the callback task keeps the lane's types. *)
LEMMA CallbackNextTypes ==
    ASSUME CallbackTypeOK, CallbackNext
    PROVE  CallbackTypeOK'
<1>. USE DEF CallbackTypeOK, Callback, Outcome, Awaiting, Advance, Finish, LaneFrame,
             laneVars, taskVars, journalVars, traceVars
<1>1. CASE CallbackOwner
    BY <1>1 DEF CallbackOwner
<1>2. CASE CallbackAccept
    BY <1>2 DEF CallbackAccept, AfterAccept
<1>3. CASE CallbackChanged
    BY <1>3 DEF CallbackChanged
<1>4. CASE CallbackDispatch
    BY <1>4 DEF CallbackDispatch
<1>5. CASE CallbackSettle
    BY <1>5 DEF CallbackSettle
<1>6. CASE CallbackRecord
    BY <1>6 DEF CallbackRecord
<1>7. CASE CallbackRecheck
    BY <1>7 DEF CallbackRecheck, Receipt
<1>8. CASE CallbackReply
    BY <1>8 DEF CallbackReply, Receipt
<1>9. CASE CallbackCancelled
    BY <1>9 DEF CallbackCancelled
<1>10. CASE CallbackFails
    BY <1>10 DEF CallbackFails
<1>. QED
    BY <1>1, <1>2, <1>3, <1>4, <1>5, <1>6, <1>7, <1>8, <1>9, <1>10 DEF CallbackNext
(* What a queue loses at its head and gains at its end. *)
LEMMA TailFacts ==
    ASSUME NEW S, NEW s \in Seq(S), s # <<>>
    PROVE  /\ Len(s) \in Nat \ {0} /\ Head(s) = s[1] /\ Head(s) \in S
           /\ Tail(s) \in Seq(S) /\ Len(Tail(s)) = Len(s) - 1
           /\ \A n \in 1..Len(Tail(s)) : Tail(s)[n] = s[n + 1]
    BY HeadTailProperties, LenProperties, EmptySeq

LEMMA AppendFacts ==
    ASSUME NEW S, NEW s \in Seq(S), NEW e \in S
    PROVE  /\ Append(s, e) \in Seq(S)
           /\ Len(s) \in Nat /\ Len(Append(s, e)) = Len(s) + 1
           /\ \A n \in 1..Len(s) : Append(s, e)[n] = s[n] /\ s[n] \in S
           /\ Append(s, e)[Len(s) + 1] = e
    BY AppendProperties, LenProperties, ElementOfSeq

(* Every operation of the supervisor on the lane keeps its types. *)
LEMMA LaneOperationTypes ==
    ASSUME CallbackTypeOK
    PROVE  /\ UNCHANGED laneVars => CallbackTypeOK'
           /\ StartCallback => CallbackTypeOK'
           /\ StopLane => CallbackTypeOK'
           /\ \A c \in Callback : EnqueueCallback(c) /\ Hear(c.id, Lineage(c)) => CallbackTypeOK'
           /\ ForgetInvalid => CallbackTypeOK'
           /\ step = "done" /\ CollectCallback => CallbackTypeOK'
           /\ /\ CancelCallback
              /\ UNCHANGED <<queue, active, lastInvalid, step, outcome, journalVars, traceVars>>
              => CallbackTypeOK'
<1>. USE DEF CallbackTypeOK, Outcome, Awaiting, laneVars, taskVars, journalVars, traceVars
<1>1. UNCHANGED laneVars => CallbackTypeOK'
    OBVIOUS
<1>2. StartCallback => CallbackTypeOK'
    <2>1. CASE UNCHANGED laneVars
        BY <1>1, <2>1
    <2>2. CASE StartCallback /\ ~UNCHANGED laneVars
        <3>1. queue \in Seq(Callback) /\ queue # <<>>
            BY <2>2 DEF StartCallback
        <3>2. Tail(queue) \in Seq(Callback) /\ Head(queue) \in Callback
            BY <3>1, TailFacts
        <3>. QED
            BY <2>2, <3>2 DEF StartCallback
    <2>. QED
        BY <2>1, <2>2
<1>3. StopLane => CallbackTypeOK'
    BY EmptySeq DEF StopLane, CancelCallback
<1>4. ASSUME NEW c \in Callback, EnqueueCallback(c), Hear(c.id, Lineage(c))
      PROVE  CallbackTypeOK'
    <2>1. Lineage(c) \in (SUBSET InputIds) \X Checkpoints /\ c.id \in CallId
        BY DEF Callback, Lineage
    <2>2. asked' \in [CallId -> SUBSET ((SUBSET InputIds) \X Checkpoints)]
        BY <1>4, <2>1 DEF Hear
    <2>. QED
        BY <1>4, <2>2 DEF EnqueueCallback
<1>5. ForgetInvalid => CallbackTypeOK'
    BY DEF ForgetInvalid
<1>6. step = "done" /\ CollectCallback => CallbackTypeOK'
    BY DEF CollectCallback, Rejection, Callback
<1>7. ASSUME CancelCallback,
             UNCHANGED <<queue, active, lastInvalid, step, outcome, journalVars, traceVars>>
      PROVE  CallbackTypeOK'
    BY <1>7 DEF CancelCallback
<1>. QED
    BY <1>1, <1>2, <1>3, <1>4, <1>5, <1>6, <1>7

(* The input lane, likewise. *)
LEMMA InputNextTypes ==
    ASSUME InputTypeOK, InputNext
    PROVE  InputTypeOK'
<1>. USE SharedAssumption DEF InputTypeOK, Checkpoints, PollTask, inputVars, steerVars, Disposition
<1>1. CASE InputArrives
    BY <1>1 DEF InputArrives
<1>2. CASE PollCalls
    BY <1>2 DEF PollCalls
<1>3. CASE PollReturns
    BY <1>3 DEF PollReturns
<1>4. CASE SteerReaches
    BY <1>4 DEF SteerReaches
<1>5. CASE SteerAnswers
    BY <1>5 DEF SteerAnswers
<1>. QED
    BY <1>1, <1>2, <1>3, <1>4, <1>5 DEF InputNext

LEMMA InputOperationTypes ==
    ASSUME InputTypeOK
    PROVE  /\ UNCHANGED deliveryVars => InputTypeOK'
           /\ pending # NoBatch /\ RecordPrepared => InputTypeOK'
           /\ pending # NoBatch /\ LaunchSteer => InputTypeOK'
           /\ CollectSteer => InputTypeOK'
           /\ \A d \in SUBSET InputIds : RecordInput(d) => InputTypeOK'
           /\ PollDone /\ ObservePoll => InputTypeOK'
           /\ DropInputTasks => InputTypeOK'
<1>. USE SharedAssumption DEF InputTypeOK, inputVars, steerVars, deliveryVars, DeliveryState
<1>1. UNCHANGED deliveryVars => InputTypeOK'
    OBVIOUS
<1>2. pending # NoBatch /\ RecordPrepared => InputTypeOK'
    BY DEF RecordPrepared, Batch
<1>3. pending # NoBatch /\ LaunchSteer => InputTypeOK'
    BY DEF LaunchSteer, LaunchCheckpoint, Batch, Disposition
<1>4. CollectSteer => InputTypeOK'
    BY DEF CollectSteer, SteerState, Initial, Disposition
<1>5. \A d \in SUBSET InputIds : RecordInput(d) => InputTypeOK'
    BY DEF RecordInput
<1>6. PollDone /\ ObservePoll => InputTypeOK'
    BY DEF PollDone, ObservePoll, NextPoll, Asleep, PollTask, Batch, Checkpoints, InputIds
<1>7. DropInputTasks => InputTypeOK'
    BY DEF DropInputTasks
<1>. QED
    BY <1>1, <1>2, <1>3, <1>4, <1>5, <1>6, <1>7
-----------------------------------------------------------------------------
(* Type correctness of run_native.  BatchDone is proved with it: the       *)
(* handlers take results that exist only if they are still there.          *)

TypeInv == TypeOK /\ BatchDone

(* Which of its operations the supervisor applies to the callback lane, and *)
(* when.                                                                    *)
LaneFootprint ==
    \/ UNCHANGED laneVars
    \/ at \notin Over /\ StartCallback
    \/ at = "fence" /\ StopLane
    \/ \E c \in Callback : /\ ~Closed /\ c.ids = delivered
                           /\ EnqueueCallback(c) /\ Hear(c.id, Lineage(c))
    \/ ForgetInvalid
    \/ /\ step = "done" /\ outcome # "failed" /\ (outcome = "cancelled" => stop # "none")
       /\ CollectCallback
    \/ /\ at = "drain"
       /\ CancelCallback
       /\ UNCHANGED <<queue, active, lastInvalid, step, outcome, journalVars, traceVars>>

LEMMA SupervisorLane ==
    ASSUME TypeInv, Supervisor \/ SupervisorRaises \/ RetentionFails
    PROVE  LaneFootprint
<1>. USE DEF LaneFootprint
<1>1. CASE Arm \/ Admit \/ Wake \/ GraceExpires \/ Acknowledge \/ PortReturns
    BY <1>1 DEF Arm, Admit, Wake, GraceExpires, Acknowledge, PortReturns
<1>2. CASE HandleInterrupt \/ HandleCancel \/ HandlePoll \/ HandleTerminal \/ HandleSteer
    BY <1>2 DEF HandleInterrupt, HandleCancel, HandlePoll, HandleTerminal, HandleSteer
<1>3. CASE SubmitAgain \/ PrepareSteer \/ Record \/ Evidence \/ LastFence \/ Close
    BY <1>3 DEF SubmitAgain, PrepareSteer, Record, Evidence, LastFence, Close
<1>4. CASE FenceReturns
    BY <1>4 DEF FenceReturns
<1>5. CASE HandleCall
    <2>. DEFINE call == [id |-> event[2], body |-> event[3], ids |-> delivered, cp |-> deliveredCp]
    <2>1. call \in Callback
        BY <1>5 DEF HandleCall, Handling, Events, TypeInv, TypeOK, SupervisorTypeOK, InputTypeOK,
                    BatchDone, Callback
    <2>. QED
        BY <1>5, <2>1 DEF HandleCall, Handling, Lineage, Closed, Over
<1>6. CASE HandleRecorded \/ HandleOther \/ Steer
    BY <1>6 DEF HandleRecorded, HandleOther, Steer
<1>7. CASE HandleCallback
    BY <1>7 DEF HandleCallback, Handling, TypeInv, BatchDone
<1>8. CASE Turnover
    BY <1>8 DEF Turnover, Handled, Over
<1>9. CASE Drain
    BY <1>9 DEF Drain
<1>10. CASE SupervisorRaises \/ RetentionFails
    BY <1>10 DEF SupervisorRaises, RetentionFails
<1>. QED
    BY <1>1, <1>2, <1>3, <1>4, <1>5, <1>6, <1>7, <1>8, <1>9, <1>10 DEF Supervisor

(* And to the input lane. *)
InputFootprint ==
    \/ UNCHANGED deliveryVars
    \/ Admit
    \/ pending # NoBatch /\ RecordPrepared
    \/ pending # NoBatch /\ LaunchSteer
    \/ CollectSteer
    \/ \E d \in SUBSET InputIds : RecordInput(d)
    \/ PollDone /\ ObservePoll
    \/ DropInputTasks

LEMMA SupervisorInputs ==
    ASSUME TypeInv, Supervisor \/ SupervisorRaises \/ RetentionFails
    PROVE  InputFootprint
<1>. USE DEF InputFootprint
<1>1. CASE Arm \/ Admit \/ Wake \/ GraceExpires \/ Acknowledge \/ PortReturns
    BY <1>1 DEF Arm, Wake, GraceExpires, Acknowledge, PortReturns
<1>2. CASE FenceReturns \/ HandleInterrupt \/ HandleCancel \/ HandleTerminal \/ HandleCall
    BY <1>2 DEF FenceReturns, HandleInterrupt, HandleCancel, HandleTerminal, HandleCall
<1>3. CASE SubmitAgain \/ Record \/ Evidence \/ LastFence \/ Close
    BY <1>3 DEF SubmitAgain, Record, Evidence, LastFence, Close
<1>4. CASE HandleOther \/ HandleCallback \/ Turnover
    BY <1>4 DEF HandleOther, HandleCallback, Turnover
<1>5. CASE HandlePoll
    BY <1>5 DEF HandlePoll, Handling, TypeInv, BatchDone
<1>6. CASE HandleRecorded
    BY <1>6 DEF HandleRecorded, Handling, Events, TypeInv, TypeOK, SupervisorTypeOK, BatchDone
<1>7. CASE HandleSteer
    BY <1>7 DEF HandleSteer
<1>8. CASE PrepareSteer
    BY <1>8 DEF PrepareSteer, SteerDue
<1>9. CASE Steer
    BY <1>9 DEF Steer, TypeInv, BatchDone
<1>10. CASE Drain
    BY <1>10 DEF Drain
<1>11. CASE SupervisorRaises \/ RetentionFails
    BY <1>11 DEF SupervisorRaises, RetentionFails
<1>. QED
    BY <1>1, <1>2, <1>3, <1>4, <1>5, <1>6, <1>7, <1>8, <1>9, <1>10, <1>11 DEF Supervisor

LEMMA LaneTypes ==
    ASSUME CallbackTypeOK, LaneFootprint
    PROVE  CallbackTypeOK'
BY LaneOperationTypes DEF LaneFootprint

LEMMA InputTypes ==
    ASSUME TypeInv, InputFootprint
    PROVE  InputTypeOK'
<1>. USE SharedAssumption DEF TypeInv, TypeOK, InputFootprint
<1>1. CASE Admit
    BY <1>1 DEF Admit, InputTypeOK, After, Batch, Asleep, PollTask, Checkpoints, InputIds,
                steerVars
<1>. QED
    BY <1>1, InputOperationTypes

(* The ways out of a step type what all of them assign. *)
FlowTypeOK ==
    /\ SharedTypeOK
    /\ at \in Places
    /\ phase \in {"submit", "loop"}
    /\ batch \subseteq Task
    /\ result \in {"none", "native", "local", "not_submitted", "raised"}

LEMMA Exits ==
    ASSUME FlowTypeOK
    PROVE  /\ Raise => FlowTypeOK'
           /\ Decide("native") => FlowTypeOK'
           /\ Decide("local") => FlowTypeOK'
           /\ \A reason \in StopReason, t \in Task : Stop(reason) /\ Taken(t) => FlowTypeOK'
           /\ \A t \in Task : Then(t, "batch") => FlowTypeOK'
           /\ \A t \in Task : Then(t, "port") => FlowTypeOK'
           /\ \A place \in Places : Go(place) => FlowTypeOK'
<1>. USE DEF FlowTypeOK, SharedTypeOK
<1>1. Raise => FlowTypeOK'
    BY DEF Raise, Places, Over
<1>2. Decide("native") => FlowTypeOK'
    BY DEF Decide, Places, Over, sharedVars
<1>3. Decide("local") => FlowTypeOK'
    BY DEF Decide, Places, Over, sharedVars
<1>4. \A reason \in StopReason, t \in Task : Stop(reason) /\ Taken(t) => FlowTypeOK'
    BY DEF Stop, Taken, Places
<1>5. \A t \in Task : Then(t, "batch") => FlowTypeOK'
    BY DEF Then, Taken, Places, sharedVars
<1>6. \A t \in Task : Then(t, "port") => FlowTypeOK'
    BY DEF Then, Taken, Places, sharedVars
<1>7. \A place \in Places : Go(place) => FlowTypeOK'
    BY DEF Go, sharedVars
<1>. QED
    BY <1>1, <1>2, <1>3, <1>4, <1>5, <1>6, <1>7

(* The supervisor's control flow and what all tasks share. *)
LEMMA SupervisorFlow ==
    ASSUME TypeInv, Supervisor \/ SupervisorRaises \/ RetentionFails
    PROVE  FlowTypeOK'
<1>0. FlowTypeOK
    BY DEF TypeInv, TypeOK, SupervisorTypeOK, FlowTypeOK
<1>. USE <1>0 DEF FlowTypeOK, SharedTypeOK
<1>1. CASE Arm
    BY <1>1, Exits DEF Arm, Places
<1>2. CASE Admit
    BY <1>2 DEF Admit, Places
<1>3. CASE Wake
    BY <1>3 DEF Wake, Places, Ready, sharedVars
<1>4. CASE GraceExpires
    BY <1>4, Exits DEF GraceExpires, GraceTerminal, Places
<1>5. CASE Acknowledge
    BY <1>5, Exits DEF Acknowledge, Places, Over, sharedVars
<1>6. CASE PortReturns \/ FenceReturns \/ SubmitAgain \/ Steer \/ Turnover
    BY <1>6, Exits DEF PortReturns, FenceReturns, SubmitAgain, Steer, Turnover, Places
<1>7. CASE HandleInterrupt \/ HandleCancel \/ HandlePoll
    BY <1>7, Exits DEF HandleInterrupt, HandleCancel, HandlePoll, Task, StopReason
<1>8. CASE HandleCall \/ HandleRecorded \/ HandleTerminal \/ HandleOther
    BY <1>8, Exits DEF HandleCall, HandleRecorded, HandleTerminal, HandleOther, Task
<1>9. CASE HandleCallback \/ HandleSteer
    BY <1>9, Exits DEF HandleCallback, HandleSteer, Task, StopReason
<1>10. CASE PrepareSteer
    BY <1>10, Exits DEF PrepareSteer, Places
<1>11. CASE Record \/ Evidence \/ LastFence \/ Drain \/ Close
    BY <1>11, Exits DEF Record, Evidence, LastFence, Drain, Close, AfterEvidence, Places, Over
<1>12. CASE SupervisorRaises \/ RetentionFails
    BY <1>12, Exits DEF SupervisorRaises, RetentionFails, Places, Over
<1>. QED
    BY <1>1, <1>2, <1>3, <1>4, <1>5, <1>6, <1>7, <1>8, <1>9, <1>10, <1>11, <1>12 DEF Supervisor

(* The rest of its variables. *)
LatchTypeOK ==
    /\ grace \in BOOLEAN
    /\ interrupt \in {"none", "flying", "done"}
    /\ armed \in BOOLEAN
    /\ fenced \in BOOLEAN
    /\ committed \subseteq {"submission", "native", "local", "control"}
    /\ submission \in {"none", "sent", "accepted", "uncertain", "not_submitted"}
    /\ submit \in {"none", "flying", "done"}
    /\ event \in Events \cup {NoEvent}
    /\ latched \in Native \cup {"none", "local", "foreign"}
    /\ arrivals \in Nat
    /\ lease \in {"live", "kept", "discarded"}

LEMMA SupervisorLatches ==
    ASSUME TypeInv, Supervisor \/ SupervisorRaises \/ RetentionFails
    PROVE  LatchTypeOK'
<1>0. LatchTypeOK
    BY DEF TypeInv, TypeOK, SupervisorTypeOK, LatchTypeOK
<1>. USE <1>0 DEF LatchTypeOK, stopVars, evidenceVars, turnVars, Raise, Go
<1>1. CASE Arm
    <2>1. CASE owned
        BY <1>1, <2>1 DEF Arm
    <2>2. CASE ~owned
        BY <1>1, <2>2 DEF Arm
    <2>. QED
        BY <2>1, <2>2
<1>2. CASE Admit
    BY <1>2 DEF Admit
<1>3. CASE Wake
    BY <1>3 DEF Wake
<1>4. CASE GraceExpires
    BY <1>4 DEF GraceExpires
<1>5. CASE Acknowledge
    <2>1. CASE submission = "accepted"
        BY <1>5, <2>1 DEF Acknowledge
    <2>2. CASE submission = "uncertain"
        BY <1>5, <2>2 DEF Acknowledge
    <2>3. CASE submission \notin {"accepted", "uncertain"}
        BY <1>5, <2>3 DEF Acknowledge
    <2>. QED
        BY <2>1, <2>2, <2>3
<1>6. CASE SubmitAgain
    BY <1>6 DEF SubmitAgain
<1>7. CASE Steer
    BY <1>7 DEF Steer
<1>8. CASE FenceReturns
    BY <1>8 DEF FenceReturns, StartGrace
<1>9. CASE PortReturns
    BY <1>9 DEF PortReturns
<1>10. CASE Turnover
    BY <1>10 DEF Turnover
<1>11. CASE HandleInterrupt
    BY <1>11 DEF HandleInterrupt
<1>12. CASE HandleCancel
    BY <1>12 DEF HandleCancel
<1>13. CASE HandlePoll
    BY <1>13 DEF HandlePoll
<1>14. CASE HandleCall
    BY <1>14 DEF HandleCall
<1>15. CASE HandleRecorded
    BY <1>15 DEF HandleRecorded
<1>16. CASE HandleTerminal
    BY <1>16 DEF HandleTerminal
<1>17. CASE HandleOther
    BY <1>17 DEF HandleOther
<1>18. CASE HandleCallback
    BY <1>18 DEF HandleCallback
<1>19. CASE PrepareSteer
    BY <1>19 DEF PrepareSteer
<1>20. CASE Record
    <2>1. result \in {"native", "local"}
        BY <1>20 DEF Record, TypeInv, BatchDone
    <2>2. committed' \subseteq {"submission", "native", "local", "control"}
        BY <1>20, <2>1 DEF Record
    <2>. QED
        BY <1>20, <2>2 DEF Record
<1>21. CASE HandleSteer
    <2>1. committed' \subseteq {"submission", "native", "local", "control"}
        BY <1>21 DEF HandleSteer
    <2>. QED
        BY <1>21, <2>1 DEF HandleSteer
<1>22. CASE Evidence
    BY <1>22 DEF Evidence, Native
<1>23. CASE LastFence
    BY <1>23 DEF LastFence
<1>24. CASE Drain
    BY <1>24 DEF Drain
<1>25. CASE Close
    BY <1>25 DEF Close
<1>26. CASE SupervisorRaises
    BY <1>26 DEF SupervisorRaises
<1>27. CASE RetentionFails
    BY <1>27 DEF RetentionFails
<1>. QED
    BY <1>1, <1>2, <1>3, <1>4, <1>5, <1>6, <1>7, <1>8, <1>9, <1>10, <1>11, <1>12, <1>13,
       <1>14, <1>15, <1>16, <1>17, <1>18, <1>19, <1>20, <1>21, <1>22, <1>23, <1>24, <1>25,
       <1>26, <1>27
    DEF Supervisor

(* What a waiting handler counts on survives the supervisor's own steps. *)
LEMMA SupervisorBatch ==
    ASSUME TypeInv, Supervisor \/ SupervisorRaises \/ RetentionFails
    PROVE  BatchDone'
<1>. USE DEF TypeInv, BatchDone, PollDone, Over, turnVars
<1>1. CASE Raise \/ Decide("native") \/ Decide("local")
    BY <1>1 DEF Raise, Decide
<1>2. CASE Arm \/ Admit \/ GraceExpires \/ Acknowledge
    BY <1>1, <1>2 DEF Arm, Admit, GraceExpires, GraceTerminal, Acknowledge, Go
<1>3. CASE Wake
    BY <1>3 DEF Wake, Ready, Done, laneVars, taskVars, deliveryVars, inputVars, steerVars
<1>4. CASE PortReturns \/ FenceReturns \/ SubmitAgain
    BY <1>4 DEF PortReturns, FenceReturns, SubmitAgain, StopLane, Go, Handled, laneVars, taskVars,
                deliveryVars, inputVars, steerVars
<1>5. CASE HandleInterrupt \/ HandleCancel \/ HandlePoll
    BY <1>5 DEF HandleInterrupt, HandleCancel, HandlePoll, Then, Taken, Stop, ObservePoll,
                laneVars, taskVars, deliveryVars, inputVars, steerVars
<1>6. CASE HandleCall \/ HandleRecorded \/ HandleTerminal \/ HandleOther
    BY <1>1, <1>6 DEF HandleCall, HandleRecorded, HandleTerminal, HandleOther, Then, Taken,
                EnqueueCallback, ForgetInvalid, RecordInput,
                laneVars, taskVars, deliveryVars, inputVars, steerVars
<1>7. CASE HandleCallback \/ HandleSteer
    BY <1>1, <1>7 DEF HandleCallback, HandleSteer, Then, Taken, Stop, CollectCallback, CollectSteer,
                laneVars, taskVars, deliveryVars, inputVars, steerVars
<1>8. CASE PrepareSteer
    BY <1>1, <1>8 DEF PrepareSteer, Handled, SteerDue, Go, RecordPrepared, inputVars
<1>9. CASE Steer \/ Turnover
    BY <1>9 DEF Steer, Turnover, Handled, Go
<1>10. CASE Record \/ Evidence \/ LastFence \/ Drain \/ Close
    BY <1>10 DEF Record, Evidence, AfterEvidence, LastFence, Drain, Close, Go
<1>11. CASE SupervisorRaises \/ RetentionFails
    BY <1>1, <1>11 DEF SupervisorRaises, RetentionFails, Go
<1>. QED
    BY <1>2, <1>3, <1>4, <1>5, <1>6, <1>7, <1>8, <1>9, <1>10, <1>11 DEF Supervisor

(* The runtime's steps: what they leave alone, and what they change. *)
LEMMA RuntimeTypes ==
    ASSUME TypeInv, Runtime
    PROVE  TypeInv'
<1>. USE DEF TypeInv, TypeOK, Surroundings
<1>1. UNCHANGED <<laneVars, flowVars, evidenceVars, lease, stop, revoked, poll, pending, steerTask>>
    BY DEF Runtime, OwnerLost, Cancel, SubmitSends, SubmitAnswered, SubmitReturns, TurnEnds, Emit,
           EmitCall, EmitRecorded, EmitTerminal, EmitOther, InterruptReturns, deliveryVars,
           inputVars, steerVars, sharedVars
<1>2. CallbackTypeOK'
    BY <1>1, LaneOperationTypes
<1>3. SharedTypeOK'
    BY <1>1 DEF Runtime, OwnerLost, Cancel, SubmitSends, SubmitAnswered, SubmitReturns, TurnEnds,
                Emit, EmitCall, EmitRecorded, EmitTerminal, EmitOther, InterruptReturns,
                sharedVars, SharedTypeOK
<1>4. InputTypeOK'
    <2>. USE DEF InputTypeOK, deliveryVars, inputVars, steerVars
    <2>1. CASE SubmitAnswered
        BY <2>1 DEF SubmitAnswered, Initial
    <2>2. CASE EmitRecorded
        BY <2>2, HeadTailProperties DEF EmitRecorded
    <2>3. CASE \/ OwnerLost \/ Cancel \/ SubmitSends \/ SubmitReturns \/ TurnEnds \/ EmitCall
               \/ EmitTerminal \/ EmitOther \/ InterruptReturns
        BY <2>3 DEF OwnerLost, Cancel, SubmitSends, SubmitReturns, TurnEnds, EmitCall,
                    EmitTerminal, EmitOther, InterruptReturns
    <2>. QED
        BY <2>1, <2>2, <2>3 DEF Runtime
<1>5. SupervisorTypeOK'
    <2>. USE <1>1 DEF SupervisorTypeOK, flowVars, stopVars, evidenceVars, turnVars
    <2>1. CASE OwnerLost \/ Cancel
        BY <2>1 DEF OwnerLost, Cancel
    <2>2. CASE SubmitSends \/ SubmitAnswered \/ SubmitReturns
        BY <2>2 DEF SubmitSends, SubmitAnswered, SubmitReturns
    <2>3. CASE TurnEnds
        BY <2>3 DEF TurnEnds
    <2>4. CASE EmitCall
        BY <2>4 DEF EmitCall, Emit, Events
    <2>5. CASE EmitRecorded
        BY <2>5, HeadTailProperties DEF EmitRecorded, Emit, Events, InputTypeOK
    <2>6. CASE EmitTerminal \/ EmitOther
        BY <2>6 DEF EmitTerminal, EmitOther, Emit, Events
    <2>7. CASE InterruptReturns
        BY <2>7 DEF InterruptReturns
    <2>. QED
        BY <2>1, <2>2, <2>3, <2>4, <2>5, <2>6, <2>7 DEF Runtime
<1>6. event # NoEvent => event' # NoEvent
    BY DEF Runtime, OwnerLost, Cancel, SubmitSends, SubmitAnswered, SubmitReturns, TurnEnds, Emit,
           EmitCall, EmitRecorded, EmitTerminal, EmitOther, InterruptReturns, Listening, turnVars
<1>7. BatchDone'
    BY <1>1, <1>6 DEF BatchDone, PollDone, laneVars, taskVars, flowVars
<1>. QED
    BY <1>2, <1>3, <1>4, <1>5, <1>7

(* The steps of everything else keep the types and the batch. *)
LEMMA OtherTypes ==
    ASSUME TypeInv, Callbacks \/ Inputs \/ Runtime
    PROVE  TypeInv'
<1>. USE DEF TypeInv, TypeOK
<1>1. CASE Callbacks
    <2>1. CallbackTypeOK'
        BY <1>1, CallbackNextTypes DEF Callbacks
    <2>2. InputTypeOK'
        BY <1>1, InputOperationTypes DEF Callbacks
    <2>3. SharedTypeOK' /\ SupervisorTypeOK'
        BY <1>1 DEF Callbacks, Flow, SharedTypeOK, SupervisorTypeOK, sharedVars, flowVars,
                    stopVars, evidenceVars, turnVars
    <2>4. step # "done"
        BY <1>1 DEF Callbacks, CallbackNext, CallbackOwner, CallbackAccept, CallbackChanged,
                    CallbackDispatch, CallbackSettle, CallbackRecord, CallbackRecheck,
                    CallbackReply, CallbackCancelled, CallbackFails, Advance, Awaiting
    <2>5. BatchDone'
        BY <1>1, <2>4 DEF Callbacks, Flow, BatchDone, PollDone, flowVars, turnVars, deliveryVars,
                    inputVars, steerVars
    <2>. QED
        BY <2>1, <2>2, <2>3, <2>5
<1>2. CASE Inputs
    <2>1. InputTypeOK'
        BY <1>2, InputNextTypes DEF Inputs
    <2>2. CallbackTypeOK'
        BY <1>2, LaneOperationTypes DEF Inputs
    <2>3. SharedTypeOK' /\ SupervisorTypeOK'
        BY <1>2 DEF Inputs, Flow, SharedTypeOK, SupervisorTypeOK, sharedVars, flowVars,
                    stopVars, evidenceVars, turnVars
    <2>4. PollDone => PollDone'
        BY <1>2 DEF Inputs, InputNext, InputArrives, PollCalls, PollReturns, SteerReaches,
                    SteerAnswers, PollDone, inputVars
    <2>5. steerTask = "done" => steerTask' = "done"
        BY <1>2 DEF Inputs, InputNext, InputArrives, PollCalls, PollReturns, SteerReaches,
                    SteerAnswers, steerVars
    <2>6. pending' = pending
        BY <1>2 DEF Inputs, InputNext, InputArrives, PollCalls, PollReturns, SteerReaches,
                    SteerAnswers, inputVars
    <2>7. BatchDone'
        BY <1>2, <2>4, <2>5, <2>6 DEF Inputs, Flow, BatchDone, flowVars, turnVars, laneVars, taskVars
    <2>. QED
        BY <2>1, <2>2, <2>3, <2>7
<1>3. CASE Runtime
    BY <1>3, RuntimeTypes
<1>. QED
    BY <1>1, <1>2, <1>3

LEMMA TypeInvInductive == Spec => []TypeInv
<1>1. Init => TypeInv
    <2>. SUFFICES ASSUME Init
                  PROVE  TypeInv
        OBVIOUS
    <2>1. CallbackTypeOK
        BY EmptySeq DEF Init, CallbackInit, CallbackTypeOK, Outcome
    <2>2. InputTypeOK
        BY SharedAssumption, EmptySeq DEF Init, InputInit, InputTypeOK, Checkpoints, Initial,
                                          DeliveryState, Disposition
    <2>3. SharedTypeOK /\ SupervisorTypeOK
        BY DEF Init, SharedInit, SharedTypeOK, SupervisorTypeOK, Places
    <2>4. BatchDone
        BY DEF Init, BatchDone
    <2>. QED
        BY <2>1, <2>2, <2>3, <2>4 DEF TypeInv, TypeOK
<1>2. TypeInv /\ [Next]_vars => TypeInv'
    <2>. SUFFICES ASSUME TypeInv, [Next]_vars
                  PROVE  TypeInv'
        OBVIOUS
    <2>1. CASE Supervisor \/ SupervisorRaises \/ RetentionFails
        <3>1. CallbackTypeOK'
            BY <2>1, SupervisorLane, LaneTypes DEF TypeInv, TypeOK
        <3>2. InputTypeOK'
            BY <2>1, SupervisorInputs, InputTypes
        <3>. QED
            BY <2>1, <3>1, <3>2, SupervisorFlow, SupervisorLatches, SupervisorBatch
               DEF TypeInv, TypeOK, SupervisorTypeOK, FlowTypeOK, LatchTypeOK
    <2>2. CASE Callbacks \/ Inputs \/ Runtime
        BY <2>2, OtherTypes
    <2>3. CASE UNCHANGED vars
        <3>1. CallbackTypeOK' /\ InputTypeOK'
            BY <2>3, LaneOperationTypes, InputOperationTypes DEF vars, TypeInv, TypeOK
        <3>2. SharedTypeOK' /\ SupervisorTypeOK'
            BY <2>3 DEF vars, TypeInv, TypeOK, SharedTypeOK, SupervisorTypeOK, sharedVars,
                        flowVars, stopVars, evidenceVars, turnVars
        <3>3. BatchDone'
            BY <2>3 DEF vars, TypeInv, BatchDone, PollDone, laneVars, taskVars, deliveryVars,
                        inputVars, steerVars, flowVars, turnVars
        <3>. QED
            BY <3>1, <3>2, <3>3 DEF TypeInv, TypeOK
    <2>. QED
        BY <2>1, <2>2, <2>3 DEF Next, Ended
<1>. QED
    BY <1>1, <1>2, PTL DEF Spec

(* Every reachable state of run_native is of the stated types. *)
THEOREM TypeCorrect == Spec => []TypeOK
<1>1. TypeInv => TypeOK
    BY DEF TypeInv
<1>. QED
    BY <1>1, TypeInvInductive, PTL

(* When the loop of run_native comes to a task asyncio.wait reported done, *)
(* that task is still done and its result not taken, whatever the handlers *)
(* before it awaited.                                                      *)
THEOREM HandlersFindResults == Spec => []BatchDone
<1>1. TypeInv => BatchDone
    BY DEF TypeInv
<1>. QED
    BY <1>1, TypeInvInductive, PTL

-----------------------------------------------------------------------------
(* The callback lane: no identity is dispatched twice, no reply leaves that*)
(* was not recorded, nothing is dispatched behind the fence, and the lane  *)
(* implements the abstract CallbackLedger.                                 *)

(* The lane's start: its task may still come to dispatch. *)
Undispatched == {"owner", "accept", "gate"}

(* What LaneInvariant needs to be inductive: the fence of stop() is        *)
(* awaited with the latch set, a fenced attempt is closed, and the task    *)
(* it found undispatched carries a cancellation, except in the instant     *)
(* between the last fence and finally, in which no task runs.              *)
FenceInvariant ==
    /\ at = "fence" => stop # "none"
    /\ fenced => Closed
    /\ fenced /\ step \in Undispatched => cancelReq \/ at = "drain"

LaneInv == TypeInv /\ LaneInvariant /\ DispatchOnce /\ ReplyFromLedger /\ FenceInvariant

-----------------------------------------------------------------------------
(* The latch and the way out are never undone. *)
LEMMA ClosedForGood ==
    ASSUME TypeInv, Next
    PROVE  Closed => Closed'
<1>. USE DEF Closed, Over, sharedVars, flowVars, Go, Raise, Decide, Then, Stop, StopReason
<1>1. CASE Arm \/ Admit \/ Wake \/ GraceExpires \/ Acknowledge \/ FenceReturns \/ PortReturns
    BY <1>1 DEF Arm, Admit, Wake, GraceExpires, GraceTerminal, Acknowledge, FenceReturns, PortReturns
<1>2. CASE HandleInterrupt \/ HandleCancel \/ HandlePoll \/ HandleCall \/ HandleRecorded
    BY <1>2 DEF HandleInterrupt, HandleCancel, HandlePoll, HandleCall, HandleRecorded, Handling
<1>3. CASE HandleTerminal \/ HandleOther \/ HandleCallback \/ HandleSteer
    BY <1>3 DEF HandleTerminal, HandleOther, HandleCallback, HandleSteer, Handling
<1>4. CASE SubmitAgain \/ PrepareSteer \/ Steer \/ Turnover
    BY <1>4 DEF SubmitAgain, PrepareSteer, Steer, Turnover, Handled
<1>5. CASE Record \/ Evidence \/ LastFence \/ Drain \/ Close \/ SupervisorRaises \/ RetentionFails
    BY <1>5 DEF Record, Evidence, AfterEvidence, LastFence, Drain, Close, SupervisorRaises,
                RetentionFails
<1>6. CASE Callbacks \/ Inputs \/ Runtime \/ Ended
    BY <1>6 DEF Callbacks, Inputs, Flow, Runtime, OwnerLost, Cancel, SubmitSends, SubmitAnswered,
                SubmitReturns, TurnEnds, Emit, EmitCall, EmitRecorded, EmitTerminal, EmitOther,
                InterruptReturns, Surroundings, Ended, vars
<1>. QED
    BY <1>1, <1>2, <1>3, <1>4, <1>5, <1>6 DEF Next, Supervisor

(* A step of the callback task. *)
CallbackInv == LaneInvariant /\ DispatchOnce /\ ReplyFromLedger

LEMMA CallbackSafe ==
    ASSUME TypeInv, CallbackInv, Callbacks
    PROVE  CallbackInv'
<1>. USE DEF CallbackInv, LaneInvariant, DispatchOnce, ReplyFromLedger, Unsettled, LaneFrame,
             Advance, Finish, journalVars, traceVars
<1>1. Closed' = Closed
    BY DEF Callbacks, Flow, Closed, sharedVars, flowVars
<1>2. CallbackTypeOK /\ CallbackTypeOK'
    BY OtherTypes DEF TypeInv, TypeOK
<1>3. step # "idle" => active \in Callback /\ active.id \in CallId /\ active # NoCall
    BY <1>2, CallbackAssumption DEF CallbackTypeOK, Callback
<1>4. CASE CallbackOwner
    BY <1>1, <1>4 DEF CallbackOwner
<1>5. CASE CallbackAccept
    BY <1>1, <1>2, <1>3, <1>5 DEF CallbackAccept, AfterAccept, CallbackTypeOK
<1>6. CASE CallbackChanged
    BY <1>1, <1>6 DEF CallbackChanged
<1>7. CASE CallbackDispatch
    BY <1>1, <1>2, <1>3, <1>7 DEF CallbackDispatch, CallbackTypeOK
<1>8. CASE CallbackSettle
    BY <1>1, <1>8 DEF CallbackSettle
<1>9. CASE CallbackRecord
    BY <1>1, <1>3, <1>9 DEF CallbackRecord
<1>10. CASE CallbackRecheck
    BY <1>1, <1>10 DEF CallbackRecheck, Receipt
<1>11. CASE CallbackReply
    BY <1>1, <1>11 DEF CallbackReply, Receipt
<1>12. CASE CallbackCancelled
    BY <1>1, <1>12 DEF CallbackCancelled, Awaiting
<1>13. CASE CallbackFails
    BY <1>1, <1>13 DEF CallbackFails, Awaiting
<1>. QED
    BY <1>4, <1>5, <1>6, <1>7, <1>8, <1>9, <1>10, <1>11, <1>12, <1>13 DEF Callbacks, CallbackNext

(* What the supervisor does to the lane. *)
LEMMA OperationsSafe ==
    ASSUME LaneInv, Supervisor \/ SupervisorRaises \/ RetentionFails
    PROVE  CallbackInv'
<1>. USE DEF LaneInv, CallbackInv, LaneInvariant, DispatchOnce, ReplyFromLedger, Unsettled,
             laneVars, taskVars, journalVars, traceVars
<1>1. Closed => Closed'
    BY ClosedForGood DEF Next
<1>2. CASE UNCHANGED laneVars
    BY <1>1, <1>2
<1>3. CASE at \notin Over /\ StartCallback
    BY <1>1, <1>2, <1>3 DEF StartCallback, Closed
<1>4. CASE at = "fence" /\ StopLane
    <2>1. Closed'
        BY <1>1, <1>4 DEF FenceInvariant, Closed
    <2>. QED
        BY <2>1, <1>4 DEF StopLane, CancelCallback
<1>5. CASE \E c \in Callback : EnqueueCallback(c)
    BY <1>1, <1>5 DEF EnqueueCallback
<1>6. CASE ForgetInvalid
    BY <1>1, <1>6 DEF ForgetInvalid
<1>7. CASE /\ step = "done" /\ outcome # "failed" /\ (outcome = "cancelled" => stop # "none")
           /\ CollectCallback
    <2>1. outcome \in Outcome
        BY DEF TypeInv, TypeOK, CallbackTypeOK
    <2>. QED
        BY <1>1, <1>7, <2>1 DEF CollectCallback, Outcome, Closed
<1>8. CASE /\ at = "drain"
           /\ CancelCallback
           /\ UNCHANGED <<queue, active, lastInvalid, step, outcome, journalVars, traceVars>>
    <2>1. Closed'
        BY <1>1, <1>8 DEF Closed, Over
    <2>. QED
        BY <2>1, <1>8 DEF CancelCallback
<1>. QED
    BY <1>2, <1>3, <1>4, <1>5, <1>6, <1>7, <1>8, SupervisorLane DEF LaneFootprint

(* The fence. *)
LEMMA FenceStart ==
    ASSUME TypeInv, FenceInvariant, Supervisor \/ SupervisorRaises \/ RetentionFails
    PROVE  /\ at' = "fence" => stop' # "none"
           /\ fenced' => fenced \/ at' = "drain" \/ (FenceReturns /\ stop' # "none")
           /\ at = "drain" => Drain
<1>. USE DEF FenceInvariant, evidenceVars, sharedVars, Over, Go, Raise, Decide, Then, Stop, StopReason
<1>1. CASE Arm \/ Admit \/ Wake \/ GraceExpires \/ Acknowledge \/ FenceReturns \/ PortReturns
    BY <1>1 DEF Arm, Admit, Wake, GraceExpires, GraceTerminal, Acknowledge, FenceReturns, PortReturns
<1>2. CASE HandleInterrupt \/ HandleCancel \/ HandlePoll \/ HandleCall \/ HandleRecorded
    BY <1>2 DEF HandleInterrupt, HandleCancel, HandlePoll, HandleCall, HandleRecorded, Handling
<1>3. CASE HandleTerminal \/ HandleOther \/ HandleCallback \/ HandleSteer
    BY <1>3 DEF HandleTerminal, HandleOther, HandleCallback, HandleSteer, Handling
<1>4. CASE SubmitAgain \/ PrepareSteer \/ Steer \/ Turnover
    BY <1>4 DEF SubmitAgain, PrepareSteer, Steer, Turnover, Handled
<1>5. CASE Record \/ Evidence \/ LastFence \/ Drain \/ Close \/ SupervisorRaises \/ RetentionFails
    BY <1>5 DEF Record, Evidence, AfterEvidence, LastFence, Drain, Close, SupervisorRaises,
                RetentionFails, Running
<1>. QED
    BY <1>1, <1>2, <1>3, <1>4, <1>5 DEF Supervisor

LEMMA FenceSafe ==
    ASSUME LaneInv, Next
    PROVE  FenceInvariant'
<1>. USE DEF LaneInv, FenceInvariant
<1>1. Closed => Closed'
    BY ClosedForGood
<1>2. CASE Callbacks
    <2>1. step' \in Undispatched => step \in Undispatched /\ ~cancelReq
        BY <1>2 DEF Callbacks, CallbackNext, CallbackOwner, CallbackAccept, AfterAccept,
                    CallbackChanged, CallbackDispatch, CallbackSettle, CallbackRecord,
                    CallbackRecheck, CallbackReply, CallbackCancelled, CallbackFails, Advance,
                    Finish, Undispatched
    <2>. QED
        BY <1>1, <1>2, <2>1 DEF Callbacks, Flow, Running, sharedVars, flowVars, evidenceVars
<1>3. CASE Inputs \/ Runtime \/ Ended
    <2>1. UNCHANGED <<laneVars, stop, at, fenced>>
        BY <1>3 DEF Inputs, Flow, Runtime, OwnerLost, Cancel, SubmitSends, SubmitAnswered,
                    SubmitReturns, TurnEnds, Emit, EmitCall, EmitRecorded, EmitTerminal, EmitOther,
                    InterruptReturns, Surroundings, Ended, vars, sharedVars, flowVars, evidenceVars
    <2>. QED
        BY <1>1, <2>1 DEF laneVars, taskVars
<1>4. CASE Supervisor \/ SupervisorRaises \/ RetentionFails
    <2>1. fenced' => Closed'
        BY <1>1, <1>4, FenceStart DEF Closed, Over
    <2>2. ASSUME fenced', step' \in Undispatched, at' # "drain"
          PROVE  cancelReq'
        <3>1. CASE FenceReturns
            BY <2>2, <3>1 DEF FenceReturns, StopLane, CancelCallback, Undispatched, Awaiting
        <3>2. CASE Drain
            BY <2>2, <3>2 DEF Drain, CancelCallback, Undispatched, Awaiting
        <3>3. CASE ~FenceReturns /\ ~Drain
            <4>1. fenced /\ at # "drain"
                BY <1>4, <2>2, <3>3, FenceStart
            <4>2. LaneFootprint
                BY <1>4, SupervisorLane
            <4>3. ~StartCallback \/ UNCHANGED laneVars \/ at \in Over
                BY <4>1 DEF StartCallback, Closed
            <4>4. step' = step /\ (cancelReq' = cancelReq \/ cancelReq' = (step \in Awaiting))
                BY <2>2, <4>2, <4>3
                   DEF LaneFootprint, StopLane, CancelCallback, EnqueueCallback, ForgetInvalid,
                       CollectCallback, laneVars, taskVars, Undispatched
            <4>. QED
                BY <2>2, <4>1, <4>4 DEF Undispatched, Awaiting
        <3>. QED
            BY <3>1, <3>2, <3>3
    <2>. QED
        BY <1>4, <2>1, <2>2, FenceStart
<1>. QED
    BY <1>2, <1>3, <1>4 DEF Next

-----------------------------------------------------------------------------
LEMMA LaneInvInductive == Spec => []LaneInv
<1>1. Init => CallbackInv /\ FenceInvariant
    BY DEF Init, SharedInit, CallbackInit, CallbackInv, LaneInvariant, DispatchOnce,
           ReplyFromLedger, Unsettled, FenceInvariant
<1>2. TypeInv /\ TypeInv' /\ LaneInv /\ [Next]_vars => LaneInv'
    <2>. SUFFICES ASSUME TypeInv', LaneInv, [Next]_vars
                  PROVE  CallbackInv' /\ FenceInvariant'
        BY DEF LaneInv, CallbackInv
    <2>. USE DEF LaneInv, CallbackInv
    <2>1. CASE Supervisor \/ SupervisorRaises \/ RetentionFails
        BY <2>1, OperationsSafe, FenceSafe DEF Next
    <2>2. CASE Callbacks
        BY <2>2, CallbackSafe, FenceSafe DEF Next
    <2>3. CASE Inputs \/ Runtime
        <3>1. UNCHANGED laneVars
            BY <2>3 DEF Inputs, Runtime, OwnerLost, Cancel, SubmitSends, SubmitAnswered,
                        SubmitReturns, TurnEnds, Emit, EmitCall, EmitRecorded, EmitTerminal,
                        EmitOther, InterruptReturns, Surroundings
        <3>2. Closed => Closed'
            BY <2>3, ClosedForGood DEF Next
        <3>. QED
            BY <2>3, <3>1, <3>2, FenceSafe
               DEF Next, LaneInvariant, DispatchOnce, ReplyFromLedger, Unsettled, laneVars,
                   taskVars, journalVars, traceVars
    <2>4. CASE UNCHANGED vars
        BY <2>4 DEF vars, LaneInvariant, DispatchOnce, ReplyFromLedger, Unsettled, FenceInvariant,
                    Closed, laneVars, taskVars, journalVars, traceVars, sharedVars, flowVars,
                    evidenceVars
    <2>. QED
        BY <2>1, <2>2, <2>3, <2>4 DEF Next, Ended
<1>. QED
    BY <1>1, <1>2, TypeInvInductive, PTL DEF Spec, LaneInv, CallbackInv

(* No call identity is ever dispatched twice in an attempt, however often  *)
(* the provider repeats it and whatever stops, fails or is cancelled.      *)
THEOREM NoSecondDispatch == Spec => []DispatchOnce
BY LaneInvInductive, PTL DEF LaneInv

(* Every reply on the native thread was recorded before, for an accepted   *)
(* call.                                                                   *)
THEOREM RepliesFromLedger == Spec => []ReplyFromLedger
BY LaneInvInductive, PTL DEF LaneInv

(* Only the active callback can be an entered effect without a recorded    *)
(* reply while the lane is open.                                           *)
THEOREM LaneCorrect == Spec => []LaneInvariant
BY LaneInvInductive, PTL DEF LaneInv

(* Nothing is dispatched once the attempt is fenced, by stop(), by the     *)
(* except clause or by a settled negative submission.                      *)
THEOREM NoDispatchBehindFence == Spec => DispatchBeforeFence
<1>1. LaneInv /\ [Next]_vars => [step # "dispatch" /\ step' = "dispatch" => ~fenced]_vars
    <2>. SUFFICES ASSUME LaneInv, Next, step # "dispatch", step' = "dispatch"
                  PROVE  ~fenced
        OBVIOUS
    <2>1. CASE Callbacks
        <3>1. step = "gate" /\ ~cancelReq
            BY <2>1 DEF Callbacks, CallbackNext, CallbackOwner, CallbackAccept, AfterAccept,
                        CallbackChanged, CallbackDispatch, CallbackSettle, CallbackRecord,
                        CallbackRecheck, CallbackReply, CallbackCancelled, CallbackFails, Advance,
                        Finish
        <3>. QED
            BY <2>1, <3>1 DEF Callbacks, Running, LaneInv, FenceInvariant, Undispatched
    <2>2. CASE Inputs \/ Runtime \/ Ended
        BY <2>2 DEF Inputs, Runtime, OwnerLost, Cancel, SubmitSends, SubmitAnswered,
                    SubmitReturns, TurnEnds, Emit, EmitCall, EmitRecorded, EmitTerminal,
                    EmitOther, InterruptReturns, Surroundings, Ended, vars, laneVars, taskVars
    <2>3. CASE Supervisor \/ SupervisorRaises \/ RetentionFails
        BY <2>3, SupervisorLane
           DEF LaneInv, LaneFootprint, StartCallback, StopLane, EnqueueCallback, ForgetInvalid,
               CollectCallback, laneVars, taskVars
    <2>. QED
        BY <2>1, <2>2, <2>3 DEF Next
<1>. QED
    BY <1>1, LaneInvInductive, PTL DEF Spec, DispatchBeforeFence

-----------------------------------------------------------------------------
(* The refinement: what the host is promised of one call identity. *)

StatusMap == [c \in CallId |-> CallStatus(c)]

LEMMA LedgerStep ==
    ASSUME LaneInv, LaneInv', Callbacks
    PROVE  Ledger!Next \/ UNCHANGED StatusMap
<1>. DEFINE c == active.id
<1>. USE DEF StatusMap, CallStatus, LaneFrame, Advance, Finish, journalVars, traceVars
<1>1. CallbackTypeOK /\ UNCHANGED <<revoked, active>>
    BY DEF LaneInv, TypeInv, TypeOK, Callbacks, Flow, sharedVars, CallbackNext, CallbackOwner,
           CallbackAccept, CallbackChanged, CallbackDispatch, CallbackSettle, CallbackRecord,
           CallbackRecheck, CallbackReply, CallbackCancelled, CallbackFails
<1>2. step # "idle" => active \in Callback /\ c \in CallId /\ active # NoCall
    BY <1>1, CallbackAssumption DEF CallbackTypeOK, Callback
<1>3. CASE UNCHANGED <<accepted, replies, dispatches, wire>>
    BY <1>3
<1>4. CASE CallbackAccept
    <2>1. CASE accepted[c] # NoCall
        BY <1>1, <1>2, <1>4, <2>1 DEF CallbackAccept, CallbackTypeOK
    <2>2. CASE accepted[c] = NoCall
        <3>1. c \notin replies /\ c \notin wire /\ dispatches[c] = 0
            BY <1>1, <1>2, <1>4, <2>2
               DEF CallbackAccept, LaneInv, LaneInvariant, ReplyFromLedger, Unsettled, CallbackTypeOK
        <3>2. /\ accepted'[c] # NoCall
              /\ \A d \in CallId \ {c} : accepted'[d] = accepted[d]
              /\ UNCHANGED <<replies, dispatches, wire>>
            BY <1>1, <1>2, <1>4, <2>2 DEF CallbackAccept, CallbackTypeOK
        <3>3. StatusMap' = [StatusMap EXCEPT ![c] = "accepted"] /\ StatusMap[c] = "new"
            BY <1>2, <1>4, <2>2, <3>1, <3>2 DEF CallbackAccept
        <3>. QED
            BY <1>1, <1>2, <1>4, <3>3 DEF CallbackAccept, Ledger!Next, Ledger!Accept, Ledger!Move
    <2>. QED
        BY <2>1, <2>2
<1>5. CASE CallbackDispatch
    <2>1. accepted[c] # NoCall /\ c \notin replies /\ c \notin wire /\ dispatches[c] = 0
        BY <1>1, <1>2, <1>5
           DEF CallbackDispatch, LaneInv, LaneInvariant, ReplyFromLedger, Unsettled, CallbackTypeOK
    <2>2. /\ dispatches'[c] = 1
          /\ \A d \in CallId \ {c} : dispatches'[d] = dispatches[d]
          /\ UNCHANGED <<accepted, replies, wire>>
        BY <1>1, <1>2, <1>5, <2>1 DEF CallbackDispatch, CallbackTypeOK
    <2>3. StatusMap' = [StatusMap EXCEPT ![c] = "entered"] /\ StatusMap[c] = "accepted"
        BY <1>2, <1>5, <2>1, <2>2 DEF CallbackDispatch
    <2>. QED
        BY <1>1, <1>2, <1>5, <2>3 DEF CallbackDispatch, Ledger!Next, Ledger!Enter, Ledger!Move
<1>6. CASE CallbackRecord
    <2>1. CASE c \in replies
        BY <1>1, <1>6, <2>1 DEF CallbackRecord
    <2>2. CASE c \notin replies
        <3>1. accepted[c] # NoCall /\ c \notin wire
            BY <1>6, <1>2, <2>2 DEF CallbackRecord, LaneInv, LaneInvariant, ReplyFromLedger
        <3>2. /\ StatusMap' = [StatusMap EXCEPT ![c] = "settled"]
              /\ StatusMap[c] \in {"accepted", "entered"}
            BY <1>1, <1>2, <1>6, <2>2, <3>1 DEF CallbackRecord
        <3>. QED
            BY <1>1, <1>2, <1>6, <3>2 DEF CallbackRecord, Ledger!Next, Ledger!Settle, Ledger!Move
    <2>. QED
        BY <2>1, <2>2
<1>7. CASE CallbackReply
    <2>1. CASE c \in wire
        BY <1>1, <1>7, <2>1 DEF CallbackReply
    <2>2. CASE c \notin wire
        <3>1. c \in replies /\ ~revoked
            BY <1>7 DEF CallbackReply, LaneInv, LaneInvariant
        <3>2. StatusMap' = [StatusMap EXCEPT ![c] = "sent"] /\ StatusMap[c] = "settled"
            BY <1>1, <1>2, <1>7, <2>2, <3>1 DEF CallbackReply
        <3>. QED
            BY <1>1, <1>2, <1>7, <3>1, <3>2 DEF CallbackReply, Ledger!Next, Ledger!Send, Ledger!Move
    <2>. QED
        BY <2>1, <2>2
<1>. QED
    BY <1>3, <1>4, <1>5, <1>6, <1>7
       DEF Callbacks, CallbackNext, CallbackOwner, CallbackChanged, CallbackSettle,
           CallbackRecheck, CallbackCancelled, CallbackFails

(* Nothing else touches the ledger, and revocation is for good. *)
LEMMA LedgerFrame ==
    ASSUME LaneInv, Next, ~Callbacks
    PROVE  UNCHANGED <<journalVars, dispatches, wire>> /\ (revoked => revoked')
<1>1. CASE Inputs \/ Runtime \/ Ended
    BY <1>1 DEF Inputs, Flow, Runtime, OwnerLost, Cancel, SubmitSends, SubmitAnswered,
                SubmitReturns, TurnEnds, Emit, EmitCall, EmitRecorded, EmitTerminal, EmitOther,
                InterruptReturns, Surroundings, Ended, vars, laneVars, traceVars, sharedVars
<1>2. CASE Supervisor \/ SupervisorRaises \/ RetentionFails
    <2>1. UNCHANGED <<journalVars, dispatches, wire>>
        BY <1>2, SupervisorLane
           DEF LaneInv, LaneFootprint, StartCallback, StopLane, EnqueueCallback, ForgetInvalid,
               CollectCallback, laneVars, traceVars
    <2>2. revoked => revoked'
        <3>. USE DEF Go, Raise, Decide, Then, Stop, sharedVars
        <3>1. CASE \/ Arm \/ Admit \/ Wake \/ GraceExpires \/ Acknowledge \/ FenceReturns
                   \/ PortReturns
            BY <3>1 DEF Arm, Admit, Wake, GraceExpires, GraceTerminal, Acknowledge, FenceReturns,
                        PortReturns
        <3>2. CASE HandleInterrupt \/ HandleCancel \/ HandlePoll \/ HandleCall \/ HandleRecorded
            BY <3>2 DEF HandleInterrupt, HandleCancel, HandlePoll, HandleCall, HandleRecorded
        <3>3. CASE HandleTerminal \/ HandleOther \/ HandleCallback \/ HandleSteer
            BY <3>3 DEF HandleTerminal, HandleOther, HandleCallback, HandleSteer
        <3>4. CASE SubmitAgain \/ PrepareSteer \/ Steer \/ Turnover
            BY <3>4 DEF SubmitAgain, PrepareSteer, Steer, Turnover
        <3>5. CASE \/ Record \/ Evidence \/ LastFence \/ Drain \/ Close \/ SupervisorRaises
                   \/ RetentionFails
            BY <3>5 DEF Record, Evidence, LastFence, Drain, Close, SupervisorRaises, RetentionFails
        <3>. QED
            BY <1>2, <3>1, <3>2, <3>3, <3>4, <3>5 DEF Supervisor
    <2>. QED
        BY <2>1, <2>2
<1>. QED
    BY <1>1, <1>2 DEF Next

(* The callback lane of run_native implements CallbackLedger: accepted     *)
(* before anything else, entered at most once, settled once, only a        *)
(* settled reply sent, and nothing sent once authority is revoked.         *)
THEOREM ImplementsLedger == Spec => LedgerSpec
<1>1. Init => Ledger!Init
    BY DEF Init, SharedInit, CallbackInit, CallStatus, Ledger!Init
<1>2. LaneInv /\ LaneInv' /\ [Next]_vars
      => [Ledger!Next]_<<[c \in CallId |-> CallStatus(c)], ~revoked>>
    <2>. SUFFICES ASSUME LaneInv, LaneInv', [Next]_vars
                  PROVE  Ledger!Next \/ UNCHANGED <<StatusMap, ~revoked>>
        BY DEF StatusMap
    <2>1. CASE Callbacks
        BY <2>1, LedgerStep DEF Callbacks, Flow, sharedVars
    <2>2. CASE UNCHANGED <<journalVars, dispatches, wire>> /\ (revoked => revoked')
        <3>1. UNCHANGED StatusMap
            BY <2>2 DEF StatusMap, CallStatus, journalVars
        <3>2. revoked \in BOOLEAN /\ revoked' \in BOOLEAN
            BY DEF LaneInv, TypeInv, TypeOK, SharedTypeOK
        <3>. QED
            BY <2>2, <3>1, <3>2 DEF StatusMap, Ledger!Next, Ledger!Revoke
    <2>3. Next /\ ~Callbacks => UNCHANGED <<journalVars, dispatches, wire>> /\ (revoked => revoked')
        BY LedgerFrame
    <2>4. UNCHANGED vars => UNCHANGED <<journalVars, dispatches, wire, revoked>>
        BY DEF vars, laneVars, traceVars, sharedVars
    <2>. QED
        BY <2>1, <2>2, <2>3, <2>4
<1>. QED
    BY <1>1, <1>2, LaneInvInductive, PTL DEF Spec, LedgerSpec, Ledger!Spec

-----------------------------------------------------------------------------
(* The ways out of an armed attempt: what run_native has decided, what it  *)
(* has given to the journal for it and whether the journal is fenced, at   *)
(* every await between the decision and the return.                        *)

Leaving  == {"drain", "gather", "ended"}
Evidenced == committed \cap {"native", "local"}

(* The decision is taken once, its evidence recorded once, and a terminal  *)
(* is latched only for an accepted submission.                             *)
ExitInv ==
    /\ at \notin Over => result = "none"
    /\ at \notin Over \/ at = "record" => Evidenced = {}
    /\ at \in {"evidence", "lastfence"} => result = "raised"
    /\ at \in Leaving => result # "none"
    /\ at \in Leaving /\ result \in {"native", "local"} => Evidenced = {result}
    /\ submission # "accepted" => latched = "none"

(* The steps of everything but the supervisor decide nothing.              *)
LEMMA OthersDecideNothing ==
    ASSUME Callbacks \/ Inputs \/ Runtime
    PROVE  /\ UNCHANGED <<flowVars, evidenceVars, armed, fenced, committed, at, result>>
           /\ \/ UNCHANGED <<submission, latched>>
              \/ submission # "accepted" /\ UNCHANGED latched
              \/ submission = "accepted" /\ UNCHANGED submission
<1>1. CASE Callbacks
    BY <1>1 DEF Callbacks, Flow, flowVars, evidenceVars, turnVars
<1>2. CASE Inputs
    BY <1>2 DEF Inputs, Flow, flowVars, evidenceVars, turnVars
<1>3. CASE Runtime
    <2>. USE DEF Surroundings, flowVars, evidenceVars, turnVars
    <2>1. CASE OwnerLost \/ Cancel \/ SubmitReturns \/ InterruptReturns
        BY <2>1 DEF OwnerLost, Cancel, SubmitReturns, InterruptReturns
    <2>2. CASE SubmitSends \/ SubmitAnswered
        BY <2>2 DEF SubmitSends, SubmitAnswered
    <2>3. CASE TurnEnds
        BY <2>3 DEF TurnEnds
    <2>4. CASE EmitCall \/ EmitRecorded \/ EmitTerminal \/ EmitOther
        BY <2>4 DEF EmitCall, EmitRecorded, EmitTerminal, EmitOther, Emit
    <2>. QED
        BY <1>3, <2>1, <2>2, <2>3, <2>4 DEF Runtime
<1>. QED
    BY <1>1, <1>2, <1>3

(* What the supervisor does to the evidence, await by await.               *)
LEMMA SupervisorExits ==
    ASSUME TypeInv, ExitInv, Supervisor \/ SupervisorRaises \/ RetentionFails
    PROVE  ExitInv'
<1>0. UNCHANGED <<submission, latched>>
    BY DEF Supervisor, Arm, Admit, Wake, GraceExpires, Acknowledge, FenceReturns, PortReturns,
           HandleInterrupt, HandleCancel, HandlePoll, HandleCall, HandleRecorded, HandleTerminal,
           HandleOther, HandleCallback, HandleSteer, SubmitAgain, PrepareSteer, Steer, Turnover,
           Record, Evidence, LastFence, Drain, Close, SupervisorRaises, RetentionFails, turnVars
<1>. USE <1>0 DEF ExitInv, Evidenced, Leaving, Over, Go, evidenceVars
<1>1. CASE Arm
    BY <1>1 DEF Arm, Raise
<1>2. CASE Admit
    BY <1>2 DEF Admit
<1>3. CASE Wake
    BY <1>3 DEF Wake
<1>4. CASE GraceExpires
    BY <1>4 DEF GraceExpires, GraceTerminal, Raise, Decide
<1>5. CASE Acknowledge
    BY <1>5 DEF Acknowledge, Raise
<1>6. CASE FenceReturns
    BY <1>6 DEF FenceReturns
<1>7. CASE PortReturns
    BY <1>7 DEF PortReturns
<1>8. CASE HandleInterrupt
    BY <1>8 DEF HandleInterrupt, Handling, Then
<1>9. CASE HandleCancel
    BY <1>9 DEF HandleCancel, Handling, Stop, Then
<1>10. CASE HandlePoll
    BY <1>10 DEF HandlePoll, Handling, Stop, Then
<1>11. CASE HandleCall
    BY <1>11 DEF HandleCall, Handling, Raise, Then
<1>12. CASE HandleRecorded
    BY <1>12 DEF HandleRecorded, Handling, Then
<1>13. CASE HandleTerminal
    BY <1>13 DEF HandleTerminal, Handling, Raise, Decide
<1>14. CASE HandleOther
    BY <1>14 DEF HandleOther, Handling, Raise, Then
<1>15. CASE HandleCallback
    BY <1>15 DEF HandleCallback, Handling, Raise, Stop, Then
<1>16. CASE HandleSteer
    BY <1>16 DEF HandleSteer, Handling, Raise, Then
<1>17. CASE SubmitAgain
    BY <1>17 DEF SubmitAgain, Handled
<1>18. CASE PrepareSteer
    BY <1>18 DEF PrepareSteer, Handled, Raise
<1>19. CASE Steer
    BY <1>19 DEF Steer
<1>20. CASE Turnover
    BY <1>20 DEF Turnover, Handled
<1>21. CASE Record
    <2>1. result \in {"native", "local"} /\ at' = "drain" /\ result' = result
        BY <1>21 DEF Record, TypeInv, BatchDone
    <2>2. Evidenced' = {result}
        BY <1>21, <2>1 DEF Record
    <2>. QED
        BY <1>21, <2>1, <2>2
<1>22. CASE Evidence
    BY <1>22 DEF Evidence, AfterEvidence
<1>23. CASE LastFence
    BY <1>23 DEF LastFence
<1>24. CASE Drain
    BY <1>24 DEF Drain
<1>25. CASE Close
    BY <1>25 DEF Close
<1>26. CASE SupervisorRaises
    BY <1>26 DEF SupervisorRaises, Running, Raise
<1>27. CASE RetentionFails
    BY <1>27 DEF RetentionFails
<1>. QED
    BY <1>1, <1>2, <1>3, <1>4, <1>5, <1>6, <1>7, <1>8, <1>9, <1>10, <1>11, <1>12, <1>13, <1>14,
       <1>15, <1>16, <1>17, <1>18, <1>19, <1>20, <1>21, <1>22, <1>23, <1>24, <1>25, <1>26, <1>27
       DEF Supervisor

LEMMA ExitInvInductive == Spec => []ExitInv
<1>1. Init => ExitInv
    BY DEF Init, ExitInv, Evidenced, Leaving, Over
<1>2. TypeInv /\ ExitInv /\ [Next]_vars => ExitInv'
    <2>. SUFFICES ASSUME TypeInv, ExitInv, [Next]_vars
                  PROVE  ExitInv'
        OBVIOUS
    <2>1. CASE Supervisor \/ SupervisorRaises \/ RetentionFails
        BY <2>1, SupervisorExits
    <2>2. CASE Callbacks \/ Inputs \/ Runtime
        BY <2>2, OthersDecideNothing DEF ExitInv, Evidenced
    <2>3. CASE UNCHANGED vars
        BY <2>3 DEF vars, flowVars, evidenceVars, turnVars, ExitInv, Evidenced
    <2>. QED
        BY <2>1, <2>2, <2>3 DEF Next, Ended
<1>. QED
    BY <1>1, <1>2, TypeInvInductive, PTL DEF Spec

(* Before run_native returns a terminal, the journal holds exactly that    *)
(* terminal's evidence, whatever stopped, failed or was cancelled.         *)
THEOREM TerminalsAreCommitted == Spec => []TruthCommitted
<1>1. ExitInv => TruthCommitted
    BY DEF ExitInv, TruthCommitted, Leaving, Evidenced
<1>. QED
    BY <1>1, ExitInvInductive, PTL

(* The steps that decide for the local terminal look at the latch.         *)
LEMMA LocalLooksAtTheLatch ==
    ASSUME ExitInv, [Next]_vars, result # "local", result' = "local"
    PROVE  latched \notin Native
<1>1. CASE GraceExpires
    <2>1. CASE phase = "loop"
        BY <1>1, <2>1 DEF GraceExpires, GraceTerminal, Decide, Raise
    <2>2. CASE phase # "loop"
        <3>1. submission = "uncertain"
            BY <1>1, <2>2 DEF GraceExpires, Decide, Raise, Go
        <3>. QED
            BY <3>1 DEF ExitInv, Native
    <2>. QED
        BY <2>1, <2>2
<1>2. CASE HandleTerminal
    BY <1>2 DEF HandleTerminal, Decide, Raise
<1>3. CASE Supervisor /\ ~GraceExpires /\ ~HandleTerminal
    <2>. USE DEF Go, Raise, Then, Stop
    <2>1. result' \in {result, "raised", "not_submitted"}
        BY <1>3 DEF Supervisor, Arm, Admit, Wake, Acknowledge, FenceReturns, PortReturns,
           HandleInterrupt, HandleCancel, HandlePoll, HandleCall, HandleRecorded,
           HandleOther, HandleCallback, HandleSteer, SubmitAgain, PrepareSteer, Steer, Turnover,
           Record, Evidence, LastFence, Drain, Close
    <2>. QED
        BY <2>1
<1>4. CASE SupervisorRaises \/ RetentionFails
    BY <1>4 DEF SupervisorRaises, RetentionFails, Raise, Go
<1>5. CASE Callbacks \/ Inputs \/ Runtime
    BY <1>5, OthersDecideNothing
<1>6. CASE UNCHANGED vars
    BY <1>6 DEF vars, flowVars
<1>. QED
    BY <1>1, <1>2, <1>3, <1>4, <1>5, <1>6 DEF Next, Ended

(* A local stop terminal is never returned over a latched native terminal. *)
THEOREM NativeTruthWins == Spec => TruthWins
<1>1. ExitInv /\ [Next]_vars => [result # "local" /\ result' = "local" => latched \notin Native]_vars
    BY LocalLooksAtTheLatch
<1>. QED
    BY <1>1, ExitInvInductive, PTL DEF Spec, TruthWins

-----------------------------------------------------------------------------
(* The fence.  A journal that fails inside the except clause and a foreign *)
(* terminal leave an attempt unfenced: without them, every failure fences. *)

FencedInv ==
    /\ latched # "foreign"
    /\ at \in Leaving /\ armed /\ result \in {"raised", "not_submitted"} => fenced

LEMMA SupervisorFences ==
    ASSUME "port_fault" \notin Env, TypeInv, ExitInv, FencedInv,
           Supervisor \/ SupervisorRaises \/ RetentionFails
    PROVE  FencedInv'
<1>0. UNCHANGED latched /\ ~SupervisorRaises /\ ~RetentionFails
    BY DEF Supervisor, Arm, Admit, Wake, GraceExpires, Acknowledge, FenceReturns, PortReturns,
           HandleInterrupt, HandleCancel, HandlePoll, HandleCall, HandleRecorded, HandleTerminal,
           HandleOther, HandleCallback, HandleSteer, SubmitAgain, PrepareSteer, Steer, Turnover,
           Record, Evidence, LastFence, Drain, Close, SupervisorRaises, RetentionFails, turnVars
<1>. USE <1>0 DEF FencedInv, ExitInv, Leaving, Over, Go, evidenceVars
<1>1. CASE Arm \/ Admit
    BY <1>1 DEF Arm, Admit, Raise
<1>2. CASE Wake \/ FenceReturns \/ PortReturns \/ SubmitAgain \/ Steer \/ Turnover
    BY <1>2 DEF Wake, FenceReturns, PortReturns, SubmitAgain, Steer, Turnover
<1>3. CASE GraceExpires
    BY <1>3 DEF GraceExpires, GraceTerminal, Raise, Decide
<1>4. CASE Acknowledge
    BY <1>4 DEF Acknowledge, Raise
<1>5. CASE HandleInterrupt \/ HandleCancel \/ HandlePoll \/ HandleRecorded
    BY <1>5 DEF HandleInterrupt, HandleCancel, HandlePoll, HandleRecorded, Stop, Then
<1>6. CASE HandleCall \/ HandleTerminal \/ HandleOther
    BY <1>6 DEF HandleCall, HandleTerminal, HandleOther, Raise, Decide, Then
<1>7. CASE HandleCallback \/ HandleSteer \/ PrepareSteer
    BY <1>7 DEF HandleCallback, HandleSteer, PrepareSteer, Raise, Stop, Then
<1>8. CASE Record
    BY <1>8 DEF Record, TypeInv, BatchDone
<1>9. CASE Evidence \/ LastFence
    BY <1>9 DEF Evidence, AfterEvidence, LastFence
<1>10. CASE Drain \/ Close
    BY <1>10 DEF Drain, Close
<1>. QED
    BY <1>1, <1>2, <1>3, <1>4, <1>5, <1>6, <1>7, <1>8, <1>9, <1>10 DEF Supervisor

(* Every way out of an armed attempt other than a recorded terminal leaves *)
(* the journal fenced, when its ports answer and its terminals are its own. *)
THEOREM FailuresAreFenced ==
    ASSUME "port_fault" \notin Env, "foreign_terminal" \notin Env
    PROVE  Spec => []FailureFences
<1>1. Init => FencedInv
    BY DEF Init, FencedInv, Leaving
<1>2. TypeInv /\ ExitInv /\ FencedInv /\ [Next]_vars => FencedInv'
    <2>. SUFFICES ASSUME TypeInv, ExitInv, FencedInv, [Next]_vars
                  PROVE  FencedInv'
        OBVIOUS
    <2>1. CASE Supervisor \/ SupervisorRaises \/ RetentionFails
        BY <2>1, SupervisorFences
    <2>2. CASE Callbacks \/ Inputs \/ Runtime
        <3>1. latched' # "foreign"
            BY <2>2 DEF Callbacks, Inputs, Flow, Runtime, OwnerLost, Cancel, SubmitSends,
                        SubmitAnswered, SubmitReturns, TurnEnds, EmitCall, EmitRecorded,
                        EmitTerminal, EmitOther, Emit, InterruptReturns, turnVars, FencedInv, Native
        <3>. QED
            BY <2>2, <3>1, OthersDecideNothing DEF FencedInv
    <2>3. CASE UNCHANGED vars
        BY <2>3 DEF vars, flowVars, evidenceVars, turnVars, FencedInv
    <2>. QED
        BY <2>1, <2>2, <2>3 DEF Next, Ended
<1>3. FencedInv => FailureFences
    BY DEF FencedInv, FailureFences, Leaving
<1>. QED
    BY <1>1, <1>2, <1>3, TypeInvInductive, ExitInvInductive, PTL DEF Spec
=============================================================================
