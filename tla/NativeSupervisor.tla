--------------------------- MODULE NativeSupervisor ---------------------------
(***************************************************************************)
(* run_native (native.py:159-669): the coroutine that supervises one       *)
(* native attempt, composed with its callback lane (NativeCallbacks), its  *)
(* input lane (NativeInputs) and the runtime's turn handle.                *)
(*                                                                         *)
(* `at' names the await the coroutine is suspended in.  asyncio.wait       *)
(* returns every task that is done when it resumes: Wake captures them as  *)
(* `batch', and the Handle actions take them in the order of the code.     *)
(* asyncio runs a coroutine to its next await: while the supervisor is in  *)
(* Running nothing else in the process moves, while it awaits a port (a    *)
(* journal, the owner, a message, the fence) everything else may.          *)
(* The calls made before arm (lookup of own sealed truth, plan and session *)
(* checks, 178-223) touch none of this state.                              *)
(***************************************************************************)
EXTENDS NativeCallbacks, NativeInputs

CONSTANTS
    PendingCalls,   \* definition.control.pending_calls
    MaxArrivals,    \* bound: tool calls the provider emits in the turn
    NoEvent         \* next_event is not done

ASSUME SupervisorAssumption == PendingCalls \in Nat \ {0} /\ MaxArrivals \in Nat

VARIABLES
    at,           \* where run_native is suspended
    phase,        \* "submit" until the submission is accepted, then "loop"
    batch,        \* tasks asyncio.wait reported done and not handled yet
    result,       \* what run_native has decided to return; "none" before
    grace,        \* stop_deadline is set
    interrupt,    \* interrupt_task
    armed,        \* journal.arm returned
    fenced,       \* journal.fence returned
    committed,    \* kinds of evidence given to journal.record_outcome
    submission,   \* runtime: turn.submission
    submit,       \* submit_task
    event,        \* the value of a completed next_event
    latched,      \* runtime: turn.terminal
    arrivals,     \* tool calls emitted so far
    lease         \* the session: "live" until finally, then "kept" or "discarded"

flowVars     == <<at, phase, batch, result>>
stopVars     == <<grace, interrupt>>
evidenceVars == <<armed, fenced, committed>>
turnVars     == <<submission, submit, event, latched, arrivals>>
vars == <<sharedVars, laneVars, deliveryVars, flowVars, stopVars, evidenceVars,
          turnVars, lease>>

(* The supervisor no longer takes work: it has decided or raised. *)
Over   == {"record", "evidence", "lastfence", "drain", "gather", "ended"}
Places == {"arm", "admit", "wait", "batch", "port", "fence", "acknowledge",
           "prepared", "turnover"} \cup Over
Running == {"batch", "turnover", "drain", "ended"}
Task   == {"interrupt", "event", "callback", "cancel", "poll", "steer"}
Native == {"succeeded", "failed"}          \* sealed evidence of this attempt
Events == ({"call"} \X CallId \X Body) \cup ({"recorded"} \X SUBSET InputIds)
          \cup ({"terminal", "end", "misuse", "commentary", "usage"} \X {0})

ASSUME EventAssumption == NoEvent \notin Events

SupervisorTypeOK ==
    /\ at \in Places
    /\ phase \in {"submit", "loop"}
    /\ batch \subseteq Task
    /\ result \in {"none", "native", "local", "not_submitted", "raised"}
    /\ grace \in BOOLEAN
    /\ interrupt \in {"none", "flying", "done"}
    /\ armed \in BOOLEAN
    /\ fenced \in BOOLEAN
    /\ committed \subseteq {"submission", "native", "local", "control"}
    /\ submission \in {"none", "sent", "accepted", "uncertain", "not_submitted"}
    /\ submit \in {"none", "flying", "done"}
    /\ event \in Events \cup {NoEvent}
    /\ latched \in Native \cup {"none", "local", "foreign"}
    /\ arrivals \in Nat
    /\ lease \in {"live", "kept", "discarded"}

TypeOK == SharedTypeOK /\ CallbackTypeOK /\ InputTypeOK /\ SupervisorTypeOK

Init ==
    /\ SharedInit /\ CallbackInit /\ InputInit
    /\ at = "arm"
    /\ phase = "submit"
    /\ batch = {}
    /\ result = "none"
    /\ grace = FALSE
    /\ interrupt = "none"
    /\ armed = FALSE
    /\ fenced = FALSE
    /\ committed = {}
    /\ submission = "none"
    /\ submit = "none"
    /\ event = NoEvent
    /\ latched = "none"
    /\ arrivals = 0
    /\ lease = "live"

-----------------------------------------------------------------------------
(* The surroundings: the runtime's turn handle and reader, the provider's  *)
(* stream, the owner, the cancellation token.                              *)

Surroundings == UNCHANGED <<laneVars, flowVars, stopVars, evidenceVars, lease>>

OwnerLost ==
    /\ "owner_loss" \in Env
    /\ owned
    /\ owned' = FALSE
    /\ Surroundings /\ UNCHANGED <<stop, revoked, cancelled, deliveryVars, turnVars>>

Cancel ==
    /\ "cancel" \in Env
    /\ ~cancelled
    /\ cancelled' = TRUE
    /\ Surroundings /\ UNCHANGED <<stop, revoked, owned, deliveryVars, turnVars>>

(* turn.submit(): nothing leaves on a revoked handle; once sent, the       *)
(* outcome is accepted, unknown, or withheld.                              *)
SubmitSends ==
    /\ submit = "flying"
    /\ submission = "none"
    /\ submission' = IF revoked THEN "not_submitted" ELSE "sent"
    /\ Surroundings /\ UNCHANGED <<sharedVars, deliveryVars, submit, event, latched, arrivals>>

SubmitAnswered ==
    /\ submit = "flying"
    /\ \/ submission = "sent" /\ submission' \in {"accepted", "not_submitted"}
       \/ /\ "ack_withheld" \in Env
          /\ submission = "sent" /\ submission' = "uncertain"
       \/ submission = "uncertain" /\ submission' = "accepted"
    /\ echo' = IF submission' = "accepted" THEN Append(echo, Initial) ELSE echo
    /\ Surroundings
    /\ UNCHANGED <<sharedVars, inputVars, steering, steerTask, disposition, deliveries,
                   deliveryCp, delivered, deliveredCp, submit, event, latched, arrivals>>

SubmitReturns ==
    /\ submit = "flying"
    /\ submission \in {"accepted", "uncertain", "not_submitted"}
    /\ submit' = "done"
    /\ Surroundings
    /\ UNCHANGED <<sharedVars, deliveryVars, submission, event, latched, arrivals>>

(* The reader latches a terminal as soon as it reads it, ahead of the      *)
(* events the supervisor has not taken from the stream yet.                *)
TurnEnds ==
    /\ submission = "accepted"
    /\ latched = "none"
    /\ latched' \in Native \cup {"local"}
         \cup (IF "foreign_terminal" \in Env THEN {"foreign"} ELSE {})
    /\ Surroundings
    /\ UNCHANGED <<sharedVars, deliveryVars, submission, submit, event, arrivals>>

Listening == phase = "loop" /\ event = NoEvent /\ at \notin Over

Emit(e) ==
    /\ Listening
    /\ event' = e
    /\ Surroundings /\ UNCHANGED <<sharedVars, submission, submit, latched>>

EmitCall ==
    /\ arrivals < MaxArrivals
    /\ arrivals' = arrivals + 1
    /\ \E c \in CallId, b \in Body : Emit(<<"call", c, b>>)
    /\ UNCHANGED deliveryVars

EmitRecorded ==
    /\ echo # <<>>
    /\ Emit(<<"recorded", Head(echo)>>)
    /\ echo' = Tail(echo)
    /\ UNCHANGED <<arrivals, inputVars, steering, steerTask, disposition, deliveries,
                   deliveryCp, delivered, deliveredCp>>

EmitTerminal ==
    /\ latched # "none"
    /\ Emit(<<"terminal", 0>>)
    /\ UNCHANGED <<arrivals, deliveryVars>>

(* usage, text and native items; completed commentary; authority activity  *)
(* that was never declared or an event of another turn; the stream's end.  *)
EmitOther ==
    /\ \E kind \in (Env \cap {"commentary", "misuse"})
               \cup (IF "chatter" \in Env THEN {"usage"} ELSE {})
               \cup (IF "stream_end" \in Env THEN {"end"} ELSE {}) : Emit(<<kind, 0>>)
    /\ UNCHANGED <<arrivals, deliveryVars>>

InterruptReturns ==
    /\ interrupt = "flying"
    /\ interrupt' = "done"
    /\ UNCHANGED <<sharedVars, laneVars, deliveryVars, flowVars, grace, evidenceVars,
                   turnVars, lease>>

-----------------------------------------------------------------------------
(* Leaving the try block.  A raise revokes the handle and, once armed,     *)
(* goes to the except clause; a return goes to finally.                    *)
Raise ==
    /\ at' = IF armed THEN "evidence" ELSE "drain"
    /\ result' = "raised"
    /\ batch' = {}
    /\ revoked' = TRUE
    /\ UNCHANGED <<phase, stop, owned, cancelled>>

Decide(what) ==
    /\ at' = "record"
    /\ result' = what
    /\ batch' = {}
    /\ UNCHANGED <<phase, sharedVars>>

(* stop(): the latch and the revocation; the fence is awaited next. *)
Stop(reason) ==
    /\ stop' = reason
    /\ revoked' = TRUE
    /\ at' = "fence"
    /\ UNCHANGED <<owned, cancelled, phase, result>>

Go(place) == at' = place /\ UNCHANGED <<phase, batch, result, sharedVars>>

(* journal.arm after an owner check *)
Arm ==
    /\ at = "arm"
    /\ IF owned THEN Go("admit") /\ armed' = TRUE
                ELSE Raise /\ UNCHANGED armed
    /\ UNCHANGED <<laneVars, deliveryVars, stopVars, fenced, committed, turnVars, lease>>

(* The initial delivery is recorded, inputs are polled once, and the       *)
(* submit, poll and cancellation tasks are created.                        *)
Admit ==
    /\ at = "admit"
    /\ \E preempt \in BOOLEAN :
          /\ preempt => "preempt" \in Env
          /\ revoked' = (revoked \/ cancelled \/ preempt)
          /\ pending' = IF preempt \/ arrived = 0 THEN NoBatch ELSE After(checkpoint)
    /\ poll' = Asleep
    /\ submit' = "flying"
    /\ at' = "wait"
    /\ UNCHANGED <<laneVars, arrived, checkpoint, steerVars, phase, batch, result, stopVars,
                   evidenceVars, stop, owned, cancelled, submission, event, latched, arrivals,
                   lease>>

Done(t) ==
    CASE t = "interrupt" -> interrupt = "done"
      [] t = "event"     -> event # NoEvent
      [] t = "callback"  -> step = "done"
      [] t = "cancel"    -> cancelled /\ stop = "none"
      [] t = "poll"      -> PollDone /\ (phase = "loop" \/ stop = "none")
      [] t = "steer"     -> steerTask = "done"

Ready  == {t \in Task : Done(t)}
Waking == Ready # {} \/ (phase = "submit" /\ submit = "done")

Wake ==
    /\ at = "wait"
    /\ Waking
    /\ batch' = Ready
    /\ at' = "batch"
    /\ UNCHANGED <<phase, result, sharedVars, laneVars, deliveryVars, stopVars, evidenceVars,
                   turnVars, lease>>

(* Mutant: the local stop is returned without looking at turn.terminal. *)
GraceTerminalLocal == Decide("local")

(* "Reader-latched native truth wins an expired local stop grace." *)
GraceTerminal == IF latched \in Native THEN Decide("native")
                 ELSE IF latched = "foreign" THEN Raise ELSE Decide("local")

(* asyncio.wait timed out with nothing done: the stop grace is over. *)
GraceExpires ==
    /\ at = "wait"
    /\ grace
    /\ ~Waking
    /\ IF phase = "loop"
       THEN GraceTerminal
       ELSE IF submission = "accepted" THEN Go("acknowledge")
            ELSE IF submission = "uncertain" THEN Decide("local") ELSE Raise
    /\ UNCHANGED <<laneVars, deliveryVars, stopVars, evidenceVars, turnVars, lease>>

(* The await of submit_task after the submit loop, and what its outcome    *)
(* leads to: settled negative proof, an unresolved attempt, or the stream. *)
Acknowledge ==
    /\ at = "acknowledge"
    /\ submit = "done"
    /\ IF submission = "accepted"
       THEN /\ phase' = "loop"
            /\ at' = "wait"
            /\ UNCHANGED <<batch, result, sharedVars, fenced, committed>>
       ELSE /\ committed' = committed \cup {"submission"}
            /\ IF submission = "uncertain"
               THEN Raise /\ UNCHANGED fenced
               ELSE /\ fenced' = TRUE
                    /\ at' = "drain"
                    /\ result' = "not_submitted"
                    /\ UNCHANGED <<phase, batch, sharedVars>>
    /\ UNCHANGED <<laneVars, deliveryVars, stopVars, armed, turnVars, lease>>

-----------------------------------------------------------------------------
(* Handling one task of the batch. *)

(* The order in which the loop looks at what is done. *)
Rank == IF phase = "submit"
        THEN [cancel |-> 1, poll |-> 2, interrupt |-> 3, event |-> 4, callback |-> 4, steer |-> 4]
        ELSE [interrupt |-> 1, event |-> 2, callback |-> 3, cancel |-> 4, poll |-> 5, steer |-> 6]

Handling(t) == at = "batch" /\ t \in batch /\ \A u \in batch : Rank[t] <= Rank[u]

Taken(t) == batch' = batch \ {t}

Then(t, place) == at' = place /\ Taken(t) /\ UNCHANGED <<phase, result, sharedVars>>

(* The port awaited inside a handler answers. *)
PortReturns ==
    /\ at = "port"
    /\ Go("batch")
    /\ UNCHANGED <<laneVars, deliveryVars, stopVars, evidenceVars, turnVars, lease>>

(* stop_deadline and interrupt_task *)
StartGrace == interrupt' = "flying" /\ grace' = TRUE

(* The rest of stop(), after the await of its fence. *)
FenceReturns ==
    /\ at = "fence"
    /\ fenced' = TRUE
    /\ StopLane
    /\ StartGrace
    /\ Go("batch")
    /\ UNCHANGED <<deliveryVars, armed, committed, turnVars, lease>>

HandleInterrupt ==
    /\ Handling("interrupt")
    /\ interrupt' = "none"
    /\ committed' = committed \cup {"control"}
    /\ Then("interrupt", "port")
    /\ UNCHANGED <<laneVars, deliveryVars, grace, armed, fenced, turnVars, lease>>

(* Mutant: a cancellation waits for the submission. *)
HeedCancelLater == stop = "none" /\ phase = "loop" /\ latched = "none"

(* In the main loop a latched terminal outruns the cancellation. *)
HeedCancel == stop = "none" /\ (phase = "submit" \/ latched = "none")

HandleCancel ==
    /\ Handling("cancel")
    /\ IF HeedCancel
       THEN Stop("cancelled") /\ Taken("cancel")
       ELSE Then("cancel", "batch")
    /\ UNCHANGED <<laneVars, deliveryVars, stopVars, evidenceVars, turnVars, lease>>

HandlePoll ==
    /\ Handling("poll")
    /\ IF phase = "submit" /\ stop # "none"
       THEN Then("poll", "batch") /\ UNCHANGED deliveryVars
       ELSE /\ ObservePoll
            /\ IF poll.preempt /\ stop = "none"
               THEN Stop("preempt") /\ Taken("poll")
               ELSE Then("poll", "batch")
    /\ UNCHANGED <<laneVars, stopVars, evidenceVars, turnVars, lease>>

(* An AgentToolCall is queued with the lineage delivered so far, unless    *)
(* the queue is full or a stop has latched.                                *)
HandleCall ==
    LET full == Len(queue) + (IF active = NoCall THEN 0 ELSE 1) + 1 > PendingCalls
        call == [id |-> event[2], body |-> event[3], ids |-> delivered, cp |-> deliveredCp]
    IN  /\ Handling("event")
        /\ event[1] = "call"
        /\ event' = NoEvent
        /\ IF stop # "none" THEN Then("event", "batch") /\ UNCHANGED laneVars
           ELSE IF full THEN Raise /\ UNCHANGED laneVars
           ELSE /\ Then("event", "batch")
                /\ EnqueueCallback(call)
                /\ Hear(event[2], <<delivered, deliveredCp>>)
        /\ UNCHANGED <<deliveryVars, stopVars, evidenceVars, submission, submit, latched,
                       arrivals, lease>>

HandleRecorded ==
    /\ Handling("event")
    /\ event[1] = "recorded"
    /\ event' = NoEvent
    /\ RecordInput(event[2])
    /\ ForgetInvalid
    /\ Then("event", "port")
    /\ UNCHANGED <<stopVars, evidenceVars, submission, submit, latched, arrivals, lease>>

HandleTerminal ==
    /\ Handling("event")
    /\ event[1] = "terminal"
    /\ event' = NoEvent
    /\ IF latched = "foreign" THEN Raise
       ELSE IF latched \in Native THEN Decide("native") ELSE Decide("local")
    /\ UNCHANGED <<laneVars, deliveryVars, stopVars, evidenceVars, submission, submit, latched,
                   arrivals, lease>>

HandleOther ==
    /\ Handling("event")
    /\ event[1] \in {"end", "misuse", "commentary", "usage"}
    /\ event' = NoEvent
    /\ IF event[1] = "commentary" /\ stop = "none"
       THEN Then("event", "port") /\ ForgetInvalid
       ELSE /\ UNCHANGED laneVars
            /\ IF event[1] \in {"end", "misuse"} THEN Raise ELSE Then("event", "batch")
    /\ UNCHANGED <<deliveryVars, stopVars, evidenceVars, submission, submit, latched, arrivals,
                   lease>>

(* callback_task.result() re-raises a failure, and a cancellation nobody   *)
(* asked stop() for.                                                       *)
HandleCallback ==
    /\ Handling("callback")
    /\ IF outcome = "failed" \/ (outcome = "cancelled" /\ stop = "none")
       THEN Raise /\ UNCHANGED laneVars
       ELSE /\ CollectCallback
            /\ IF NoProgress /\ stop = "none"
               THEN Stop("no_progress") /\ Taken("callback")
               ELSE Then("callback", "batch")
    /\ UNCHANGED <<deliveryVars, stopVars, evidenceVars, turnVars, lease>>

HandleSteer ==
    /\ Handling("steer")
    /\ committed' = committed \cup {"control"}
    /\ CollectSteer
    /\ IF Unresolved /\ stop = "none" THEN Raise ELSE Then("steer", "port")
    /\ UNCHANGED <<laneVars, stopVars, armed, fenced, turnVars, lease>>

-----------------------------------------------------------------------------
(* The end of one pass through the loop: the submit loop tests its task,   *)
(* the main loop steers what is pending and starts the next callback.      *)

Handled == at = "batch" /\ batch = {}

SubmitAgain ==
    /\ Handled
    /\ phase = "submit"
    /\ Go(IF submit = "done" THEN "acknowledge" ELSE "wait")
    /\ UNCHANGED <<laneVars, deliveryVars, stopVars, evidenceVars, turnVars, lease>>

PrepareSteer ==
    /\ Handled
    /\ phase = "loop"
    /\ SteerDue /\ stop = "none"
    /\ IF Repeated \/ ~owned
       THEN Raise /\ UNCHANGED deliveryVars
       ELSE Go("prepared") /\ RecordPrepared
    /\ UNCHANGED <<laneVars, stopVars, evidenceVars, turnVars, lease>>

Steer ==
    /\ at = "prepared"
    /\ LaunchSteer
    /\ ForgetInvalid
    /\ Go("turnover")
    /\ UNCHANGED <<stopVars, evidenceVars, turnVars, lease>>

(* Mutant: a call is attributed to inputs when its callback starts. *)
TurnoverAttributes ==
    /\ \/ at = "turnover"
       \/ Handled /\ phase = "loop" /\ ~(SteerDue /\ stop = "none")
    /\ IF step = "idle" /\ queue # <<>> /\ stop = "none"
       THEN /\ active' = [Head(queue) EXCEPT !.ids = delivered, !.cp = deliveredCp]
            /\ queue' = Tail(queue)
            /\ step' = "owner"
            /\ UNCHANGED <<outcome, cancelReq, lastInvalid, journalVars, traceVars>>
       ELSE UNCHANGED laneVars
    /\ Go("wait")
    /\ UNCHANGED <<deliveryVars, stopVars, evidenceVars, turnVars, lease>>

Turnover ==
    /\ \/ at = "turnover"
       \/ Handled /\ phase = "loop" /\ ~(SteerDue /\ stop = "none")
    /\ StartCallback
    /\ Go("wait")
    /\ UNCHANGED <<deliveryVars, stopVars, evidenceVars, turnVars, lease>>

-----------------------------------------------------------------------------
(* The way out. *)

(* Mutant: the terminal is returned before it is recorded. *)
RecordNothing ==
    /\ at = "record"
    /\ Go("drain")
    /\ UNCHANGED <<laneVars, deliveryVars, stopVars, evidenceVars, turnVars, lease>>

(* record_outcome of the decided terminal, then return; an uncertain       *)
(* submission is recorded before the local terminal.                       *)
Record ==
    /\ at = "record"
    /\ committed' = committed \cup {result}
                    \cup (IF phase = "submit" THEN {"submission"} ELSE {})
    /\ Go("drain")
    /\ UNCHANGED <<laneVars, deliveryVars, stopVars, armed, fenced, turnVars, lease>>

(* Mutant: an attempt whose native terminal is retained is not fenced. *)
AfterEvidenceKnown == IF latched = "none" THEN "lastfence" ELSE "drain"

(* Mutant: an unanswered submission is awaited again. *)
AfterEvidenceAwaits == IF latched = "foreign" THEN "drain"
                       ELSE IF submission = "sent" THEN "acknowledge" ELSE "lastfence"

AfterEvidence == IF latched = "foreign" THEN "drain" ELSE "lastfence"

(* The except clause: retain the latched native truth or the submission,   *)
(* then fence.  A terminal that fails _require_terminal raises here too,   *)
(* and then nothing is retained and nothing is fenced.                     *)
Evidence ==
    /\ at = "evidence"
    /\ committed' = IF latched = "foreign" THEN committed
                    ELSE IF latched \in Native THEN committed \cup {"native"}
                    ELSE IF submission \in {"none", "sent"} THEN committed
                    ELSE committed \cup {"submission"}
    /\ Go(AfterEvidence)
    /\ UNCHANGED <<laneVars, deliveryVars, stopVars, armed, fenced, turnVars, lease>>

LastFence ==
    /\ at = "lastfence"
    /\ fenced' = TRUE
    /\ Go("drain")
    /\ UNCHANGED <<laneVars, deliveryVars, stopVars, armed, committed, turnVars, lease>>

(* finally: every task is cancelled; a callback may still be settling. *)
Drain ==
    /\ at = "drain"
    /\ CancelCallback
    /\ DropInputTasks
    /\ interrupt' = "none"
    /\ submit' = "none"
    /\ event' = NoEvent
    /\ Go("gather")
    /\ UNCHANGED <<queue, active, lastInvalid, step, outcome, journalVars, traceVars, grace,
                   evidenceVars, submission, latched, arrivals, lease>>

(* gather returned: the handle is closed and the session is kept only      *)
(* after a successful native terminal.                                     *)
Close ==
    /\ at = "gather"
    /\ step \in {"idle", "done"}
    /\ \/ lease' = "discarded"
       \/ lease' = "kept" /\ result = "native" /\ latched = "succeeded"
    /\ Go("ended")
    /\ UNCHANGED <<laneVars, deliveryVars, stopVars, evidenceVars, turnVars>>

(* A host port raises at an await of the try block, or run_native's own    *)
(* task is cancelled there.                                                *)
SupervisorRaises ==
    /\ "port_fault" \in Env
    /\ at \notin (Over \ {"record"}) \cup Running
    /\ Raise
    /\ UNCHANGED <<laneVars, deliveryVars, stopVars, evidenceVars, turnVars, lease>>

(* Retention or fencing fails inside the except clause: a note is added    *)
(* and the original error propagates.                                      *)
RetentionFails ==
    /\ "port_fault" \in Env
    /\ at \in {"evidence", "lastfence"}
    /\ Go("drain")
    /\ UNCHANGED <<laneVars, deliveryVars, stopVars, evidenceVars, turnVars, lease>>

Ended == at = "ended" /\ UNCHANGED vars

-----------------------------------------------------------------------------
Flow == UNCHANGED <<sharedVars, flowVars, stopVars, evidenceVars, turnVars, lease>>

Callbacks == at \notin Running /\ CallbackNext /\ Flow /\ UNCHANGED deliveryVars

Inputs == at \notin Running /\ InputNext /\ Flow /\ UNCHANGED laneVars

Runtime == /\ at \notin Running
           /\ \/ OwnerLost \/ Cancel \/ SubmitSends \/ SubmitAnswered \/ SubmitReturns
              \/ TurnEnds \/ EmitCall \/ EmitRecorded \/ EmitTerminal \/ EmitOther
              \/ InterruptReturns

Supervisor == \/ Arm \/ Admit \/ Wake \/ GraceExpires \/ Acknowledge \/ FenceReturns \/ PortReturns
              \/ HandleInterrupt \/ HandleCancel \/ HandlePoll \/ HandleCall
              \/ HandleRecorded \/ HandleTerminal \/ HandleOther \/ HandleCallback
              \/ HandleSteer \/ SubmitAgain \/ PrepareSteer \/ Steer \/ Turnover
              \/ Record \/ Evidence \/ LastFence \/ Drain \/ Close

Next == Supervisor \/ SupervisorRaises \/ RetentionFails \/ Callbacks \/ Inputs \/ Runtime \/ Ended

Spec == Init /\ [][Next]_vars
=============================================================================
