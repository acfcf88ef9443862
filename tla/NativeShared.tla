----------------------------- MODULE NativeShared -----------------------------
(***************************************************************************)
(* What every task of one run_native call shares (native.py:224-251):      *)
(* the stop latch, the revocable turn handle, the owner permit and the     *)
(* cancellation token.  The modules NativeCallbacks and NativeInputs model *)
(* the tasks that read these variables; NativeSupervisor models the        *)
(* coroutine that writes them.                                             *)
(***************************************************************************)
EXTENDS Naturals

CONSTANTS
    Env,         \* which faults and inputs the surroundings may produce
    NumInputs    \* host inputs that may arrive while the turn runs

EnvLabels == {"cancel", "preempt", "owner_loss", "port_fault", "commentary",
              "chatter", "misuse", "stream_end", "foreign_terminal", "steer_unknown",
              "ack_withheld"}

ASSUME SharedAssumption == Env \subseteq EnvLabels /\ NumInputs \in Nat

InputIds    == 1..NumInputs
Checkpoints == 0..NumInputs

VARIABLES
    stop,       \* stop_reason: "none" until the first stop
    revoked,    \* turn.revoke() has been called
    owned,      \* OwnerPort.require_current still accepts the permit
    cancelled   \* CancellationToken.cancelled

sharedVars == <<stop, revoked, owned, cancelled>>

StopReason == {"cancelled", "preempt", "no_progress"}

SharedTypeOK ==
    /\ stop \in StopReason \cup {"none"}
    /\ revoked \in BOOLEAN
    /\ owned \in BOOLEAN
    /\ cancelled \in BOOLEAN

SharedInit ==
    /\ stop = "none"
    /\ revoked = FALSE
    /\ owned = TRUE
    /\ cancelled = FALSE
=============================================================================
