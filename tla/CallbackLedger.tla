---------------------------- MODULE CallbackLedger ----------------------------
(***************************************************************************)
(* What run_native promises a host about its callbacks, whatever the       *)
(* provider, the owner and the operator do (SPEC.md sections 10 and 11):   *)
(* "each callback is validation -> host acceptance -> dispatch -> durable  *)
(* result -> durable reply -> wire reply".  A call identity is accepted    *)
(* before anything else happens to it, its effect is entered at most once, *)
(* its reply is settled once and never changes, only a settled reply is    *)
(* sent, and once callback authority is revoked nothing is sent any more.  *)
(***************************************************************************)
CONSTANT Calls

VARIABLES status, authority

Status == {"new", "accepted", "entered", "settled", "sent"}

TypeOK == status \in [Calls -> Status] /\ authority \in BOOLEAN

Init == status = [c \in Calls |-> "new"] /\ authority = TRUE

Move(c, from, to) ==
    /\ status[c] \in from
    /\ status' = [status EXCEPT ![c] = to]

Accept(c) == Move(c, {"new"}, "accepted") /\ UNCHANGED authority
Enter(c)  == Move(c, {"accepted"}, "entered") /\ UNCHANGED authority
Settle(c) == Move(c, {"accepted", "entered"}, "settled") /\ UNCHANGED authority
Send(c)   == authority /\ Move(c, {"settled"}, "sent") /\ UNCHANGED authority
Revoke    == authority /\ authority' = FALSE /\ UNCHANGED status

Next == Revoke \/ \E c \in Calls : Accept(c) \/ Enter(c) \/ Settle(c) \/ Send(c)

Spec == Init /\ [][Next]_<<status, authority>>
=============================================================================
