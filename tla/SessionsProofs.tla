---------------------------- MODULE SessionsProofs ----------------------------
(***************************************************************************)
(* CodexProvider for any number of hosts, of concurrent shutdowns and of   *)
(* sessions.  First the shutdown: when one reports no error nothing is     *)
(* leased or being opened, then or later.  Then the leases: whose they     *)
(* are, and which sessions and directories exist for them.                 *)
(***************************************************************************)
EXTENDS Sessions, SequenceTheorems, FiniteSetTheorems, TLAPS

Functional ==
    /\ at = [t \in Tasks |-> at[t]]
    /\ call = [t \in Tasks |-> call[t]]
    /\ target = [t \in Tasks |-> target[t]]
    /\ todo = [t \in Tasks |-> todo[t]]
    /\ failed = [t \in Tasks |-> failed[t]]
    /\ outcome = [t \in Tasks |-> outcome[t]]

(* The lock is held over the opening of a session, and a closed provider   *)
(* opens none.                                                             *)
Locked ==
    /\ \A t \in Tasks : at[t] = "opening" => holder = t
    /\ closed => \A t \in Tasks : at[t] # "opening"

(* What the shutdown of t has still to discard.                            *)
Left(t) == todo[t] \cup (IF at[t] \in {"drop", "drop_wait"} THEN {target[t]} ELSE {})

(* A shutdown in progress has closed the provider, and whatever is leased  *)
(* it will still come to, unless something has failed on the way.          *)
InOrder(t) ==
    /\ at[t] \in {"shut", "shut_wait", "next"} => call[t] = "shutdown"
    /\ call[t] = "shutdown" /\ at[t] \in {"next", "drop", "drop_wait", "closing"}
          => closed /\ (failed[t] \/ live \subseteq Left(t))
    /\ outcome[t] = "shut" => closed /\ live = {}

Shutting == \A t \in Tasks : InOrder(t)

ShutdownInv == None \notin Tasks /\ Functional /\ Locked /\ Shutting

(* Taking the lock needs it to be free.                                    *)
LEMMA EnterFree ==
    ASSUME NEW t \in Tasks, NEW place \in {"drop", "open", "shut"}, Enter(t, place)
    PROVE  /\ holder = None
           /\ at[t] = place \/ at[t] = WaitFor[place]
BY DEF Enter, Free

(* A step of t that closes nothing and leases nothing leaves what every    *)
(* other task has to discard as it was.                                    *)
LEMMA OthersUnmoved ==
    ASSUME ShutdownInv, NEW t \in Tasks,
           \A u \in Tasks \ {t} : /\ at'[u] = at[u] /\ call'[u] = call[u]
                                  /\ target'[u] = target[u] /\ todo'[u] = todo[u]
                                  /\ failed'[u] = failed[u] /\ outcome'[u] = outcome[u],
           closed => closed' /\ live' \subseteq live
    PROVE  \A u \in Tasks \ {t} : InOrder(u)'
BY DEF ShutdownInv, Shutting, InOrder, Left

(* So its own state decides whether the invariant is kept.                 *)
LEMMA OneMoves ==
    ASSUME ShutdownInv, NEW t \in Tasks,
           \A u \in Tasks \ {t} : /\ at'[u] = at[u] /\ call'[u] = call[u]
                                  /\ target'[u] = target[u] /\ todo'[u] = todo[u]
                                  /\ failed'[u] = failed[u] /\ outcome'[u] = outcome[u],
           closed => closed' /\ live' \subseteq live,
           Functional', Locked', InOrder(t)'
    PROVE  ShutdownInv'
BY OthersUnmoved DEF ShutdownInv, Shutting

-----------------------------------------------------------------------------
LEMMA RequestsKeep ==
    ASSUME ShutdownInv,
           \/ \E h \in Hosts : Requests(h)
           \/ \E k \in Closers : Shutdown(k)
    PROVE  ShutdownInv'
<1>. USE DEF ShutdownInv
<1>1. ASSUME NEW h \in Hosts, NEW c, Reuse(h, c)
      PROVE  ShutdownInv'
    BY <1>1 DEF Reuse, Functional, Locked, Shutting, InOrder, Left, provider, Tasks
<1>2. ASSUME NEW t \in Tasks, NEW what \in {"acquire", "discard", "shutdown"},
             NEW place \in {"open", "drop", "shut"}, Begin(t, what, place),
             what = "shutdown" <=> place = "shut",
             target' = target \/ target' = [target EXCEPT ![t] = held[t]]
      PROVE  ShutdownInv'
    <2>1. /\ UNCHANGED <<closed, live, holder, todo, failed>>
          /\ at' = [at EXCEPT ![t] = place] /\ call' = [call EXCEPT ![t] = what]
          /\ outcome' = [outcome EXCEPT ![t] = "nothing"]
        BY <1>2 DEF Begin, provider
    <2>2. Functional'
        BY <1>2, <2>1 DEF Functional
    <2>3. Locked'
        BY <2>1 DEF Locked, Functional
    <2>4. /\ at'[t] = place /\ call'[t] = what /\ outcome'[t] = "nothing"
          /\ \A u \in Tasks \ {t} : /\ at'[u] = at[u] /\ call'[u] = call[u]
                                    /\ target'[u] = target[u] /\ todo'[u] = todo[u]
                                    /\ failed'[u] = failed[u] /\ outcome'[u] = outcome[u]
        BY <1>2, <2>1 DEF Functional
    <2>5. InOrder(t)'
        BY <1>2, <2>1, <2>2, <2>3, <2>4 DEF Shutting, InOrder
    <2>. QED
        BY <1>2, <2>1, <2>2, <2>3, <2>4, <2>5, OneMoves
<1>3. ASSUME NEW h \in Hosts, Requests(h)
      PROVE  ShutdownInv'
    <2>1. h \in Tasks
        BY DEF Tasks
    <2>. QED
        BY <1>1, <1>2, <1>3, <2>1 DEF Requests, Acquire, OpenIsolated, Discard
<1>4. ASSUME NEW k \in Closers, Shutdown(k)
      PROVE  ShutdownInv'
    <2>1. k \in Tasks
        BY DEF Tasks
    <2>. QED
        BY <1>2, <1>4, <2>1 DEF Shutdown
<1>. QED
    BY <1>3, <1>4

-----------------------------------------------------------------------------
(* How a discard ends for the one that called it.                          *)
LEMMA DroppedMoves ==
    ASSUME ShutdownInv, NEW t \in Tasks, NEW ok \in BOOLEAN, Dropped(t, ok)
    PROVE  /\ Functional'
           /\ \A u \in Tasks \ {t} : /\ at'[u] = at[u] /\ call'[u] = call[u]
                                     /\ target'[u] = target[u] /\ todo'[u] = todo[u]
                                     /\ failed'[u] = failed[u] /\ outcome'[u] = outcome[u]
           /\ at'[t] \in {"open", "next", "idle"}
           /\ at'[t] = "next" => /\ call[t] = "shutdown" /\ call'[t] = "shutdown"
                                 /\ todo'[t] = todo[t] /\ failed'[t] = (failed[t] \/ ~ok)
           /\ outcome'[t] \in {outcome[t], "nothing"}
<1>. USE DEF ShutdownInv, Functional, Turn
<1>1. CASE call[t] = "acquire" /\ ok
    BY <1>1 DEF Dropped
<1>2. CASE call[t] = "shutdown"
    BY <1>2 DEF Dropped
<1>3. CASE ~(call[t] = "acquire" /\ ok) /\ call[t] # "shutdown"
    BY <1>3 DEF Dropped, End
<1>. QED
    BY <1>1, <1>2, <1>3

(* Ending a call without having shut down.                                 *)
LEMMA EndMoves ==
    ASSUME ShutdownInv, NEW t \in Tasks, NEW how, End(t, how)
    PROVE  /\ Functional'
           /\ \A u \in Tasks \ {t} : /\ at'[u] = at[u] /\ call'[u] = call[u]
                                     /\ target'[u] = target[u] /\ todo'[u] = todo[u]
                                     /\ failed'[u] = failed[u] /\ outcome'[u] = outcome[u]
           /\ at'[t] = "idle" /\ call'[t] = "none" /\ outcome'[t] = how
BY DEF ShutdownInv, Functional, End

LEMMA StepsKeep ==
    ASSUME ShutdownInv, NEW t \in Tasks, Steps(t) \/ CancelWait(t)
    PROVE  ShutdownInv'
<1>. USE DEF ShutdownInv
<1>. DEFINE Same == \A u \in Tasks \ {t} : /\ at'[u] = at[u] /\ call'[u] = call[u]
                                           /\ target'[u] = target[u] /\ todo'[u] = todo[u]
                                           /\ failed'[u] = failed[u] /\ outcome'[u] = outcome[u]
<1>1. CASE Wait(t)
    <2>1. /\ UNCHANGED <<closed, live, holder, call, target, todo, failed, outcome>>
          /\ at[t] \in {"drop", "open", "shut"}
          /\ at' = [at EXCEPT ![t] = WaitFor[at[t]]]
        BY <1>1 DEF Wait, Turn, WaitFor
    <2>2. Same /\ Functional' /\ at'[t] = WaitFor[at[t]]
        BY <2>1 DEF Functional
    <2>3. at'[t] # "opening" /\ (at'[t] = "shut_wait" => at[t] = "shut")
          /\ (at'[t] = "drop_wait" => at[t] = "drop")
          /\ at'[t] \in {"drop_wait", "open_wait", "shut_wait"}
        BY <2>1, <2>2 DEF WaitFor
    <2>4. Locked'
        BY <2>1, <2>2, <2>3 DEF Locked
    <2>5. InOrder(t)'
        BY <2>1, <2>2, <2>3, <2>4 DEF Shutting, InOrder, Left
    <2>. QED
        BY <2>1, <2>2, <2>3, <2>4, <2>5, OneMoves
<1>2. CASE DropEnters(t)
    <2>1. UNCHANGED <<closed, holder>> /\ at[t] \in {"drop", "drop_wait"}
        BY <1>2, EnterFree DEF DropEnters, WaitFor
    <2>2. CASE target[t] \in live
        <3>1. /\ live' = live \ {target[t]} /\ at' = [at EXCEPT ![t] = "closing"]
              /\ UNCHANGED <<call, target, todo, failed, outcome>>
            BY <1>2, <2>2 DEF DropEnters, Active, Turn
        <3>2. Same /\ Functional' /\ at'[t] = "closing"
            BY <3>1 DEF Functional
        <3>3. Locked'
            BY <2>1, <3>1, <3>2 DEF Locked
        <3>4. call'[t] = "shutdown" => closed' /\ (failed'[t] \/ live' \subseteq Left(t)')
            BY <2>1, <3>1, <3>2 DEF Shutting, InOrder, Left
        <3>5. InOrder(t)'
            BY <2>1, <3>1, <3>2, <3>3, <3>4 DEF Shutting, InOrder
        <3>. QED
            BY <2>1, <3>1, <3>2, <3>3, <3>4, <3>5, OneMoves
    <2>3. CASE target[t] \notin live
        <3>1. live' = live /\ Dropped(t, TRUE)
            BY <1>2, <2>3 DEF DropEnters, Active
        <3>2. Same /\ Functional' /\ at'[t] \in {"open", "next", "idle"}
            BY <3>1, DroppedMoves
        <3>3. Locked'
            BY <2>1, <3>1, <3>2 DEF Locked
        <3>4. at'[t] = "next" => call'[t] = "shutdown"
                                 /\ closed' /\ (failed'[t] \/ live' \subseteq Left(t)')
            BY <2>1, <2>3, <3>1, DroppedMoves DEF Shutting, InOrder, Left
        <3>5. InOrder(t)'
            BY <2>1, <3>1, <3>2, <3>3, <3>4, DroppedMoves DEF Shutting, InOrder
        <3>. QED
            BY <2>1, <3>1, <3>2, <3>3, <3>4, <3>5, OneMoves
    <2>. QED
        BY <2>2, <2>3
<1>3. CASE CloseReturns(t)
    <2>1. UNCHANGED <<closed, live, holder>> /\ at[t] = "closing"
        BY <1>3 DEF CloseReturns, provider
    <2>2. PICK ok \in BOOLEAN : Dropped(t, ok)
        BY <1>3 DEF CloseReturns
    <2>3. Same /\ Functional' /\ at'[t] \in {"open", "next", "idle"}
        BY <2>2, DroppedMoves
    <2>4. Locked'
        BY <2>1, <2>3 DEF Locked
    <2>5. at'[t] = "next" => call'[t] = "shutdown"
                             /\ closed' /\ (failed'[t] \/ live' \subseteq Left(t)')
        BY <2>1, <2>2, DroppedMoves DEF Shutting, InOrder, Left
    <2>6. InOrder(t)'
        BY <2>1, <2>2, <2>3, <2>4, <2>5, DroppedMoves DEF Shutting, InOrder
    <2>. QED
        BY <2>1, <2>2, <2>3, <2>4, <2>5, <2>6, OneMoves
<1>4. CASE OpenEnters(t)
    <2>1. UNCHANGED <<closed, live>> /\ holder = None
        BY <1>4, EnterFree DEF OpenEnters
    <2>2. CASE closed
        <3>1. End(t, "nothing") /\ holder' = holder
            BY <1>4, <2>2 DEF OpenEnters, MayOpen
        <3>2. Same /\ Functional' /\ at'[t] = "idle" /\ call'[t] = "none" /\ outcome'[t] = "nothing"
            BY <3>1, EndMoves
        <3>3. Locked'
            BY <2>1, <3>1, <3>2 DEF Locked
        <3>4. InOrder(t)'
            BY <2>1, <3>2, <3>3 DEF Shutting, InOrder
        <3>. QED
            BY <2>1, <3>2, <3>3, <3>4, OneMoves
    <2>3. CASE ~closed
        <3>1. /\ \E l : target' = [target EXCEPT ![t] = l]
              /\ holder' = t /\ at' = [at EXCEPT ![t] = "opening"]
              /\ UNCHANGED <<call, todo, failed, outcome>>
            BY <1>4, <2>3 DEF OpenEnters, MayOpen, Turn
        <3>2. Same /\ Functional' /\ at'[t] = "opening"
            BY <3>1 DEF Functional
        <3>3. Locked'
            BY <2>1, <2>3, <3>1, <3>2 DEF Locked
        <3>4. InOrder(t)'
            BY <2>1, <2>3, <3>1, <3>2, <3>3 DEF Shutting, InOrder
        <3>. QED
            BY <2>1, <2>3, <3>1, <3>2, <3>3, <3>4, OneMoves
    <2>. QED
        BY <2>2, <2>3
<1>5. CASE OpenReturns(t) \/ OpenFails(t)
    <2>1. /\ at[t] = "opening" /\ closed' = closed /\ holder' = None
          /\ \E how \in {"acquired", "nothing"} : End(t, how)
        BY <1>5 DEF OpenReturns, OpenFails, OpenAborts
    <2>2. ~closed /\ \A u \in Tasks \ {t} : at[u] # "opening"
        BY <2>1 DEF Locked
    <2>3. /\ Same /\ Functional' /\ at'[t] = "idle" /\ call'[t] = "none"
          /\ outcome'[t] \in {"acquired", "nothing"}
        BY <2>1, EndMoves
    <2>4. Locked'
        BY <2>1, <2>2, <2>3 DEF Locked
    <2>5. InOrder(t)'
        BY <2>1, <2>2, <2>3, <2>4 DEF Shutting, InOrder
    <2>. QED
        BY <2>1, <2>2, <2>3, <2>4, <2>5, OneMoves
<1>6. CASE ShutEnters(t)
    <2>1. UNCHANGED <<live, holder>> /\ holder = None /\ at[t] \in {"shut", "shut_wait"}
        BY <1>6, EnterFree DEF ShutEnters, WaitFor
    <2>2. \A u \in Tasks : at[u] # "opening"
        BY <2>1 DEF Locked
    <2>3. CASE closed
        <3>1. End(t, "nothing") /\ closed' = closed
            BY <1>6, <2>3 DEF ShutEnters
        <3>2. Same /\ Functional' /\ at'[t] = "idle" /\ call'[t] = "none" /\ outcome'[t] = "nothing"
            BY <3>1, EndMoves
        <3>3. Locked'
            BY <2>1, <2>2, <3>1, <3>2 DEF Locked
        <3>4. InOrder(t)'
            BY <2>1, <3>1, <3>2, <3>3 DEF Shutting, InOrder
        <3>. QED
            BY <2>1, <3>1, <3>2, <3>3, <3>4, OneMoves
    <2>4. CASE ~closed
        <3>1. /\ closed' = TRUE /\ todo' = [todo EXCEPT ![t] = live]
              /\ at' = [at EXCEPT ![t] = "next"]
              /\ UNCHANGED <<call, target, failed, outcome>>
            BY <1>6, <2>4 DEF ShutEnters, Turn
        <3>2. Same /\ Functional' /\ at'[t] = "next" /\ todo'[t] = live /\ call'[t] = call[t]
            BY <3>1 DEF Functional
        <3>3. Locked'
            BY <2>1, <2>2, <3>1, <3>2 DEF Locked
        <3>4. call'[t] = "shutdown" /\ closed' /\ live' \subseteq Left(t)'
            BY <2>1, <3>1, <3>2 DEF Shutting, InOrder, Left
        <3>5. outcome'[t] # "shut"
            BY <2>4, <3>1 DEF Shutting, InOrder
        <3>6. InOrder(t)'
            BY <2>1, <2>4, <3>2, <3>3, <3>4, <3>5 DEF Shutting, InOrder
        <3>. QED
            BY <2>1, <2>4, <3>2, <3>3, <3>4, <3>5, <3>6, OneMoves
    <2>. QED
        BY <2>3, <2>4
<1>7. CASE ShutNext(t)
    <2>1. UNCHANGED <<closed, live, holder>> /\ at[t] = "next" /\ call[t] = "shutdown" /\ closed
        BY <1>7 DEF ShutNext, provider, Shutting, InOrder
    <2>2. failed[t] \/ live \subseteq todo[t]
        BY <2>1 DEF Shutting, InOrder, Left
    <2>3. CASE todo[t] = {} /\ End(t, IF failed[t] THEN "nothing" ELSE "shut")
        <3>1. /\ Same /\ Functional' /\ at'[t] = "idle" /\ call'[t] = "none"
              /\ outcome'[t] = IF failed[t] THEN "nothing" ELSE "shut"
            BY <2>3, EndMoves
        <3>2. Locked'
            BY <2>1, <3>1 DEF Locked
        <3>3. InOrder(t)'
            BY <2>1, <2>2, <2>3, <3>1, <3>2 DEF Shutting, InOrder
        <3>. QED
            BY <2>1, <2>2, <2>3, <3>1, <3>2, <3>3, OneMoves
    <2>4. ASSUME NEW s \in todo[t],
                 target' = [target EXCEPT ![t] = s], todo' = [todo EXCEPT ![t] = @ \ {s}],
                 at' = [at EXCEPT ![t] = "drop"], UNCHANGED <<call, failed, outcome>>
          PROVE  ShutdownInv'
        <3>1. Same /\ Functional' /\ at'[t] = "drop" /\ target'[t] = s /\ todo'[t] = todo[t] \ {s}
            BY <2>4 DEF Functional
        <3>2. Locked'
            BY <2>1, <3>1 DEF Locked
        <3>3. failed'[t] \/ live' \subseteq Left(t)'
            BY <2>1, <2>2, <2>4, <3>1 DEF Left
        <3>4. InOrder(t)'
            BY <2>1, <2>4, <3>1, <3>2, <3>3 DEF Shutting, InOrder
        <3>. QED
            BY <2>1, <2>4, <3>1, <3>2, <3>3, <3>4, OneMoves
    <2>. QED
        BY <1>7, <2>3, <2>4 DEF ShutNext, Turn
<1>8. CASE CancelWait(t)
    <2>1. UNCHANGED <<closed, live, holder>> /\ at[t] \in {"drop_wait", "open_wait", "shut_wait"}
        BY <1>8 DEF CancelWait, Waiting
    <2>2. CASE Dropped(t, FALSE) /\ at[t] = "drop_wait"
        <3>1. Same /\ Functional' /\ at'[t] \in {"open", "next", "idle"}
            BY <2>2, DroppedMoves
        <3>2. Locked'
            BY <2>1, <3>1 DEF Locked
        <3>3. at'[t] = "next" => call'[t] = "shutdown" /\ closed' /\ failed'[t]
            BY <2>1, <2>2, DroppedMoves DEF Shutting, InOrder
        <3>4. InOrder(t)'
            BY <2>1, <2>2, <3>1, <3>2, <3>3, DroppedMoves DEF Shutting, InOrder
        <3>. QED
            BY <2>1, <2>2, <3>1, <3>2, <3>3, <3>4, OneMoves
    <2>3. CASE End(t, "nothing")
        <3>1. Same /\ Functional' /\ at'[t] = "idle" /\ call'[t] = "none" /\ outcome'[t] = "nothing"
            BY <2>3, EndMoves
        <3>2. Locked'
            BY <2>1, <3>1 DEF Locked
        <3>3. InOrder(t)'
            BY <2>1, <3>1, <3>2 DEF Shutting, InOrder
        <3>. QED
            BY <2>1, <3>1, <3>2, <3>3, OneMoves
    <2>. QED
        BY <1>8, <2>2, <2>3 DEF CancelWait
<1>. QED
    BY <1>1, <1>2, <1>3, <1>4, <1>5, <1>6, <1>7, <1>8 DEF Steps

LEMMA ShutdownInvInductive == Spec => []ShutdownInv
<1>1. Init => ShutdownInv
    BY SessionsAssumption DEF Init, ShutdownInv, Functional, Locked, Shutting, InOrder, Tasks
<1>2. ShutdownInv /\ [Next]_vars => ShutdownInv'
    <2>. SUFFICES ASSUME ShutdownInv, [Next]_vars
                  PROVE  ShutdownInv'
        OBVIOUS
    <2>1. CASE UNCHANGED vars
        BY <2>1 DEF vars, provider, hosts, ShutdownInv, Functional, Locked, Shutting, InOrder, Left
    <2>. QED
        BY <2>1, RequestsKeep, StepsKeep DEF Next
<1>. QED
    BY <1>1, <1>2, PTL DEF Spec

(* When a shutdown returns without an error nothing is leased or being     *)
(* opened, then or at any later time, whatever was being opened, discarded *)
(* or cancelled when it was called.                                        *)
THEOREM NothingOutlivesShutdown == Spec => []ShutdownCloses
<1>1. ShutdownInv => ShutdownCloses
    BY DEF ShutdownInv, Locked, Shutting, InOrder, ShutdownCloses
<1>. QED
    BY <1>1, ShutdownInvInductive, PTL

-----------------------------------------------------------------------------
(* Whose the leases are.                                                   *)

CallsTyped ==
    /\ at \in [Tasks -> Running \cup Waiting \cup {"idle", "closing", "opening"}]
    /\ call \in [Tasks -> {"none", "acquire", "discard", "shutdown"}]
    /\ target \in [Tasks -> Lease \cup {None}]
    /\ todo \in [Tasks -> SUBSET Lease]
    /\ failed \in [Tasks -> BOOLEAN]
    /\ outcome \in [Tasks -> {"nothing", "acquired", "shut"}]
    /\ want \in [Tasks -> Contracts \cup {"isolated", None}]

Typed ==
    /\ closed \in BOOLEAN /\ live \subseteq Lease
    /\ sessions \subseteq Ids /\ cwd \subseteq Ids /\ lost \subseteq Ids
    /\ holder \in Tasks \cup {None}
    /\ CallsTyped
    /\ held \in [Tasks -> Lease \cup {None}]

Once(q) == \A i, j \in DOMAIN q : q[i] = q[j] => i = j

(* Everyone who waits stands in line, once.                                *)
Lined ==
    /\ \A t \in Tasks : holder = t <=> at[t] = "opening"
    /\ queue \in Seq(Tasks)
    /\ Once(queue)
    /\ \A t \in Tasks : t \in Range(queue) <=> at[t] \in Waiting

(* A host calls for the lease in its hands, or for a new one.              *)
HostFormed(h) ==
    /\ call[h] \in {"none", "acquire", "discard"}
    /\ outcome[h] # "shut"
    /\ at[h] = "idle" <=> call[h] = "none"
    /\ at[h] \in {"idle", "drop", "drop_wait", "closing"} \/ call[h] = "acquire"
    /\ at[h] \notin {"shut", "shut_wait", "next"}
    /\ at[h] \in {"drop", "drop_wait", "closing"} => held[h] # None /\ target[h] = held[h]
    /\ at[h] # "opening" => target[h] \in {None, held[h]}
    /\ at[h] = "opening" => target[h] # None /\ target[h][2] = want[h]
    /\ call[h] = "acquire" => want[h] \in Contracts \cup {"isolated"}
    /\ outcome[h] = "acquired" => at[h] = "idle" /\ held[h] # None /\ held[h][2] = want[h]

(* It has lost the one that it replaces, and keeps the one it was given.   *)
HostLeased(h) ==
    /\ at[h] \in {"open", "open_wait", "opening"} => held[h] \notin live
    /\ outcome[h] = "acquired" => held[h] \in live \/ closed

(* A shutdown discards what it has found.                                  *)
CloserFormed(k) ==
    /\ call[k] \in {"none", "shutdown"}
    /\ outcome[k] # "acquired" /\ held[k] = None
    /\ at[k] = "idle" <=> call[k] = "none"
    /\ at[k] \notin {"open", "open_wait", "opening"}
    /\ at[k] \in {"drop", "drop_wait", "closing"} => target[k] # None
    /\ target[k] # None => closed

(* No two leases have the same session, while anyone knows of them.        *)
Apart ==
    /\ \A l \in live : \E h \in Hosts : held[h] = l
    /\ \A g, h \in Hosts : g # h /\ held[g] # None /\ held[h] # None => Id(held[g]) # Id(held[h])
    /\ \A t, h \in Hosts : at[t] = "opening" /\ held[h] # None => Id(held[h]) # Id(target[t])
    /\ \A t \in Tasks : at[t] = "closing" => \A l \in live : Id(l) # Id(target[t])
    /\ \A t, u \in Tasks :
          t # u /\ at[t] = "closing" /\ at[u] = "closing" => Id(target[t]) # Id(target[u])

(* The directories are those of the sessions that are opened, leased or    *)
(* closed, the sessions those of the latter two and what failing calls     *)
(* have left.                                                              *)
IsOpen(s)  == \/ \E l \in live : s = Id(l)
              \/ \E t \in Tasks : at[t] = "closing" /\ s = Id(target[t])

Accounted ==
    \A s \in Ids : /\ s \in sessions <=> IsOpen(s) \/ s \in lost
                   /\ s \in cwd <=> IsOpen(s) \/ \E t \in Tasks : at[t] = "opening" /\ s = Id(target[t])
                   /\ s \in lost => s \notin cwd

Bounded == Cardinality(lost) <= MaxLost

TaskFormed(t) ==
    /\ t \in Hosts => HostFormed(t) /\ HostLeased(t)
    /\ t \in Closers => CloserFormed(t)

LeaseInv ==
    /\ Typed /\ Lined
    /\ \A t \in Tasks : TaskFormed(t)
    /\ Apart /\ Accounted /\ Bounded

SessionsInv == ShutdownInv /\ LeaseInv

-----------------------------------------------------------------------------
(* The line.                                                               *)

(* Someone who joins the line stands at its end.                           *)
LEMMA QueueJoins ==
    ASSUME NEW q \in Seq(Tasks), Once(q), NEW t \in Tasks, t \notin Range(q)
    PROVE  /\ Append(q, t) \in Seq(Tasks) /\ Once(Append(q, t))
           /\ Range(Append(q, t)) = Range(q) \cup {t}
<1>. DEFINE r == Append(q, t)
<1>1. /\ r \in Seq(Tasks) /\ Len(r) = Len(q) + 1 /\ r[Len(q) + 1] = t
      /\ \A i \in 1 .. Len(q) : r[i] = q[i]
    BY AppendProperties
<1>2. DOMAIN q = 1 .. Len(q) /\ DOMAIN r = 1 .. Len(q) + 1 /\ Len(q) \in Nat
    BY <1>1
<1>3. \A i \in DOMAIN q : q[i] # t
    BY DEF Range
<1>. HIDE DEF r
<1>4. Once(r)
    BY <1>1, <1>2, <1>3 DEF Once
<1>5. Range(r) = Range(q) \cup {t}
    <2>1. Range(r) \subseteq Range(q) \cup {t}
        BY <1>1, <1>2 DEF Range
    <2>2. Range(q) \subseteq Range(r)
        BY <1>1, <1>2 DEF Range
    <2>3. t \in Range(r)
        BY <1>1, <1>2 DEF Range
    <2>. QED
        BY <2>1, <2>2, <2>3
<1>. QED
    BY <1>1, <1>4, <1>5 DEF r

(* Without the one at place i it is the line of all the others.            *)
LEMMA QueueWithout ==
    ASSUME NEW q \in Seq(Tasks), Once(q), NEW i \in DOMAIN q, NEW r \in Seq(Tasks),
           Len(r) = Len(q) - 1,
           \A j \in DOMAIN r : r[j] = q[IF j < i THEN j ELSE j + 1]
    PROVE  Once(r) /\ Range(r) = Range(q) \ {q[i]}
<1>1. /\ DOMAIN q = 1 .. Len(q) /\ DOMAIN r = 1 .. Len(q) - 1 /\ Len(q) \in Nat /\ i \in Nat
    OBVIOUS
<1>2. Once(r)
    BY <1>1 DEF Once
<1>3. Range(r) \subseteq Range(q) \ {q[i]}
    BY <1>1 DEF Range, Once
<1>4. ASSUME NEW j \in DOMAIN q, j # i
      PROVE  q[j] \in Range(r)
    <2>1. CASE j < i
        <3>1. j \in DOMAIN r /\ r[j] = q[j]
            BY <1>1, <2>1
        <3>. QED
            BY <3>1 DEF Range
    <2>2. CASE j > i
        <3>1. j - 1 \in DOMAIN r /\ r[j - 1] = q[j]
            BY <1>1, <2>2
        <3>. QED
            BY <3>1 DEF Range
    <2>. QED
        BY <1>1, <1>4, <2>1, <2>2
<1>5. Range(q) \ {q[i]} \subseteq Range(r)
    BY <1>4 DEF Range
<1>. QED
    BY <1>2, <1>3, <1>5

(* So it is when the first one takes the lock.                             *)
LEMMA QueueServes ==
    ASSUME NEW q \in Seq(Tasks), Once(q), q # <<>>
    PROVE  /\ Tail(q) \in Seq(Tasks) /\ Once(Tail(q))
           /\ Range(Tail(q)) = Range(q) \ {Head(q)}
<1>1. /\ Tail(q) \in Seq(Tasks) /\ Len(Tail(q)) = Len(q) - 1
      /\ \A j \in 1 .. Len(Tail(q)) : Tail(q)[j] = q[j + 1]
    BY HeadTailProperties
<1>2. 1 \in DOMAIN q /\ Head(q) = q[1] /\ DOMAIN Tail(q) = 1 .. Len(Tail(q))
    BY <1>1
<1>3. \A j \in DOMAIN Tail(q) : Tail(q)[j] = q[IF j < 1 THEN j ELSE j + 1]
    BY <1>1, <1>2
<1>. DEFINE r == Tail(q)
<1>4. r \in Seq(Tasks) /\ Len(r) = Len(q) - 1 /\ \A j \in DOMAIN r : r[j] = q[IF j < 1 THEN j ELSE j + 1]
    BY <1>1, <1>3
<1>5. 1 \in DOMAIN q /\ Head(q) = q[1]
    BY <1>2
<1>. HIDE DEF r
<1>6. Once(r) /\ Range(r) = Range(q) \ {q[1]}
    BY <1>4, <1>5, QueueWithout
<1>. QED
    BY <1>4, <1>5, <1>6 DEF r

(* And when one is cancelled, wherever it stands.                          *)
LEMMA QueueLeaves ==
    ASSUME NEW q \in Seq(Tasks), Once(q), NEW i \in DOMAIN q
    PROVE  LET r == SubSeq(q, 1, i - 1) \o SubSeq(q, i + 1, Len(q))
           IN  r \in Seq(Tasks) /\ Once(r) /\ Range(r) = Range(q) \ {q[i]}
<1>. DEFINE a == SubSeq(q, 1, i - 1)
            b == SubSeq(q, i + 1, Len(q))
            r == a \o b
<1>1. Len(q) \in Nat /\ i \in 1 .. Len(q) /\ \A j \in 1 .. Len(q) : q[j] \in Tasks
    BY ElementOfSeq
<1>2. a \in Seq(Tasks) /\ Len(a) = i - 1 /\ \A j \in 1 .. i - 1 : a[j] = q[j]
    BY <1>1, SubSeqProperties
<1>3. /\ b \in Seq(Tasks) /\ Len(b) = Len(q) - i
      /\ \A j \in 1 .. Len(q) - i : b[j] = q[i + j]
    <2>1. \A j \in (i + 1) .. Len(q) : q[j] \in Tasks
        BY <1>1
    <2>2. i + 1 \in Int /\ Len(q) \in Int
        BY <1>1
    <2>3. /\ b \in Seq(Tasks)
          /\ Len(b) = IF i + 1 <= Len(q) THEN Len(q) - (i + 1) + 1 ELSE 0
          /\ \A j \in 1 .. Len(q) - (i + 1) + 1 : b[j] = q[(i + 1) + j - 1]
        BY <2>1, <2>2, SubSeqProperties
    <2>. QED
        BY <1>1, <2>3
<1>. HIDE DEF a, b
<1>4. /\ r \in Seq(Tasks) /\ Len(r) = Len(a) + Len(b)
      /\ \A j \in 1 .. Len(a) + Len(b) : r[j] = IF j <= Len(a) THEN a[j] ELSE b[j - Len(a)]
    BY <1>2, <1>3, ConcatProperties
<1>. HIDE DEF r
<1>5. Len(r) = Len(q) - 1 /\ DOMAIN r = 1 .. Len(q) - 1
    BY <1>1, <1>2, <1>3, <1>4
<1>6. \A j \in DOMAIN r : r[j] = q[IF j < i THEN j ELSE j + 1]
    <2>. SUFFICES ASSUME NEW j \in 1 .. Len(q) - 1
                  PROVE  r[j] = q[IF j < i THEN j ELSE j + 1]
        BY <1>5
    <2>1. r[j] = IF j <= Len(a) THEN a[j] ELSE b[j - Len(a)]
        <3>1. j \in 1 .. Len(a) + Len(b)
            BY <1>1, <1>2, <1>3
        <3>. QED
            BY <1>4, <3>1
    <2>2. CASE j < i
        <3>1. j <= Len(a) /\ j \in 1 .. i - 1
            BY <1>1, <1>2, <2>2
        <3>. QED
            BY <1>2, <2>1, <2>2, <3>1
    <2>3. CASE ~(j < i)
        <3>1. ~(j <= Len(a)) /\ j - Len(a) \in 1 .. Len(q) - i /\ i + (j - Len(a)) = j + 1
            BY <1>1, <1>2, <2>3
        <3>2. b[j - Len(a)] = q[i + (j - Len(a))]
            BY <1>3, <3>1
        <3>. QED
            BY <2>1, <2>3, <3>1, <3>2
    <2>. QED
        BY <2>2, <2>3
<1>7. Once(r) /\ Range(r) = Range(q) \ {q[i]}
    BY <1>4, <1>5, <1>6, QueueWithout, ZenonT(30)
<1>. QED
    BY <1>4, <1>7 DEF r, a, b

-----------------------------------------------------------------------------
(* The step of one task, seen from the others.                             *)
Beside(t) ==
    \A u \in Tasks \ {t} : /\ at'[u] = at[u] /\ call'[u] = call[u] /\ target'[u] = target[u]
                           /\ outcome'[u] = outcome[u] /\ want'[u] = want[u]

(* And what it does to the call of its own.                                *)
Proceeds(t) ==
    /\ call'[t] = call[t] /\ target'[t] = target[t]
    /\ outcome'[t] = outcome[t] /\ want'[t] = want[t]

Ends(t, how) ==
    /\ at'[t] = "idle" /\ call'[t] = "none" /\ target'[t] = None /\ outcome'[t] = how
    /\ how = "acquired" => want'[t] = want[t]

LEMMA EndForms ==
    ASSUME CallsTyped, NEW t \in Tasks, NEW how \in {"nothing", "acquired", "shut"}, End(t, how)
    PROVE  CallsTyped' /\ Beside(t) /\ Ends(t, how)
<1>1. Beside(t) /\ Ends(t, how)
    BY DEF CallsTyped, End, Beside, Ends
<1>2. /\ at' \in [Tasks -> Running \cup Waiting \cup {"idle", "closing", "opening"}]
      /\ call' \in [Tasks -> {"none", "acquire", "discard", "shutdown"}]
      /\ target' \in [Tasks -> Lease \cup {None}]
      /\ todo' \in [Tasks -> SUBSET Lease]
    BY DEF CallsTyped, End
<1>3. /\ failed' \in [Tasks -> BOOLEAN]
      /\ outcome' \in [Tasks -> {"nothing", "acquired", "shut"}]
    BY DEF CallsTyped, End
<1>4. want' \in [Tasks -> Contracts \cup {"isolated", None}]
    BY DEF CallsTyped, End
<1>. QED
    BY <1>1, <1>2, <1>3, <1>4 DEF CallsTyped

(* A task that only turns to another place.                                *)
LEMMA TurnForms ==
    ASSUME CallsTyped, NEW t \in Tasks, Turn(t, at'[t]),
           at'[t] \in Running \cup Waiting \cup {"idle", "closing", "opening"},
           UNCHANGED <<call, target, outcome, want, todo>>, failed' \in [Tasks -> BOOLEAN]
    PROVE  CallsTyped' /\ Beside(t) /\ Proceeds(t)
BY DEF CallsTyped, Turn, Beside, Proceeds

LEMMA DroppedForms ==
    ASSUME CallsTyped, NEW t \in Tasks, NEW ok \in BOOLEAN, Dropped(t, ok)
    PROVE  /\ CallsTyped' /\ Beside(t)
           /\ \/ call[t] = "acquire" /\ ok /\ at'[t] = "open" /\ Proceeds(t)
              \/ call[t] = "shutdown" /\ at'[t] = "next" /\ Proceeds(t)
              \/ call[t] # "shutdown" /\ Ends(t, "nothing")
<1>1. CASE call[t] = "acquire" /\ ok
    <2>1. /\ Turn(t, "open") /\ at'[t] = "open"
          /\ UNCHANGED <<call, target, todo, failed, outcome, want>>
        BY <1>1 DEF Dropped, Turn, CallsTyped
    <2>2. CallsTyped' /\ Beside(t) /\ Proceeds(t)
        BY <2>1, TurnForms DEF CallsTyped, Running
    <2>. QED
        BY <1>1, <2>1, <2>2
<1>2. CASE call[t] = "shutdown"
    <2>1. /\ Turn(t, "next") /\ at'[t] = "next"
          /\ failed' \in [Tasks -> BOOLEAN]
          /\ UNCHANGED <<call, target, todo, outcome, want>>
        BY <1>2 DEF Dropped, Turn, CallsTyped
    <2>2. CallsTyped' /\ Beside(t) /\ Proceeds(t)
        BY <2>1, TurnForms DEF CallsTyped, Running
    <2>. QED
        BY <1>2, <2>1, <2>2
<1>3. CASE ~(call[t] = "acquire" /\ ok) /\ call[t] # "shutdown"
    <2>1. End(t, "nothing")
        BY <1>3 DEF Dropped
    <2>. QED
        BY <1>3, <2>1, EndForms
<1>. QED
    BY <1>1, <1>2, <1>3

-----------------------------------------------------------------------------
(* Who holds the lock, and who waits for it.                               *)

LEMMA HolderKept ==
    ASSUME Lined, NEW t \in Tasks, Beside(t), None \notin Tasks,
           \/ holder' = holder /\ (at[t] = "opening" <=> at'[t] = "opening")
           \/ holder = None /\ holder' = t /\ at'[t] = "opening"
           \/ at[t] = "opening" /\ holder' = None /\ at'[t] # "opening"
    PROVE  \A u \in Tasks : (holder' = u) <=> (at'[u] = "opening")
BY DEF Lined, Beside

LEMMA LineKept ==
    ASSUME Lined, NEW t \in Tasks, Beside(t),
           \A u \in Tasks : (holder' = u) <=> (at'[u] = "opening"),
           \/ queue' = queue /\ at[t] \notin Waiting /\ at'[t] \notin Waiting
           \/ queue' = Append(queue, t) /\ at[t] \notin Waiting /\ at'[t] \in Waiting
           \/ at[t] \in Waiting /\ at'[t] \notin Waiting /\ Leave(t)
           \/ at[t] \in Waiting /\ at'[t] \notin Waiting /\ Head(queue) = t /\ queue' = Tail(queue)
    PROVE  Lined'
<1>. USE DEF Beside
<1>1. queue \in Seq(Tasks) /\ Once(queue)
    BY DEF Lined
<1>2. CASE queue' = queue /\ at[t] \notin Waiting /\ at'[t] \notin Waiting
    BY <1>2 DEF Lined, Once
<1>3. CASE queue' = Append(queue, t) /\ at[t] \notin Waiting /\ at'[t] \in Waiting
    <2>1. t \notin Range(queue)
        BY <1>3 DEF Lined
    <2>2. queue' \in Seq(Tasks) /\ Once(queue)' /\ Range(queue') = Range(queue) \cup {t}
        BY <1>1, <1>3, <2>1, QueueJoins DEF Once
    <2>. QED
        BY <1>3, <2>2 DEF Lined
<1>4. CASE at[t] \in Waiting /\ at'[t] \notin Waiting /\ Leave(t)
    <2>1. PICK i \in DOMAIN queue :
              /\ queue[i] = t
              /\ queue' = SubSeq(queue, 1, i - 1) \o SubSeq(queue, i + 1, Len(queue))
        BY <1>4 DEF Leave
    <2>2. queue' \in Seq(Tasks) /\ Once(queue)' /\ Range(queue') = Range(queue) \ {t}
        BY <1>1, <2>1, QueueLeaves DEF Once
    <2>. QED
        BY <1>4, <2>2 DEF Lined
<1>5. CASE at[t] \in Waiting /\ at'[t] \notin Waiting /\ Head(queue) = t /\ queue' = Tail(queue)
    <2>1. queue # <<>>
        BY <1>5 DEF Lined, Range
    <2>2. queue' \in Seq(Tasks) /\ Once(queue)' /\ Range(queue') = Range(queue) \ {t}
        BY <1>1, <1>5, <2>1, QueueServes DEF Once
    <2>. QED
        BY <1>5, <2>2 DEF Lined
<1>. QED
    BY <1>2, <1>3, <1>4, <1>5

(* A task that has entered stands in no line.                              *)
LEMMA EnterMoves ==
    ASSUME Lined, NEW t \in Tasks, Beside(t), NEW place \in {"drop", "open", "shut"},
           Enter(t, place), at'[t] \notin Waiting,
           \A u \in Tasks : (holder' = u) <=> (at'[u] = "opening")
    PROVE  Lined'
<1>1. WaitFor[place] \in Waiting /\ place \notin Waiting
    BY DEF WaitFor, Waiting
<1>. QED
    BY <1>1, LineKept DEF Enter

-----------------------------------------------------------------------------
(* The calls of the others are as they were: of the leases in their hands  *)
(* none is taken away but by a shutdown.                                   *)
LEMMA OthersFormed ==
    ASSUME LeaseInv, NEW t \in Tasks, Beside(t), closed => closed',
           \A u \in Tasks \ {t} : held'[u] = held[u],
           \A h \in Hosts \ {t} : /\ held[h] \notin live => held[h] \notin live'
                                  /\ held[h] \in live => held[h] \in live' \/ closed',
           TaskFormed(t)'
    PROVE  \A u \in Tasks : TaskFormed(u)'
<1>. SUFFICES ASSUME NEW u \in Tasks, u # t
              PROVE  TaskFormed(u)'
    OBVIOUS
<1>1. /\ at'[u] = at[u] /\ call'[u] = call[u] /\ target'[u] = target[u]
      /\ outcome'[u] = outcome[u] /\ want'[u] = want[u] /\ held'[u] = held[u]
      /\ TaskFormed(u)
    BY DEF Beside, LeaseInv
<1>2. ASSUME u \in Hosts
      PROVE  HostFormed(u)'
    BY <1>1, <1>2 DEF TaskFormed, HostFormed
<1>3. ASSUME u \in Hosts
      PROVE  HostLeased(u)'
    BY <1>1, <1>3 DEF TaskFormed, HostLeased
<1>4. ASSUME u \in Closers
      PROVE  CloserFormed(u)'
    BY <1>1, <1>4 DEF TaskFormed, CloserFormed
<1>. QED
    BY <1>2, <1>3, <1>4 DEF TaskFormed

(* A step that neither starts nor ends an opening or a closing keeps the   *)
(* leases apart and accounted for.                                         *)
LEMMA Aside ==
    ASSUME LeaseInv, NEW t \in Tasks, Beside(t), closed => closed',
           UNCHANGED <<live, sessions, cwd, lost, held>>,
           closed' \in BOOLEAN, holder' \in Tasks \cup {None}, CallsTyped', Lined',
           at[t] \notin {"closing", "opening"}, at'[t] \notin {"closing", "opening"},
           TaskFormed(t)'
    PROVE  LeaseInv'
<1>1. \A u \in Tasks : TaskFormed(u)'
    BY OthersFormed
<1>2. Typed'
    BY DEF LeaseInv, Typed
<1>3. \A u \in Tasks : at[u] \in {"closing", "opening"} \/ at'[u] \in {"closing", "opening"}
                       => at'[u] = at[u] /\ target'[u] = target[u]
    BY DEF Beside
<1>4. Apart'
    BY <1>3 DEF LeaseInv, Apart, Tasks
<1>5. \A s \in Ids : IsOpen(s)' <=> IsOpen(s)
    BY <1>3 DEF IsOpen
<1>6. Accounted'
    BY <1>3, <1>5 DEF LeaseInv, Accounted
<1>. QED
    BY <1>1, <1>2, <1>4, <1>6 DEF LeaseInv, Bounded

-----------------------------------------------------------------------------
LEMMA ReuseKeepsLeases ==
    ASSUME SessionsInv, NEW h \in Hosts, NEW c \in Contracts, Reuse(h, c)
    PROVE  LeaseInv'
<1>. USE DEF SessionsInv
<1>1. /\ h \in Tasks /\ at[h] = "idle" /\ held[h] # None /\ held[h] \in live /\ held[h][2] = c
      /\ outcome' = [outcome EXCEPT ![h] = "acquired"] /\ want' = [want EXCEPT ![h] = c]
      /\ UNCHANGED <<closed, live, holder, queue, sessions, cwd, lost, at, call, target, todo, failed, held>>
    BY DEF Reuse, Reusable, Tasks, provider, world
<1>2. CallsTyped
    BY DEF LeaseInv, Typed
<1>3. Beside(h) /\ outcome'[h] = "acquired" /\ want'[h] = c
    BY <1>1, <1>2 DEF Beside, CallsTyped
<1>4. CallsTyped'
    BY <1>1, <1>2 DEF CallsTyped
<1>5. Lined'
    BY <1>1 DEF LeaseInv, Lined, Once
<1>6. h \notin Closers
    BY SessionsAssumption
<1>7. TaskFormed(h) /\ HostFormed(h) /\ HostLeased(h)
    BY <1>1 DEF LeaseInv, TaskFormed
<1>8. HostFormed(h)' /\ HostLeased(h)'
    BY <1>1, <1>3, <1>7 DEF HostFormed, HostLeased
<1>9. TaskFormed(h)'
    BY <1>6, <1>8 DEF TaskFormed
<1>. QED
    BY <1>1, <1>3, <1>4, <1>5, <1>9, Aside DEF LeaseInv, Typed

(* What a call begins with: its host's lease, or none.                     *)
LEMMA BeginMoves ==
    ASSUME SessionsInv, NEW t \in Tasks, NEW what \in {"acquire", "discard", "shutdown"},
           NEW place \in {"open", "drop", "shut"}, Begin(t, what, place),
           target' = target \/ target' = [target EXCEPT ![t] = held[t]],
           NEW c \in Contracts \cup {"isolated", None}, want' = [want EXCEPT ![t] = c]
    PROVE  /\ UNCHANGED <<closed, live, holder, sessions, cwd, lost, held>>
           /\ Beside(t) /\ CallsTyped' /\ Lined' /\ at[t] = "idle"
           /\ at'[t] = place /\ call'[t] = what /\ outcome'[t] = "nothing" /\ want'[t] = c
<1>. USE DEF SessionsInv
<1>1. /\ UNCHANGED <<closed, live, holder, queue, sessions, cwd, lost, todo, failed, held>>
      /\ at[t] = "idle" /\ at' = [at EXCEPT ![t] = place] /\ call' = [call EXCEPT ![t] = what]
      /\ outcome' = [outcome EXCEPT ![t] = "nothing"]
    BY DEF Begin, provider, world
<1>2. CallsTyped /\ held \in [Tasks -> Lease \cup {None}]
    BY DEF LeaseInv, Typed
<1>3. Beside(t) /\ at'[t] = place /\ call'[t] = what /\ outcome'[t] = "nothing" /\ want'[t] = c
    BY <1>1, <1>2 DEF Beside, CallsTyped
<1>4. target' \in [Tasks -> Lease \cup {None}]
    BY <1>2 DEF CallsTyped
<1>5. /\ at' \in [Tasks -> Running \cup Waiting \cup {"idle", "closing", "opening"}]
      /\ call' \in [Tasks -> {"none", "acquire", "discard", "shutdown"}]
      /\ outcome' \in [Tasks -> {"nothing", "acquired", "shut"}]
      /\ want' \in [Tasks -> Contracts \cup {"isolated", None}]
    <2>1. place \in Running
        <3>1. CASE place = "open"
            BY <3>1 DEF Running
        <3>2. CASE place = "drop"
            BY <3>2 DEF Running
        <3>3. CASE place = "shut"
            BY <3>3 DEF Running
        <3>. QED
            BY <3>1, <3>2, <3>3
    <2>. QED
        BY <1>1, <1>2, <2>1 DEF CallsTyped
<1>6. CallsTyped'
    BY <1>1, <1>2, <1>4, <1>5 DEF CallsTyped
<1>7. \A u \in Tasks : (holder' = u) <=> (at'[u] = "opening")
    BY <1>1, <1>3 DEF LeaseInv, Lined, Beside
<1>8. Lined'
    <2>1. at[t] \notin Waiting /\ at'[t] \notin Waiting
        BY <1>1, <1>3 DEF Waiting
    <2>. QED
        BY <1>1, <1>3, <1>7, <2>1, LineKept DEF LeaseInv
<1>. QED
    BY <1>1, <1>3, <1>6, <1>8

LEMMA RequestsKeepLeases ==
    ASSUME SessionsInv,
           \/ \E h \in Hosts : Requests(h)
           \/ \E k \in Closers : Shutdown(k)
    PROVE  LeaseInv'
<1>. USE DEF SessionsInv
<1>0. LeaseInv /\ closed \in BOOLEAN /\ holder \in Tasks \cup {None}
    BY DEF LeaseInv, Typed
<1>1. ASSUME NEW h \in Hosts, NEW c \in Contracts, Acquire(h, c)
      PROVE  LeaseInv'
    <2>1. h \in Tasks /\ h \notin Closers
        BY SessionsAssumption DEF Tasks
    <2>2. /\ Begin(h, "acquire", IF held[h] = None THEN "open" ELSE "drop")
          /\ target' = [target EXCEPT ![h] = held[h]] /\ want' = [want EXCEPT ![h] = c]
        BY <1>1 DEF Acquire
    <2>3. /\ UNCHANGED <<closed, live, holder, sessions, cwd, lost, held>>
          /\ Beside(h) /\ CallsTyped' /\ Lined' /\ at[h] = "idle"
          /\ at'[h] = IF held[h] = None THEN "open" ELSE "drop"
          /\ call'[h] = "acquire" /\ outcome'[h] = "nothing" /\ want'[h] = c
        <3>1. target' = target \/ target' = [target EXCEPT ![h] = held[h]]
            BY <2>2
        <3>2. CASE held[h] = None
            <4>1. Begin(h, "acquire", "open")
                BY <2>2, <3>2
            <4>. QED
                BY <2>1, <2>2, <3>1, <3>2, <4>1, BeginMoves
        <3>3. CASE held[h] # None
            <4>1. Begin(h, "acquire", "drop")
                BY <2>2, <3>3
            <4>. QED
                BY <2>1, <2>2, <3>1, <3>3, <4>1, BeginMoves
        <3>. QED
            BY <3>2, <3>3
    <2>4. target'[h] = held[h]
        BY <2>1, <2>2 DEF LeaseInv, Typed, CallsTyped
    <2>5. HostFormed(h)'
        BY <2>3, <2>4 DEF HostFormed
    <2>6. None \notin live
        BY SessionsAssumption DEF LeaseInv, Typed, Lease
    <2>7. HostLeased(h)'
        BY <2>3, <2>6 DEF HostLeased
    <2>. QED
        BY <1>0, <2>1, <2>3, <2>5, <2>7, Aside DEF TaskFormed
<1>2. ASSUME NEW h \in Hosts, OpenIsolated(h)
      PROVE  LeaseInv'
    <2>1. h \in Tasks /\ h \notin Closers
        BY SessionsAssumption DEF Tasks
    <2>2. Begin(h, "acquire", "open") /\ want' = [want EXCEPT ![h] = "isolated"] /\ target' = target
        BY <1>2 DEF OpenIsolated
    <2>3. /\ UNCHANGED <<closed, live, holder, sessions, cwd, lost, held>>
          /\ Beside(h) /\ CallsTyped' /\ Lined' /\ at[h] = "idle" /\ at'[h] = "open"
          /\ call'[h] = "acquire" /\ outcome'[h] = "nothing" /\ want'[h] = "isolated"
          /\ target'[h] = target[h] /\ held[h] \notin live
        <3>1. "isolated" \in Contracts \cup {"isolated", None} /\ held[h] \notin live
            BY <1>2 DEF OpenIsolated
        <3>. QED
            BY <2>1, <2>2, <3>1, BeginMoves
    <2>4. target[h] \in {None, held[h]}
        BY <2>1, <2>3 DEF LeaseInv, TaskFormed, HostFormed
    <2>5. HostFormed(h)' /\ HostLeased(h)'
        BY <2>3, <2>4 DEF HostFormed, HostLeased
    <2>. QED
        BY <1>0, <2>1, <2>3, <2>5, Aside DEF TaskFormed
<1>3. ASSUME NEW h \in Hosts, Discard(h)
      PROVE  LeaseInv'
    <2>1. h \in Tasks /\ h \notin Closers
        BY SessionsAssumption DEF Tasks
    <2>2. /\ Begin(h, "discard", "drop") /\ held[h] # None
          /\ want' = [want EXCEPT ![h] = None] /\ target' = [target EXCEPT ![h] = held[h]]
        BY <1>3 DEF Discard
    <2>3. /\ UNCHANGED <<closed, live, holder, sessions, cwd, lost, held>>
          /\ Beside(h) /\ CallsTyped' /\ Lined' /\ at[h] = "idle" /\ at'[h] = "drop"
          /\ call'[h] = "discard" /\ outcome'[h] = "nothing"
        BY <2>1, <2>2, BeginMoves
    <2>4. target'[h] = held[h]
        BY <2>1, <2>2 DEF LeaseInv, Typed, CallsTyped
    <2>5. HostFormed(h)' /\ HostLeased(h)'
        BY <2>2, <2>3, <2>4 DEF HostFormed, HostLeased
    <2>. QED
        BY <1>0, <2>1, <2>3, <2>5, Aside DEF TaskFormed
<1>4. ASSUME NEW k \in Closers, Shutdown(k)
      PROVE  LeaseInv'
    <2>1. k \in Tasks /\ k \notin Hosts
        BY SessionsAssumption DEF Tasks
    <2>2. /\ Begin(k, "shutdown", "shut") /\ target' = target /\ want' = [want EXCEPT ![k] = None]
        BY <1>4 DEF Shutdown
    <2>3. /\ UNCHANGED <<closed, live, holder, sessions, cwd, lost, held>>
          /\ Beside(k) /\ CallsTyped' /\ Lined' /\ at[k] = "idle" /\ at'[k] = "shut"
          /\ call'[k] = "shutdown" /\ outcome'[k] = "nothing" /\ target'[k] = target[k]
        BY <2>1, <2>2, BeginMoves
    <2>4. CloserFormed(k)
        BY <2>1 DEF LeaseInv, TaskFormed
    <2>5. CloserFormed(k)'
        BY <2>3, <2>4 DEF CloserFormed
    <2>. QED
        BY <1>0, <2>1, <2>3, <2>5, Aside DEF TaskFormed
<1>. QED
    BY <1>1, <1>2, <1>3, <1>4, ReuseKeepsLeases DEF Requests

-----------------------------------------------------------------------------
LEMMA WaitKeepsLeases ==
    ASSUME SessionsInv, NEW t \in Tasks, Wait(t)
    PROVE  LeaseInv'
<1>. USE DEF SessionsInv
<1>1. /\ UNCHANGED <<closed, live, holder, sessions, cwd, lost, call, target, todo, failed, outcome, want, held>>
      /\ Turn(t, WaitFor[at[t]]) /\ queue' = Append(queue, t)
      /\ at[t] \in {"drop", "open", "shut"}
    BY DEF Wait, world, WaitFor
<1>2. CallsTyped /\ closed \in BOOLEAN /\ holder \in Tasks \cup {None} /\ TaskFormed(t)
    BY DEF LeaseInv, Typed
<1>3. at'[t] = WaitFor[at[t]]
    BY <1>1, <1>2 DEF Turn, CallsTyped
<1>4. \/ at[t] = "drop" /\ at'[t] = "drop_wait"
      \/ at[t] = "open" /\ at'[t] = "open_wait"
      \/ at[t] = "shut" /\ at'[t] = "shut_wait"
    BY <1>1, <1>3 DEF WaitFor
<1>5. at[t] \notin Waiting /\ at'[t] \in Waiting
    BY <1>4 DEF Waiting
<1>6. CallsTyped' /\ Beside(t) /\ Proceeds(t)
    <2>1. failed' \in [Tasks -> BOOLEAN]
        BY <1>1, <1>2 DEF CallsTyped
    <2>. QED
        BY <1>1, <1>2, <1>3, <1>5, <2>1, TurnForms
<1>7. \A u \in Tasks : (holder' = u) <=> (at'[u] = "opening")
    BY <1>1, <1>4, <1>6 DEF LeaseInv, Lined, Beside
<1>8. Lined'
    BY <1>1, <1>5, <1>6, <1>7, LineKept DEF LeaseInv
<1>9. TaskFormed(t)'
    <2>1. ASSUME t \in Hosts
          PROVE  HostFormed(t)' /\ HostLeased(t)'
        BY <1>1, <1>2, <1>4, <1>6, <2>1 DEF TaskFormed, HostFormed, HostLeased, Proceeds
    <2>2. ASSUME t \in Closers
          PROVE  CloserFormed(t)'
        BY <1>1, <1>2, <1>4, <1>6, <2>2 DEF TaskFormed, CloserFormed, Proceeds
    <2>. QED
        BY <2>1, <2>2 DEF TaskFormed
<1>. QED
    BY <1>1, <1>2, <1>4, <1>6, <1>8, <1>9, Aside

-----------------------------------------------------------------------------
(* A call that ends without a lease.                                       *)
LEMMA EndFormed ==
    ASSUME NEW t \in Tasks, TaskFormed(t), Ends(t, "nothing") \/ (t \in Closers /\ Ends(t, "shut")),
           held' = held
    PROVE  TaskFormed(t)'
<1>1. t \in Hosts => HostFormed(t)'
    BY SessionsAssumption DEF TaskFormed, HostFormed, Ends
<1>2. t \in Hosts => HostLeased(t)'
    BY SessionsAssumption DEF TaskFormed, HostLeased, Ends
<1>3. t \in Closers => CloserFormed(t)'
    BY DEF TaskFormed, CloserFormed, Ends
<1>. QED
    BY <1>1, <1>2, <1>3 DEF TaskFormed

(* A discard that is over, with its lease gone or the call with it.        *)
LEMMA DroppedFormed ==
    ASSUME SessionsInv, NEW t \in Tasks, NEW ok \in BOOLEAN, Dropped(t, ok),
           at[t] \in {"drop", "drop_wait", "closing"}, held' = held, closed' = closed,
           ok => target[t] \notin live'
    PROVE  /\ TaskFormed(t)' /\ CallsTyped' /\ Beside(t)
           /\ at'[t] \in {"open", "next", "idle"}
<1>. USE DEF SessionsInv
<1>1. CallsTyped /\ TaskFormed(t)
    BY DEF LeaseInv, Typed
<1>2. /\ CallsTyped' /\ Beside(t)
      /\ \/ call[t] = "acquire" /\ ok /\ at'[t] = "open" /\ Proceeds(t)
         \/ call[t] = "shutdown" /\ at'[t] = "next" /\ Proceeds(t)
         \/ call[t] # "shutdown" /\ Ends(t, "nothing")
    BY <1>1, DroppedForms
<1>3. CASE call[t] = "acquire" /\ ok /\ at'[t] = "open" /\ Proceeds(t)
    <2>1. t \in Hosts /\ t \notin Closers
        BY <1>1, <1>3, SessionsAssumption DEF TaskFormed, CloserFormed, Tasks
    <2>2. HostFormed(t) /\ HostLeased(t)
        BY <1>1, <2>1 DEF TaskFormed
    <2>3. HostFormed(t)' /\ HostLeased(t)'
        BY <1>3, <2>2 DEF HostFormed, HostLeased, Proceeds
    <2>. QED
        BY <1>2, <1>3, <2>1, <2>3 DEF TaskFormed
<1>4. CASE call[t] = "shutdown" /\ at'[t] = "next" /\ Proceeds(t)
    <2>1. t \notin Hosts /\ t \in Closers
        BY <1>1, <1>4 DEF TaskFormed, HostFormed, Tasks
    <2>2. CloserFormed(t)
        BY <1>1, <2>1 DEF TaskFormed
    <2>3. CloserFormed(t)'
        BY <1>4, <2>2 DEF CloserFormed, Proceeds
    <2>. QED
        BY <1>2, <1>4, <2>1, <2>3 DEF TaskFormed
<1>5. CASE Ends(t, "nothing")
    <2>1. TaskFormed(t)'
        BY <1>1, <1>5, EndFormed
    <2>2. at'[t] = "idle"
        BY <1>5 DEF Ends
    <2>. QED
        BY <1>2, <2>1, <2>2
<1>. QED
    BY <1>2, <1>3, <1>4, <1>5

(* The lease that a discard is about: its host's own, or one that is       *)
(* discarded because the provider is closed.                               *)
LEMMA TargetOf ==
    ASSUME SessionsInv, NEW t \in Tasks, at[t] \in {"drop", "drop_wait", "closing"}
    PROVE  /\ target[t] # None /\ target[t] \in Lease
           /\ (t \in Hosts /\ target[t] = held[t]) \/ (t \in Closers /\ closed)
<1>1. TaskFormed(t) /\ target[t] \in Lease \cup {None} /\ (t \in Hosts \/ t \in Closers)
    BY DEF SessionsInv, LeaseInv, Typed, CallsTyped, Tasks
<1>2. CASE t \in Hosts
    BY <1>1, <1>2 DEF TaskFormed, HostFormed
<1>3. CASE t \in Closers
    BY <1>1, <1>3 DEF TaskFormed, CloserFormed
<1>. QED
    BY <1>1, <1>2, <1>3

LEMMA DropEntersKeepsLeases ==
    ASSUME SessionsInv, NEW t \in Tasks, DropEnters(t)
    PROVE  LeaseInv'
<1>. USE DEF SessionsInv
<1>1. /\ Enter(t, "drop") /\ at[t] \in {"drop", "drop_wait"}
      /\ UNCHANGED <<closed, holder, sessions, cwd, lost, held>>
    BY EnterFree DEF DropEnters, WaitFor, world
<1>2. CallsTyped /\ closed \in BOOLEAN /\ holder \in Tasks \cup {None} /\ TaskFormed(t) /\ Lined
    BY DEF LeaseInv, Typed
<1>3. CASE target[t] \notin live
    <2>1. live' = live /\ Dropped(t, TRUE)
        BY <1>3 DEF DropEnters, Active
    <2>2. /\ TaskFormed(t)' /\ CallsTyped' /\ Beside(t)
          /\ at'[t] \in {"open", "next", "idle"}
        BY <1>1, <1>3, <2>1, DroppedFormed
    <2>3. \A u \in Tasks : (holder' = u) <=> (at'[u] = "opening")
        BY <1>1, <1>2, <2>2 DEF Lined, Beside
    <2>4. Lined'
        <3>1. at'[t] \notin Waiting
            BY <2>2 DEF Waiting
        <3>. QED
            BY <1>1, <1>2, <2>2, <2>3, <3>1, EnterMoves
    <2>. QED
        BY <1>1, <1>2, <2>1, <2>2, <2>4, Aside
<1>4. CASE target[t] \in live
    <2>1. /\ live' = live \ {target[t]} /\ Turn(t, "closing")
          /\ UNCHANGED <<call, target, todo, failed, outcome, want>>
        BY <1>4 DEF DropEnters, Active
    <2>2. at'[t] = "closing"
        BY <1>2, <2>1 DEF Turn, CallsTyped
    <2>3. CallsTyped' /\ Beside(t) /\ Proceeds(t)
        <3>1. failed' \in [Tasks -> BOOLEAN]
            BY <1>2, <2>1 DEF CallsTyped
        <3>. QED
            BY <1>2, <2>1, <2>2, <3>1, TurnForms
    <2>4. \A u \in Tasks : (holder' = u) <=> (at'[u] = "opening")
        BY <1>1, <1>2, <2>2, <2>3 DEF Lined, Beside
    <2>5. Lined'
        <3>1. at'[t] \notin Waiting
            BY <2>2 DEF Waiting
        <3>. QED
            BY <1>1, <1>2, <2>3, <2>4, <3>1, EnterMoves
    <2>6. Typed'
        BY <1>1, <2>1, <2>3 DEF LeaseInv, Typed
    <2>7. /\ target[t] # None /\ target[t] \in Lease
          /\ (t \in Hosts /\ target[t] = held[t]) \/ (t \in Closers /\ closed)
        BY <1>1, TargetOf
    <2>8. TaskFormed(t)'
        <3>1. ASSUME t \in Hosts
              PROVE  HostFormed(t)' /\ HostLeased(t)'
            BY <1>1, <1>2, <2>1, <2>2, <2>3, <3>1 DEF TaskFormed, HostFormed, HostLeased, Proceeds
        <3>2. ASSUME t \in Closers
              PROVE  CloserFormed(t)'
            BY <1>1, <1>2, <2>2, <2>3, <3>2 DEF TaskFormed, CloserFormed, Proceeds
        <3>. QED
            BY <3>1, <3>2 DEF TaskFormed
    <2>9. \A u \in Tasks : TaskFormed(u)'
        <3>1. \A h \in Hosts \ {t} : held[h] \in live => held[h] \in live' \/ closed'
            <4>. SUFFICES ASSUME NEW h \in Hosts, h # t, held[h] \in live, ~closed
                          PROVE  held[h] # target[t]
                BY <1>1, <2>1
            <4>1. t \in Hosts /\ target[t] = held[t] /\ held[t] # None
                BY <2>7
            <4>2. held[h] # None
                BY SessionsAssumption DEF LeaseInv, Typed, Lease
            <4>. QED
                BY <4>1, <4>2 DEF LeaseInv, Apart
        <3>. QED
            BY <1>1, <2>1, <2>3, <2>8, <3>1, OthersFormed
    <2>10. \A l \in live : l # target[t] => Id(l) # Id(target[t])
        <3>. SUFFICES ASSUME NEW l \in live, l # target[t]
                      PROVE  Id(l) # Id(target[t])
            OBVIOUS
        <3>1. PICK g \in Hosts, h \in Hosts : held[g] = l /\ held[h] = target[t]
            BY <1>4 DEF LeaseInv, Apart
        <3>2. l # None /\ g # h
            BY <3>1, SessionsAssumption DEF LeaseInv, Typed, Lease
        <3>. QED
            BY <2>7, <3>1, <3>2 DEF LeaseInv, Apart
    <2>11. \A u \in Tasks \ {t} : at'[u] = at[u] /\ target'[u] = target[u]
        BY <2>3 DEF Beside
    <2>12. Apart'
        <3>1. /\ \A l \in live' : \E h \in Hosts : held'[h] = l
              /\ \A g, h \in Hosts : g # h /\ held'[g] # None /\ held'[h] # None
                                     => Id(held'[g]) # Id(held'[h])
            BY <1>1, <2>1 DEF LeaseInv, Apart
        <3>2. \A u, h \in Hosts : at'[u] = "opening" /\ held'[h] # None => Id(held'[h]) # Id(target'[u])
            BY <1>1, <2>1, <2>2, <2>11 DEF LeaseInv, Apart, Tasks
        <3>3. \A u \in Tasks : at'[u] = "closing" => \A l \in live' : Id(l) # Id(target'[u])
            BY <2>1, <2>10, <2>11 DEF LeaseInv, Apart
        <3>4. \A u, v \in Tasks :
                 u # v /\ at'[u] = "closing" /\ at'[v] = "closing" => Id(target'[u]) # Id(target'[v])
            <4>1. \A u \in Tasks : at[u] = "closing" => Id(target[u]) # Id(target[t])
                BY <1>4 DEF LeaseInv, Apart
            <4>. QED
                BY <2>1, <2>11, <4>1 DEF LeaseInv, Apart
        <3>. QED
            BY <3>1, <3>2, <3>3, <3>4 DEF Apart
    <2>13. Accounted'
        <3>1. \A s \in Ids : IsOpen(s)' <=> IsOpen(s)
            BY <1>1, <1>4, <2>1, <2>2, <2>11 DEF IsOpen
        <3>2. \A u \in Tasks : at'[u] = "opening" <=> at[u] = "opening"
            BY <1>1, <2>2, <2>11
        <3>. QED
            BY <1>1, <2>1, <3>1, <3>2 DEF LeaseInv, Accounted
    <2>. QED
        BY <1>1, <2>5, <2>6, <2>9, <2>12, <2>13 DEF LeaseInv, Bounded
<1>. QED
    BY <1>3, <1>4

-----------------------------------------------------------------------------
(* While a session is being opened every lease is in the hands of a host,  *)
(* and nobody shuts down.                                                  *)
LEMMA OpeningAlone ==
    ASSUME SessionsInv, NEW t \in Tasks, at[t] = "opening"
    PROVE  /\ t \in Hosts /\ t \notin Closers /\ ~closed /\ holder = t
           /\ target[t] \in Lease /\ target[t] # None /\ held[t] \notin live
           /\ \A u \in Tasks \ {t} : at[u] # "opening"
           /\ \A l \in live : Id(l) # Id(target[t])
           /\ \A u \in Tasks : at[u] = "closing" => Id(target[u]) # Id(target[t])
<1>. USE DEF SessionsInv
<1>1. /\ TaskFormed(t) /\ target[t] \in Lease \cup {None} /\ (t \in Hosts \/ t \in Closers)
      /\ live \subseteq Lease
    BY DEF LeaseInv, Typed, CallsTyped, Tasks
<1>2. t \notin Closers /\ t \in Hosts
    BY <1>1 DEF TaskFormed, CloserFormed
<1>3. target[t] # None /\ held[t] \notin live
    BY <1>1, <1>2 DEF TaskFormed, HostFormed, HostLeased
<1>4. ~closed /\ holder = t /\ \A u \in Tasks \ {t} : at[u] # "opening"
    BY DEF ShutdownInv, Locked
<1>5. \A l \in live : Id(l) # Id(target[t])
    <2>. SUFFICES ASSUME NEW l \in live
                  PROVE  Id(l) # Id(target[t])
        OBVIOUS
    <2>1. PICK h \in Hosts : held[h] = l
        BY DEF LeaseInv, Apart
    <2>2. l # None
        BY <1>1, SessionsAssumption DEF Lease
    <2>. QED
        BY <1>2, <2>1, <2>2 DEF LeaseInv, Apart
<1>6. ASSUME NEW u \in Tasks, at[u] = "closing"
      PROVE  Id(target[u]) # Id(target[t])
    <2>1. u \in Hosts /\ target[u] = held[u] /\ target[u] # None
        BY <1>4, <1>6, TargetOf
    <2>. QED
        BY <1>2, <2>1 DEF LeaseInv, Apart
<1>. QED
    BY <1>1, <1>2, <1>3, <1>4, <1>5, <1>6

(* A session that stays open when its call fails.                          *)
LEMMA LostGrows ==
    ASSUME SessionsInv, NEW s \in Ids, StaysOpen(s)
    PROVE  /\ sessions' = sessions \cup {s} /\ lost' = lost \cup {s}
           /\ sessions' \subseteq Ids /\ lost' \subseteq Ids /\ Bounded'
<1>1. /\ Cardinality(lost) < MaxLost
      /\ sessions' = sessions \cup {s} /\ lost' = lost \cup {s}
    BY DEF StaysOpen
<1>2. sessions \subseteq Ids /\ lost \subseteq Ids
    BY DEF SessionsInv, LeaseInv, Typed
<1>3. IsFiniteSet(lost) /\ Cardinality(lost) \in Nat /\ MaxLost \in Nat
    BY <1>2, FS_Subset, FS_CardinalityType, SessionsAssumption
<1>4. Cardinality(lost \cup {s}) = (IF s \in lost THEN Cardinality(lost) ELSE Cardinality(lost) + 1)
    BY <1>3, FS_AddElement
<1>5. Cardinality(lost \cup {s}) <= MaxLost
    BY <1>1, <1>3, <1>4
<1>. QED
    BY <1>1, <1>2, <1>5 DEF Bounded

LEMMA CloseReturnsKeepsLeases ==
    ASSUME SessionsInv, NEW t \in Tasks, CloseReturns(t)
    PROVE  LeaseInv'
<1>. USE DEF SessionsInv
<1>1. /\ at[t] = "closing" /\ UNCHANGED <<closed, live, holder, queue, held>>
      /\ cwd' = cwd \ {Id(target[t])}
    BY DEF CloseReturns, provider
<1>2. PICK ok \in BOOLEAN : Dropped(t, ok)
    BY DEF CloseReturns
<1>3. /\ target[t] # None /\ target[t] \in Lease
      /\ \A l \in live : Id(l) # Id(target[t])
    BY <1>1, TargetOf DEF LeaseInv, Apart
<1>. DEFINE s0 == Id(target[t])
<1>4. s0 \in Ids /\ s0 \in cwd /\ s0 \notin lost
    <2>1. s0 \in Ids
        BY <1>3 DEF Lease, Id
    <2>. QED
        BY <1>1, <2>1 DEF LeaseInv, Accounted, IsOpen
<1>5. /\ sessions' \subseteq Ids /\ lost' \subseteq Ids /\ Bounded'
      /\ \A s \in Ids : s # s0 => /\ s \in sessions' <=> s \in sessions
                                  /\ s \in lost' <=> s \in lost
      /\ s0 \in sessions' <=> s0 \in lost'
    <2>1. CASE sessions' = sessions \ {s0} /\ lost' = lost
        BY <1>4, <2>1 DEF LeaseInv, Typed, Bounded
    <2>2. CASE StaysOpen(s0)
        BY <1>4, <2>2, LostGrows
    <2>. QED
        BY <2>1, <2>2 DEF CloseReturns
<1>6. /\ TaskFormed(t)' /\ CallsTyped' /\ Beside(t)
      /\ at'[t] \in {"open", "next", "idle"}
    <2>1. target[t] \notin live'
        BY <1>1, <1>3
    <2>. QED
        BY <1>1, <1>2, <2>1, DroppedFormed
<1>7. Typed'
    BY <1>1, <1>6, <1>5 DEF LeaseInv, Typed
<1>8. Lined'
    <2>1. \A u \in Tasks : (holder' = u) <=> (at'[u] = "opening")
        BY <1>1, <1>6 DEF LeaseInv, Lined, Beside
    <2>2. at[t] \notin Waiting /\ at'[t] \notin Waiting
        BY <1>1, <1>6 DEF Waiting
    <2>. QED
        BY <1>1, <1>6, <2>1, <2>2, LineKept DEF LeaseInv
<1>9. \A u \in Tasks : TaskFormed(u)'
    BY <1>1, <1>6, OthersFormed
<1>10. \A u \in Tasks : at'[u] \in {"closing", "opening"}
                       => u # t /\ at'[u] = at[u] /\ target'[u] = target[u]
    BY <1>6 DEF Beside
<1>11. Apart'
    BY <1>1, <1>10 DEF LeaseInv, Apart, Tasks
<1>12. \A u \in Tasks : at'[u] \in {"closing", "opening"} => Id(target'[u]) # Id(target[t])
    BY <1>1, <1>10, OpeningAlone DEF LeaseInv, Apart
<1>13. \A u \in Tasks \ {t} : at'[u] = at[u] /\ target'[u] = target[u]
    BY <1>6 DEF Beside
<1>14. \A s \in Ids : IsOpen(s)' <=> IsOpen(s) /\ s # Id(target[t])
    BY <1>1, <1>3, <1>10, <1>12, <1>13 DEF IsOpen
<1>15. \A s \in Ids : (\E u \in Tasks : at'[u] = "opening" /\ s = Id(target'[u]))
                      <=> (\E u \in Tasks : at[u] = "opening" /\ s = Id(target[u])) /\ s # Id(target[t])
    BY <1>1, <1>10, <1>12, <1>13
<1>16. Accounted'
    <2>1. s0 = Id(target[t])
        OBVIOUS
    <2>. HIDE DEF s0
    <2>. QED
        BY <1>1, <1>14, <1>15, <1>5, <2>1 DEF LeaseInv, Accounted
<1>. QED
    BY <1>7, <1>8, <1>9, <1>11, <1>16, <1>5 DEF LeaseInv

LEMMA OpenReturnsKeepsLeases ==
    ASSUME SessionsInv, NEW t \in Tasks, OpenReturns(t)
    PROVE  LeaseInv'
<1>. USE DEF SessionsInv
<1>1. /\ at[t] = "opening" /\ UNCHANGED <<closed, queue, cwd, lost>>
      /\ live' = live \cup {target[t]} /\ sessions' = sessions \cup {Id(target[t])}
      /\ held' = [held EXCEPT ![t] = target[t]] /\ holder' = None /\ End(t, "acquired")
    BY DEF OpenReturns
<1>2. /\ t \in Hosts /\ t \notin Closers /\ ~closed /\ holder = t
      /\ target[t] \in Lease /\ target[t] # None /\ held[t] \notin live
      /\ \A u \in Tasks \ {t} : at[u] # "opening"
      /\ \A l \in live : Id(l) # Id(target[t])
      /\ \A u \in Tasks : at[u] = "closing" => Id(target[u]) # Id(target[t])
    BY <1>1, OpeningAlone
<1>3. CallsTyped /\ held \in [Tasks -> Lease \cup {None}] /\ Id(target[t]) \in Ids
    BY <1>2 DEF LeaseInv, Typed, Lease, Id
<1>4. CallsTyped' /\ Beside(t) /\ Ends(t, "acquired")
    BY <1>1, <1>3, EndForms
<1>5. held'[t] = target[t] /\ \A u \in Tasks \ {t} : held'[u] = held[u]
    BY <1>1, <1>3
<1>6. Typed'
    <2>1. held' \in [Tasks -> Lease \cup {None}]
        BY <1>1, <1>2, <1>3
    <2>. QED
        BY <1>1, <1>2, <1>3, <1>4, <2>1 DEF LeaseInv, Typed
<1>7. Lined'
    <2>1. at'[t] = "idle"
        BY <1>4 DEF Ends
    <2>2. \A u \in Tasks : (holder' = u) <=> (at'[u] = "opening")
        BY <1>1, <1>2, <1>4, <2>1 DEF ShutdownInv, Beside
    <2>3. at[t] \notin Waiting /\ at'[t] \notin Waiting
        BY <1>1, <2>1 DEF Waiting
    <2>. QED
        BY <1>1, <1>4, <2>2, <2>3, LineKept DEF LeaseInv
<1>8. TaskFormed(t)'
    <2>1. TaskFormed(t)
        BY DEF LeaseInv
    <2>2. target[t][2] = want[t]
        BY <1>1, <1>2, <2>1 DEF TaskFormed, HostFormed
    <2>3. HostFormed(t)' /\ HostLeased(t)'
        BY <1>1, <1>2, <1>4, <1>5, <2>2 DEF HostFormed, HostLeased, Ends
    <2>. QED
        BY <1>2, <2>3 DEF TaskFormed
<1>9. \A u \in Tasks : TaskFormed(u)'
    <2>1. \A h \in Hosts \ {t} : held[h] # target[t]
        BY <1>1, <1>2 DEF LeaseInv, Apart
    <2>. QED
        BY <1>1, <1>4, <1>5, <1>8, <2>1, OthersFormed
<1>10. \A u \in Tasks : /\ at'[u] # "opening"
                        /\ at'[u] = "closing" <=> at[u] = "closing"
                        /\ at'[u] = "closing" => target'[u] = target[u]
    BY <1>1, <1>2, <1>4 DEF Beside, Ends
<1>11. Apart'
    <2>1. \A l \in live' : \E h \in Hosts : held'[h] = l
        BY <1>1, <1>2, <1>5 DEF LeaseInv, Apart, Tasks
    <2>2. \A g, h \in Hosts : g # h /\ held'[g] # None /\ held'[h] # None
                              => Id(held'[g]) # Id(held'[h])
        <3>1. \A h \in Hosts \ {t} : held'[h] = held[h]
            BY <1>5 DEF Tasks
        <3>2. \A h \in Hosts \ {t} : held[h] # None => Id(held[h]) # Id(target[t])
            BY <1>1, <1>2 DEF LeaseInv, Apart
        <3>. QED
            BY <1>5, <3>1, <3>2 DEF LeaseInv, Apart
    <2>3. \A u \in Tasks : at'[u] = "closing" => \A l \in live' : Id(l) # Id(target'[u])
        BY <1>1, <1>2, <1>10 DEF LeaseInv, Apart
    <2>4. \A u, v \in Tasks :
             u # v /\ at'[u] = "closing" /\ at'[v] = "closing" => Id(target'[u]) # Id(target'[v])
        BY <1>10 DEF LeaseInv, Apart
    <2>. QED
        BY <1>10, <2>1, <2>2, <2>3, <2>4 DEF Apart, Tasks
<1>12. \A s \in Ids : IsOpen(s)' <=> IsOpen(s) \/ s = Id(target[t])
    BY <1>1, <1>10 DEF IsOpen
<1>13. \A s \in Ids : (\E u \in Tasks : at[u] = "opening" /\ s = Id(target[u])) <=> s = Id(target[t])
    BY <1>1, <1>2
<1>14. Accounted'
    BY <1>1, <1>10, <1>12, <1>13 DEF LeaseInv, Accounted
<1>15. Bounded'
    BY <1>1 DEF LeaseInv, Bounded
<1>. QED
    BY <1>6, <1>7, <1>9, <1>11, <1>14, <1>15 DEF LeaseInv

LEMMA OpenFailsKeepsLeases ==
    ASSUME SessionsInv, NEW t \in Tasks, OpenFails(t)
    PROVE  LeaseInv'
<1>. USE DEF SessionsInv
<1>1. /\ at[t] = "opening" /\ UNCHANGED <<closed, live, queue, held>>
      /\ cwd' = cwd \ {Id(target[t])} /\ holder' = None /\ End(t, "nothing")
    BY DEF OpenFails, OpenAborts
<1>2. /\ t \in Hosts /\ ~closed /\ holder = t /\ target[t] \in Lease
      /\ \A u \in Tasks \ {t} : at[u] # "opening"
      /\ \A l \in live : Id(l) # Id(target[t])
      /\ \A u \in Tasks : at[u] = "closing" => Id(target[u]) # Id(target[t])
    BY <1>1, OpeningAlone
<1>3. CallsTyped
    BY DEF LeaseInv, Typed
<1>. DEFINE s0 == Id(target[t])
<1>4. s0 \in Ids /\ s0 \notin lost /\ ~IsOpen(s0)
    <2>1. s0 \in Ids
        BY <1>2 DEF Lease, Id
    <2>. QED
        BY <1>1, <1>2, <2>1 DEF LeaseInv, Accounted, IsOpen
<1>5. /\ sessions' \subseteq Ids /\ lost' \subseteq Ids /\ Bounded'
      /\ \A s \in Ids : s # s0 => /\ s \in sessions' <=> s \in sessions
                                  /\ s \in lost' <=> s \in lost
      /\ s0 \in sessions' <=> s0 \in lost'
    <2>1. CASE sessions' = sessions /\ lost' = lost
        BY <1>4, <2>1 DEF LeaseInv, Typed, Bounded, Accounted
    <2>2. CASE StaysOpen(s0)
        BY <1>4, <2>2, LostGrows
    <2>. QED
        BY <2>1, <2>2 DEF OpenFails, OpenAborts
<1>6. CallsTyped' /\ Beside(t) /\ Ends(t, "nothing") /\ at'[t] = "idle"
    BY <1>1, <1>3, EndForms DEF Ends
<1>7. Typed'
    BY <1>1, <1>6, <1>5 DEF LeaseInv, Typed
<1>8. Lined'
    <2>1. \A u \in Tasks : (holder' = u) <=> (at'[u] = "opening")
        BY <1>1, <1>2, <1>6 DEF ShutdownInv, Beside
    <2>2. at[t] \notin Waiting /\ at'[t] \notin Waiting
        BY <1>1, <1>6 DEF Waiting
    <2>. QED
        BY <1>1, <1>6, <2>1, <2>2, LineKept DEF LeaseInv
<1>9. \A u \in Tasks : TaskFormed(u)'
    <2>1. TaskFormed(t)'
        BY <1>1, <1>6, EndFormed DEF LeaseInv
    <2>. QED
        BY <1>1, <1>6, <2>1, OthersFormed
<1>10. \A u \in Tasks : /\ at'[u] # "opening"
                        /\ at'[u] = "closing" <=> at[u] = "closing"
                        /\ at'[u] = "closing" => target'[u] = target[u]
    BY <1>1, <1>2, <1>6 DEF Beside
<1>11. Apart'
    BY <1>1, <1>10 DEF LeaseInv, Apart, Tasks
<1>12. \A s \in Ids : /\ IsOpen(s)' <=> IsOpen(s)
                      /\ IsOpen(s) => s # Id(target[t])
    BY <1>1, <1>2, <1>10 DEF IsOpen
<1>13. \A s \in Ids : (\E u \in Tasks : at[u] = "opening" /\ s = Id(target[u])) <=> s = Id(target[t])
    BY <1>1, <1>2
<1>14. Accounted'
    <2>1. s0 = Id(target[t])
        OBVIOUS
    <2>. HIDE DEF s0
    <2>. QED
        BY <1>1, <1>10, <1>12, <1>13, <1>5, <2>1 DEF LeaseInv, Accounted
<1>. QED
    BY <1>7, <1>8, <1>9, <1>11, <1>14, <1>5 DEF LeaseInv

-----------------------------------------------------------------------------
(* As long as the provider is not closed and opens nothing, a session is   *)
(* known by the host that it was given to alone; there are more names than *)
(* hosts and lost sessions together, so one of them is not in use.         *)
LEMMA FreshUnknown ==
    ASSUME SessionsInv, ~closed, holder = None
    PROVE  Fresh \in Ids /\ Fresh \notin Known /\ Fresh \notin lost
<1>. USE DEF SessionsInv
<1>. DEFINE H == {h \in Hosts : held[h] # None}
            f == [h \in H |-> Id(held[h])]
<1>1. live \subseteq Lease /\ held \in [Tasks -> Lease \cup {None}] /\ target \in [Tasks -> Lease \cup {None}]
    BY DEF LeaseInv, Typed, CallsTyped
<1>2. \A l \in live : \E h \in H : held[h] = l
    BY <1>1, SessionsAssumption DEF LeaseInv, Apart, Lease
<1>3. \A t \in Tasks : held[t] # None => t \in H
    BY DEF LeaseInv, TaskFormed, CloserFormed, Tasks
<1>4. ASSUME NEW t \in Tasks, target[t] # None
      PROVE  t \in H /\ target[t] = held[t]
    <2>1. at[t] # "opening" /\ TaskFormed(t)
        BY SessionsAssumption DEF ShutdownInv, Locked, LeaseInv
    <2>2. t \notin Closers
        BY <1>4, <2>1 DEF TaskFormed, CloserFormed
    <2>3. t \in Hosts
        BY <2>2 DEF Tasks
    <2>. QED
        BY <1>4, <2>1, <2>3 DEF TaskFormed, HostFormed
<1>5. Known = {Id(held[h]) : h \in H}
    <2>1. \A l \in (live \cup Range(held) \cup Range(target)) \ {None} : \E h \in H : l = held[h]
        BY <1>1, <1>2, <1>3, <1>4 DEF Range
    <2>2. \A h \in H : held[h] \in (live \cup Range(held) \cup Range(target)) \ {None}
        BY <1>1 DEF Range, Tasks
    <2>. HIDE DEF H
    <2>. QED
        BY <2>1, <2>2 DEF Known
<1>6. f \in Surjection(H, Known)
    BY <1>5 DEF Surjection
<1>7. IsFiniteSet(H) /\ Cardinality(H) <= Cardinality(Hosts)
    <2>1. H \in SUBSET Hosts
        OBVIOUS
    <2>. HIDE DEF H
    <2>. QED
        BY <2>1, FS_Subset, SessionsAssumption
<1>8. IsFiniteSet(Known) /\ Cardinality(Known) <= Cardinality(H)
    <2>. HIDE DEF H, f
    <2>. QED
        BY <1>6, <1>7, FS_Surjection
<1>9. IsFiniteSet(lost) /\ Cardinality(lost) <= MaxLost
    BY FS_Subset, SessionsAssumption DEF LeaseInv, Typed, Bounded
<1>10. \E s \in Ids : s \notin Known \cup lost
    <2>1. SUFFICES ASSUME Ids \subseteq Known \cup lost
                   PROVE  FALSE
        OBVIOUS
    <2>2. /\ IsFiniteSet(Known \cup lost) /\ Cardinality(Known \cup lost) \in Nat
          /\ Cardinality(Known \cup lost) <= Cardinality(Known) + Cardinality(lost)
        <3>1. /\ IsFiniteSet(Known \cup lost) /\ IsFiniteSet(Known \cap lost)
              /\ Cardinality(Known \cup lost)
                    = Cardinality(Known) + Cardinality(lost) - Cardinality(Known \cap lost)
            BY <1>8, <1>9, FS_Union, FS_Intersection
        <3>2. /\ Cardinality(Known) \in Nat /\ Cardinality(lost) \in Nat
              /\ Cardinality(Known \cap lost) \in Nat /\ Cardinality(Known \cup lost) \in Nat
            BY <1>8, <1>9, <3>1, FS_CardinalityType
        <3>. QED
            BY <3>1, <3>2
    <2>3. Cardinality(Ids) <= Cardinality(Known \cup lost)
        BY <2>1, <2>2, FS_Subset
    <2>4. /\ Cardinality(Ids) \in Nat /\ Cardinality(Known) \in Nat /\ Cardinality(lost) \in Nat
          /\ Cardinality(H) \in Nat /\ Cardinality(Hosts) \in Nat /\ MaxLost \in Nat
        BY <1>7, <1>8, <1>9, FS_CardinalityType, SessionsAssumption
    <2>5. Cardinality(Ids) > Cardinality(Hosts) + MaxLost
        BY SessionsAssumption
    <2>. HIDE DEF H
    <2>. QED
        BY <1>7, <1>8, <1>9, <2>2, <2>3, <2>4, <2>5
<1>. QED
    BY <1>10 DEF Fresh

LEMMA OpenEntersKeepsLeases ==
    ASSUME SessionsInv, NEW t \in Tasks, OpenEnters(t)
    PROVE  LeaseInv'
<1>. USE DEF SessionsInv
<1>1. /\ Enter(t, "open") /\ holder = None /\ at[t] \in {"open", "open_wait"}
      /\ UNCHANGED <<closed, live, sessions, lost, held>>
    BY EnterFree DEF OpenEnters, WaitFor
<1>2. /\ CallsTyped /\ closed \in BOOLEAN /\ holder \in Tasks \cup {None} /\ TaskFormed(t) /\ Lined
      /\ (t \in Hosts \/ t \in Closers)
    BY DEF LeaseInv, Typed, Tasks
<1>3. t \in Hosts /\ t \notin Closers
    BY <1>1, <1>2 DEF TaskFormed, CloserFormed
<1>4. HostFormed(t) /\ HostLeased(t) /\ call[t] = "acquire"
    BY <1>1, <1>2, <1>3 DEF TaskFormed, HostFormed
<1>5. CASE closed
    <2>1. End(t, "nothing") /\ UNCHANGED <<cwd, holder>>
        BY <1>5 DEF OpenEnters, MayOpen
    <2>2. CallsTyped' /\ Beside(t) /\ Ends(t, "nothing") /\ at'[t] = "idle"
        BY <1>2, <2>1, EndForms DEF Ends
    <2>3. TaskFormed(t)'
        BY <1>1, <1>2, <2>2, EndFormed
    <2>4. \A u \in Tasks : (holder' = u) <=> (at'[u] = "opening")
        BY <1>1, <1>2, <2>1, <2>2 DEF Lined, Beside
    <2>5. Lined'
        <3>1. at'[t] \notin Waiting
            BY <2>2 DEF Waiting
        <3>. QED
            BY <1>1, <1>2, <2>2, <2>4, <3>1, EnterMoves
    <2>. QED
        BY <1>1, <1>2, <2>1, <2>2, <2>3, <2>5, Aside
<1>6. CASE ~closed
    <2>. DEFINE l == <<Fresh, want[t]>>
    <2>1. /\ target' = [target EXCEPT ![t] = l] /\ cwd' = cwd \cup {Fresh} /\ holder' = t
          /\ at' = [at EXCEPT ![t] = "opening"] /\ UNCHANGED <<call, todo, failed, outcome, want>>
        BY <1>6 DEF OpenEnters, MayOpen, Turn
    <2>2. Fresh \in Ids /\ Fresh \notin Known /\ Fresh \notin lost
        BY <1>1, <1>6, FreshUnknown
    <2>3. want[t] \in Contracts \cup {"isolated"}
        BY <1>4 DEF HostFormed
    <2>4. l \in Lease /\ Id(l) = Fresh /\ l[2] = want[t]
        BY <2>2, <2>3 DEF Lease, Id
    <2>5. l # None
        BY <2>4, SessionsAssumption DEF Lease
    <2>. HIDE DEF l
    <2>6. /\ at'[t] = "opening" /\ target'[t] = l /\ call'[t] = call[t] /\ outcome'[t] = outcome[t]
          /\ want'[t] = want[t] /\ Beside(t)
        BY <1>2, <2>1 DEF CallsTyped, Beside
    <2>7. CallsTyped'
        <3>1. /\ at' \in [Tasks -> Running \cup Waiting \cup {"idle", "closing", "opening"}]
              /\ target' \in [Tasks -> Lease \cup {None}]
            BY <1>2, <2>1, <2>4 DEF CallsTyped
        <3>. QED
            BY <1>2, <2>1, <3>1 DEF CallsTyped
    <2>8. Typed'
        BY <1>1, <2>1, <2>2, <2>7 DEF LeaseInv, Typed
    <2>9. None \notin Tasks
        BY DEF ShutdownInv
    <2>10. \A u \in Tasks : (holder' = u) <=> (at'[u] = "opening")
        BY <1>1, <1>2, <2>1, <2>6, <2>9, HolderKept
    <2>11. Lined'
        <3>1. at'[t] \notin Waiting
            BY <2>6 DEF Waiting
        <3>. QED
            BY <1>1, <1>2, <2>6, <2>10, <3>1, EnterMoves
    <2>12. TaskFormed(t)'
        <3>1. HostFormed(t)' /\ HostLeased(t)'
            BY <1>1, <1>3, <1>4, <2>4, <2>5, <2>6 DEF HostFormed, HostLeased
        <3>. QED
            BY <1>3, <3>1 DEF TaskFormed
    <2>13. \A u \in Tasks : TaskFormed(u)'
        BY <1>1, <2>6, <2>12, OthersFormed
    <2>14. \A u \in Tasks : /\ at[u] # "opening"
                            /\ at'[u] = "opening" <=> u = t
                            /\ at'[u] = "closing" <=> at[u] = "closing"
                            /\ at'[u] = "closing" => target'[u] = target[u]
        BY <1>1, <1>2, <2>6, <2>9 DEF Lined, Beside
    <2>15. Apart'
        <3>1. \A h \in Hosts : held[h] # None => Id(held[h]) # Id(target'[t])
            <4>. SUFFICES ASSUME NEW h \in Hosts, held[h] # None
                          PROVE  Id(held[h]) # Fresh
                BY <2>4, <2>6
            <4>1. h \in Tasks /\ held \in [Tasks -> Lease \cup {None}]
                BY DEF LeaseInv, Typed, Tasks
            <4>2. held[h] \in (live \cup Range(held) \cup Range(target)) \ {None}
                BY <4>1 DEF Range
            <4>3. Id(held[h]) \in Known
                BY <4>2 DEF Known
            <4>. QED
                BY <2>2, <4>3
        <3>. QED
            BY <1>1, <1>3, <2>14, <3>1 DEF LeaseInv, Apart, Tasks
    <2>16. \A s \in Ids : IsOpen(s)' <=> IsOpen(s)
        BY <1>1, <2>14 DEF IsOpen
    <2>17. \A s \in Ids : (\E u \in Tasks : at'[u] = "opening" /\ s = Id(target'[u])) <=> s = Fresh
        BY <2>4, <2>6, <2>14
    <2>18. Accounted' /\ Bounded'
        BY <1>1, <2>1, <2>2, <2>14, <2>16, <2>17 DEF LeaseInv, Accounted, Bounded
    <2>. QED
        BY <2>8, <2>11, <2>13, <2>15, <2>18 DEF LeaseInv
<1>. QED
    BY <1>5, <1>6

LEMMA ShutEntersKeepsLeases ==
    ASSUME SessionsInv, NEW t \in Tasks, ShutEnters(t)
    PROVE  LeaseInv'
<1>. USE DEF SessionsInv
<1>1. /\ Enter(t, "shut") /\ at[t] \in {"shut", "shut_wait"}
      /\ UNCHANGED <<live, holder, sessions, cwd, lost, held>>
    BY EnterFree DEF ShutEnters, WaitFor, world
<1>2. /\ CallsTyped /\ closed \in BOOLEAN /\ holder \in Tasks \cup {None} /\ TaskFormed(t) /\ Lined
      /\ live \subseteq Lease /\ (t \in Hosts \/ t \in Closers)
    BY DEF LeaseInv, Typed, Tasks
<1>3. t \in Closers /\ t \notin Hosts /\ CloserFormed(t)
    BY <1>1, <1>2 DEF TaskFormed, HostFormed
<1>4. /\ CallsTyped' /\ Beside(t) /\ TaskFormed(t)' /\ at'[t] \in {"idle", "next"}
      /\ closed' \in BOOLEAN /\ (closed => closed')
    <2>1. CASE closed
        <3>1. End(t, "nothing") /\ closed' = closed
            BY <2>1 DEF ShutEnters
        <3>2. CallsTyped' /\ Beside(t) /\ Ends(t, "nothing") /\ at'[t] = "idle"
            BY <1>2, <3>1, EndForms DEF Ends
        <3>3. TaskFormed(t)'
            BY <1>1, <1>2, <3>2, EndFormed
        <3>. QED
            BY <1>2, <3>1, <3>2, <3>3
    <2>2. CASE ~closed
        <3>1. /\ closed' = TRUE /\ todo' = [todo EXCEPT ![t] = live]
              /\ at' = [at EXCEPT ![t] = "next"]
              /\ UNCHANGED <<call, target, failed, outcome, want>>
            BY <2>2 DEF ShutEnters, Turn
        <3>2. at'[t] = "next" /\ Beside(t) /\ Proceeds(t)
            BY <1>2, <3>1 DEF CallsTyped, Beside, Proceeds
        <3>3. /\ at' \in [Tasks -> Running \cup Waiting \cup {"idle", "closing", "opening"}]
              /\ todo' \in [Tasks -> SUBSET Lease]
            BY <1>2, <3>1 DEF CallsTyped, Running
        <3>4. CallsTyped'
            BY <1>2, <3>1, <3>3 DEF CallsTyped
        <3>5. CloserFormed(t)'
            BY <1>1, <1>3, <3>1, <3>2 DEF CloserFormed, Proceeds
        <3>. QED
            BY <1>3, <3>1, <3>2, <3>4, <3>5 DEF TaskFormed
    <2>. QED
        BY <2>1, <2>2
<1>5. Lined'
    <2>1. at'[t] \notin Waiting
        BY <1>4 DEF Waiting
    <2>2. \A u \in Tasks : (holder' = u) <=> (at'[u] = "opening")
        BY <1>1, <1>2, <1>4 DEF Lined, Beside
    <2>. QED
        BY <1>1, <1>2, <1>4, <2>1, <2>2, EnterMoves
<1>. QED
    BY <1>1, <1>2, <1>4, <1>5, Aside

LEMMA ShutNextKeepsLeases ==
    ASSUME SessionsInv, NEW t \in Tasks, ShutNext(t)
    PROVE  LeaseInv'
<1>. USE DEF SessionsInv
<1>1. at[t] = "next" /\ UNCHANGED <<closed, live, holder, queue, sessions, cwd, lost, held>>
    BY DEF ShutNext, provider, world
<1>2. /\ CallsTyped /\ closed \in BOOLEAN /\ holder \in Tasks \cup {None} /\ TaskFormed(t)
      /\ (t \in Hosts \/ t \in Closers)
    BY DEF LeaseInv, Typed, Tasks
<1>3. t \in Closers /\ t \notin Hosts /\ CloserFormed(t) /\ closed
    BY <1>1, <1>2 DEF TaskFormed, HostFormed, ShutdownInv, Shutting, InOrder
<1>4. CallsTyped' /\ Beside(t) /\ TaskFormed(t)' /\ at'[t] \in {"idle", "drop"}
    <2>1. CASE End(t, IF failed[t] THEN "nothing" ELSE "shut")
        <3>1. PICK how \in {"nothing", "shut"} : End(t, how)
            BY <2>1
        <3>2. CallsTyped' /\ Beside(t) /\ Ends(t, how)
            BY <1>2, <3>1, EndForms
        <3>3. at'[t] = "idle"
            BY <3>2 DEF Ends
        <3>4. TaskFormed(t)'
            BY <1>1, <1>2, <1>3, <3>2, EndFormed
        <3>. QED
            BY <3>2, <3>3, <3>4
    <2>2. ASSUME NEW s \in todo[t],
                 target' = [target EXCEPT ![t] = s], todo' = [todo EXCEPT ![t] = @ \ {s}],
                 at' = [at EXCEPT ![t] = "drop"], UNCHANGED <<call, failed, outcome, want>>
          PROVE  CallsTyped' /\ Beside(t) /\ TaskFormed(t)' /\ at'[t] \in {"idle", "drop"}
        <3>1. s \in Lease /\ s # None
            BY <1>2, SessionsAssumption DEF CallsTyped, Lease
        <3>2. /\ at'[t] = "drop" /\ target'[t] = s /\ call'[t] = call[t] /\ outcome'[t] = outcome[t]
              /\ Beside(t)
            BY <1>2, <2>2 DEF CallsTyped, Beside
        <3>3. /\ at' \in [Tasks -> Running \cup Waiting \cup {"idle", "closing", "opening"}]
              /\ target' \in [Tasks -> Lease \cup {None}]
              /\ todo' \in [Tasks -> SUBSET Lease]
            BY <1>2, <2>2, <3>1 DEF CallsTyped, Running
        <3>4. CallsTyped'
            BY <1>2, <2>2, <3>3 DEF CallsTyped
        <3>5. CloserFormed(t)'
            BY <1>1, <1>3, <3>1, <3>2 DEF CloserFormed
        <3>. QED
            BY <1>3, <3>2, <3>4, <3>5 DEF TaskFormed
    <2>. QED
        BY <2>1, <2>2 DEF ShutNext, Turn
<1>5. Lined'
    <2>1. at[t] \notin Waiting /\ at'[t] \notin Waiting
        BY <1>1, <1>4 DEF Waiting
    <2>2. \A u \in Tasks : (holder' = u) <=> (at'[u] = "opening")
        BY <1>1, <1>4 DEF LeaseInv, Lined, Beside
    <2>. QED
        BY <1>1, <1>4, <2>1, <2>2, LineKept DEF LeaseInv
<1>. QED
    BY <1>1, <1>2, <1>4, <1>5, Aside

LEMMA CancelWaitKeepsLeases ==
    ASSUME SessionsInv, NEW t \in Tasks, CancelWait(t)
    PROVE  LeaseInv'
<1>. USE DEF SessionsInv
<1>1. at[t] \in Waiting /\ Leave(t) /\ UNCHANGED <<closed, live, holder, sessions, cwd, lost, held>>
    BY DEF CancelWait, world
<1>2. CallsTyped /\ closed \in BOOLEAN /\ holder \in Tasks \cup {None} /\ TaskFormed(t)
    BY DEF LeaseInv, Typed
<1>3. CallsTyped' /\ Beside(t) /\ TaskFormed(t)' /\ at'[t] \in {"open", "next", "idle"}
    <2>1. CASE at[t] = "drop_wait" /\ Dropped(t, FALSE)
        BY <1>1, <2>1, DroppedFormed
    <2>2. CASE End(t, "nothing")
        <3>1. CallsTyped' /\ Beside(t) /\ Ends(t, "nothing") /\ at'[t] = "idle"
            BY <1>2, <2>2, EndForms DEF Ends
        <3>2. TaskFormed(t)'
            BY <1>1, <1>2, <3>1, EndFormed
        <3>. QED
            BY <3>1, <3>2
    <2>. QED
        BY <2>1, <2>2 DEF CancelWait
<1>4. at[t] # "opening" /\ at[t] # "closing" /\ at'[t] \notin Waiting
    BY <1>1, <1>3 DEF Waiting
<1>5. Lined'
    <2>1. \A u \in Tasks : (holder' = u) <=> (at'[u] = "opening")
        BY <1>1, <1>3, <1>4 DEF LeaseInv, Lined, Beside
    <2>. QED
        BY <1>1, <1>3, <1>4, <2>1, LineKept DEF LeaseInv
<1>. QED
    BY <1>1, <1>2, <1>3, <1>4, <1>5, Aside

-----------------------------------------------------------------------------
LEMMA SessionsInvInductive == Spec => []SessionsInv
<1>1. Init => SessionsInv
    <2>. SUFFICES ASSUME Init
                  PROVE  SessionsInv
        OBVIOUS
    <2>1. ShutdownInv
        BY SessionsAssumption DEF Init, ShutdownInv, Functional, Locked, Shutting, InOrder, Tasks
    <2>2. Typed
        BY DEF Init, Typed, CallsTyped
    <2>3. Lined
        <3>1. None \notin Tasks
            BY SessionsAssumption DEF Tasks
        <3>. QED
            BY <3>1 DEF Init, Lined, Once, Range, Waiting
    <2>4. \A t \in Tasks : TaskFormed(t)
        BY DEF Init, TaskFormed, HostFormed, HostLeased, CloserFormed, Tasks
    <2>5. Apart
        BY DEF Init, Apart, Tasks
    <2>6. Accounted /\ Bounded
        BY FS_EmptySet, SessionsAssumption DEF Init, Accounted, IsOpen, Bounded
    <2>. QED
        BY <2>1, <2>2, <2>3, <2>4, <2>5, <2>6 DEF SessionsInv, LeaseInv
<1>2. SessionsInv /\ [Next]_vars => SessionsInv'
    <2>. SUFFICES ASSUME SessionsInv, [Next]_vars
                  PROVE  SessionsInv'
        OBVIOUS
    <2>1. ShutdownInv'
        <3>1. CASE UNCHANGED vars
            BY <3>1 DEF vars, provider, hosts, SessionsInv, ShutdownInv, Functional, Locked, Shutting, InOrder, Left
        <3>. QED
            BY <3>1, RequestsKeep, StepsKeep DEF Next, SessionsInv
    <2>2. LeaseInv'
        <3>1. CASE UNCHANGED vars
            BY <3>1 DEF vars, provider, world, hosts, SessionsInv, LeaseInv, Typed, CallsTyped, Lined, Once,
                        TaskFormed, HostFormed, HostLeased, CloserFormed, Apart, Accounted, IsOpen,
                        Bounded
        <3>2. ASSUME NEW t \in Tasks, Steps(t)
              PROVE  LeaseInv'
            BY <3>2, WaitKeepsLeases, DropEntersKeepsLeases, CloseReturnsKeepsLeases,
               OpenEntersKeepsLeases, OpenReturnsKeepsLeases, OpenFailsKeepsLeases,
               ShutEntersKeepsLeases, ShutNextKeepsLeases DEF Steps
        <3>. QED
            BY <3>1, <3>2, RequestsKeepLeases, CancelWaitKeepsLeases DEF Next
    <2>. QED
        BY <2>1, <2>2 DEF SessionsInv
<1>. QED
    BY <1>1, <1>2, PTL DEF Spec

(* Every variable of the provider and of its callers keeps its type, the   *)
(* lock is held over the opening of a session alone, and exactly those     *)
(* stand in its line who wait for it.                                      *)
THEOREM SessionsTypes == Spec => []TypeOK
<1>1. SessionsInv => TypeOK
    BY DEF SessionsInv, LeaseInv, Typed, CallsTyped, Lined, TypeOK
<1>. QED
    BY <1>1, SessionsInvInductive, PTL

(* Whatever fails, is cancelled or races: no directory is leaked, none is  *)
(* removed twice, and a session that is open without being leased or       *)
(* closed was left by a call that failed (183-188, 291-299).               *)
THEOREM ResourcesAreAccounted == Spec => []ResourcesAccounted
<1>1. SessionsInv => ResourcesAccounted
    <2>. SUFFICES ASSUME SessionsInv
                  PROVE  ResourcesAccounted
        OBVIOUS
    <2>1. /\ sessions \subseteq Ids /\ cwd \subseteq Ids /\ lost \subseteq Ids
          /\ \A l \in live : Id(l) \in Ids
        BY DEF SessionsInv, LeaseInv, Typed, Lease, Id
    <2>2. \A t \in Tasks : at[t] \in {"opening", "closing"} => Id(target[t]) \in Ids
        <3>1. \A t \in Tasks : at[t] \in {"opening", "closing"} => target[t] \in Lease
            BY OpeningAlone, TargetOf
        <3>. QED
            BY <3>1 DEF Lease, Id
    <2>3. \A s \in Ids : /\ s \in sessions <=> IsOpen(s) \/ s \in lost
                         /\ s \in cwd <=> IsOpen(s) \/ \E t \in Tasks : at[t] = "opening" /\ s = Id(target[t])
                         /\ s \in lost => s \notin cwd
        BY DEF SessionsInv, LeaseInv, Accounted
    <2>. DEFINE Busy(place) == {t \in Tasks : at[t] = place}
                Ours(place) == {Id(target[t]) : t \in Busy(place)}
                Leased      == {Id(l) : l \in live}
    <2>4. \A s : s \in Leased \cup Ours("closing") <=> IsOpen(s)
        BY DEF IsOpen
    <2>5. sessions = Leased \cup Ours("closing") \cup lost /\ lost \cap cwd = {}
        BY <2>1, <2>2, <2>3, <2>4
    <2>6. cwd = Leased \cup Ours("opening") \cup Ours("closing")
        BY <2>1, <2>2, <2>3, <2>4
    <2>7. \A t, u \in Busy("closing") : target[t] = target[u] => t = u
        BY DEF SessionsInv, LeaseInv, Apart
    <2>. QED
        BY <2>5, <2>6, <2>7 DEF ResourcesAccounted
<1>. QED
    BY <1>1, SessionsInvInductive, PTL

(* The lease that an acquisition returned is of the contract asked for, no *)
(* other host has it, and nobody but its host takes it away before the     *)
(* provider is shut down ("live reuse requires exact plan and owner",      *)
(* provider.py:155; 227-235).                                              *)
THEOREM LeasesMatch == Spec => []LeaseMatches
<1>1. SessionsInv => LeaseMatches
    <2>. SUFFICES ASSUME SessionsInv, NEW t \in Tasks, outcome[t] = "acquired"
                  PROVE  /\ held[t][2] = want[t]
                         /\ held[t] \in live \/ closed
                         /\ \A u \in Tasks \ {t} : held[u] # held[t]
        BY DEF LeaseMatches
    <2>1. TaskFormed(t)
        BY DEF SessionsInv, LeaseInv
    <2>2. t \in Hosts
        BY <2>1 DEF TaskFormed, CloserFormed, Tasks
    <2>3. held[t][2] = want[t] /\ held[t] # None /\ (held[t] \in live \/ closed)
        BY <2>1, <2>2 DEF TaskFormed, HostFormed, HostLeased
    <2>4. ASSUME NEW u \in Tasks, u # t
          PROVE  held[u] # held[t]
        <3>1. CASE u \in Hosts
            BY <2>2, <2>3, <2>4, <3>1 DEF SessionsInv, LeaseInv, Apart
        <3>2. CASE u \in Closers
            BY <2>3, <3>2 DEF SessionsInv, LeaseInv, TaskFormed, CloserFormed, Tasks
        <3>. QED
            BY <3>1, <3>2 DEF Tasks
    <2>. QED
        BY <2>3, <2>4
<1>. QED
    BY <1>1, SessionsInvInductive, PTL
=============================================================================
