------------------------------- MODULE Sessions -------------------------------
(***************************************************************************)
(* CodexProvider (provider.py:154-412): the sessions of concurrent hosts,  *)
(* their private directories, and the lock that orders opening, discarding *)
(* and shutting down.                                                      *)
(*                                                                         *)
(* Tasks call it; `at' names where a task stands inside its call.  In the  *)
(* places of Running it has not awaited yet, and nothing else moves.  The  *)
(* lock is held over one await only, that of open_session, and is handed   *)
(* on in the order of asking; a free lock is taken without waiting.        *)
(***************************************************************************)
EXTENDS Naturals, Sequences, FiniteSets, Functions

CONSTANTS
    Hosts,       \* tasks that acquire and discard sessions
    Closers,     \* tasks that shut the provider down
    Ids,         \* names of sessions, given again when nobody knows them any more
    Contracts,   \* fingerprint and owner token of a native session
    MaxLost,     \* bound: sessions that failing calls leave open
    None,
    Env          \* what may go wrong

EnvLabels == {"cancel", "fault", "unusable"}

ASSUME SessionsAssumption ==
    /\ IsFiniteSet(Hosts) /\ IsFiniteSet(Closers) /\ Hosts \cap Closers = {}
    /\ MaxLost \in Nat
    /\ IsFiniteSet(Ids) /\ Cardinality(Ids) > Cardinality(Hosts) + MaxLost
    /\ None \notin Hosts \cup Closers \cup Ids \cup Contracts
    /\ None \notin Ids \X (Contracts \cup {"isolated"})
    /\ "isolated" \notin Contracts
    /\ Env \subseteq EnvLabels

Tasks == Hosts \cup Closers

VARIABLES
    \* the provider
    closed,      \* _closed
    live,        \* _leases
    holder,      \* who holds the lock, and who waits for it
    queue,
    \* the world
    sessions,    \* what the runtime has open
    cwd,         \* the directories that exist
    lost,        \* what calls that failed have left open (a history variable)
    \* the calls
    at, call, target, todo, failed, outcome,
    want,        \* the contract asked for
    held         \* the lease a host has in its hands, live or not

provider == <<closed, live, holder, queue>>
world    == <<sessions, cwd, lost>>
hosts    == <<at, call, target, todo, failed, outcome, want, held>>
vars     == <<provider, world, hosts>>

Running == {"drop", "open", "shut", "next"}
Waiting == {"drop_wait", "open_wait", "shut_wait"}
WaitFor == [drop |-> "drop_wait", open |-> "open_wait", shut |-> "shut_wait"]

(* A session, and the fingerprint and owner it was opened for. *)
Lease   == Ids \X (Contracts \cup {"isolated"})
Id(l)   == l[1]

TypeOK ==
    /\ closed \in BOOLEAN /\ live \subseteq Lease
    /\ sessions \subseteq Ids /\ cwd \subseteq Ids /\ lost \subseteq Ids
    /\ holder \in Tasks \cup {None}
    /\ queue \in Seq(Tasks)
    /\ at \in [Tasks -> Running \cup Waiting \cup {"idle", "closing", "opening"}]
    /\ call \in [Tasks -> {"none", "acquire", "discard", "shutdown"}]
    /\ target \in [Tasks -> Lease \cup {None}]
    /\ todo \in [Tasks -> SUBSET Lease]
    /\ failed \in [Tasks -> BOOLEAN]
    /\ outcome \in [Tasks -> {"nothing", "acquired", "shut"}]
    /\ want \in [Tasks -> Contracts \cup {"isolated", None}]
    /\ held \in [Tasks -> Lease \cup {None}]
    /\ \A t \in Tasks : /\ holder = t <=> at[t] = "opening"
                        /\ t \in Range(queue) <=> at[t] \in Waiting

Init ==
    /\ closed = FALSE /\ live = {} /\ holder = None /\ queue = <<>>
    /\ sessions = {} /\ cwd = {} /\ lost = {}
    /\ at = [t \in Tasks |-> "idle"]
    /\ call = [t \in Tasks |-> "none"]
    /\ target = [t \in Tasks |-> None]
    /\ todo = [t \in Tasks |-> {}]
    /\ failed = [t \in Tasks |-> FALSE]
    /\ outcome = [t \in Tasks |-> "nothing"]
    /\ want = [t \in Tasks |-> None]
    /\ held = [t \in Tasks |-> None]

Quiet == \A t \in Tasks : at[t] \notin Running

-----------------------------------------------------------------------------
(* Calls begin and end: with a lease, with the provider shut down, or with *)
(* nothing to show for it (returned or raised).                            *)

Begin(t, what, place) ==
    /\ Quiet /\ at[t] = "idle"
    /\ at' = [at EXCEPT ![t] = place]
    /\ call' = [call EXCEPT ![t] = what]
    /\ outcome' = [outcome EXCEPT ![t] = "nothing"]
    /\ UNCHANGED <<provider, world, todo, failed, held>>

End(t, how) ==
    /\ at' = [at EXCEPT ![t] = "idle"]
    /\ call' = [call EXCEPT ![t] = "none"]
    /\ target' = [target EXCEPT ![t] = None]
    /\ outcome' = [outcome EXCEPT ![t] = how]
    /\ want' = [want EXCEPT ![t] = IF how = "acquired" THEN @ ELSE None]
    /\ failed' = [failed EXCEPT ![t] = FALSE]
    /\ UNCHANGED todo

Turn(t, place) == at' = [at EXCEPT ![t] = place]

(* Mutant: any live session will do. *)
ReusableAny(l, c) == l \in live

(* Whether the runtime still finds the session usable is its own affair. *)
Reusable(l, c) == l \in live /\ l[2] = c

(* acquire_native keeps the session it is given, if it is still the right  *)
(* one, or discards it and opens another.                                  *)
Reuse(t, c) ==
    /\ Quiet /\ at[t] = "idle"
    /\ held[t] # None /\ Reusable(held[t], c)
    /\ outcome' = [outcome EXCEPT ![t] = "acquired"]
    /\ want' = [want EXCEPT ![t] = c]
    /\ UNCHANGED <<provider, world, at, call, target, todo, failed, held>>

Acquire(t, c) ==
    /\ held[t] # None /\ Reusable(held[t], c) => "unusable" \in Env
    /\ Begin(t, "acquire", IF held[t] = None THEN "open" ELSE "drop")
    /\ target' = [target EXCEPT ![t] = held[t]]
    /\ want' = [want EXCEPT ![t] = c]

(* run_one_shot has no session of its own yet. *)
OpenIsolated(t) ==
    /\ held[t] \notin live
    /\ Begin(t, "acquire", "open")
    /\ want' = [want EXCEPT ![t] = "isolated"]
    /\ UNCHANGED target

Discard(t) ==
    /\ held[t] # None
    /\ Begin(t, "discard", "drop")
    /\ target' = [target EXCEPT ![t] = held[t]]
    /\ want' = [want EXCEPT ![t] = None]

Shutdown(t) ==
    /\ Begin(t, "shutdown", "shut")
    /\ want' = [want EXCEPT ![t] = None]
    /\ UNCHANGED target

-----------------------------------------------------------------------------
(* The lock. *)

Free == holder = None /\ queue = <<>>

(* async with self._lock does not suspend when the lock is free. *)
Wait(t) ==
    /\ at[t] \in DOMAIN WaitFor /\ ~Free
    /\ Turn(t, WaitFor[at[t]])
    /\ queue' = Append(queue, t)
    /\ UNCHANGED <<closed, live, holder, world, call, target, todo, failed, outcome, want, held>>

Enter(t, place) ==
    \/ at[t] = place /\ Free /\ UNCHANGED queue
    \/ /\ at[t] = WaitFor[place] /\ Quiet
       /\ holder = None /\ Head(queue) = t
       /\ queue' = Tail(queue)

(* A waiter is cancelled. *)
Leave(t) ==
    \E i \in DOMAIN queue :
        /\ queue[i] = t
        /\ queue' = SubSeq(queue, 1, i - 1) \o SubSeq(queue, i + 1, Len(queue))

-----------------------------------------------------------------------------
(* discard *)

(* It returns or raises: to acquire_native, to its host, or to shutdown,   *)
(* which goes on with the next lease whatever became of this one.          *)
Dropped(t, ok) ==
    CASE call[t] = "acquire" /\ ok ->
            Turn(t, "open") /\ UNCHANGED <<call, target, todo, failed, outcome, want>>
      [] call[t] = "shutdown" ->
            /\ Turn(t, "next")
            /\ failed' = [failed EXCEPT ![t] = @ \/ ~ok]
            /\ UNCHANGED <<call, target, todo, outcome, want>>
      [] OTHER -> End(t, "nothing")

(* Mutant: a lease that is gone already is closed again. *)
ActiveAlways(l) == TRUE

Active(l) == l \in live

DropEnters(t) ==
    /\ Enter(t, "drop")
    /\ IF Active(target[t])
       THEN /\ live' = live \ {target[t]}
            /\ Turn(t, "closing")
            /\ UNCHANGED <<call, target, todo, failed, outcome, want>>
       ELSE Dropped(t, TRUE) /\ UNCHANGED live
    /\ UNCHANGED <<closed, holder, world, held>>

(* What becomes of a session whose opening or closing fails is the         *)
(* runtime's affair.  One that stays open is lost: open_session's result   *)
(* never came, or discard has forgotten the lease before (187, 295).       *)
Faulty == Env \cap {"fault", "cancel"} # {}

StaysOpen(s) ==
    /\ Faulty /\ Cardinality(lost) < MaxLost
    /\ sessions' = sessions \cup {s}
    /\ lost' = lost \cup {s}

(* close_session returned, raised or was cancelled; the directory goes.    *)
CloseReturns(t) ==
    /\ Quiet /\ at[t] = "closing"
    /\ cwd' = cwd \ {Id(target[t])}
    /\ \/ /\ sessions' = sessions \ {Id(target[t])} /\ UNCHANGED lost
          /\ \E ok \in BOOLEAN : (ok \/ Faulty) /\ Dropped(t, ok)
       \/ StaysOpen(Id(target[t])) /\ Dropped(t, FALSE)
    /\ UNCHANGED <<provider, held>>

-----------------------------------------------------------------------------
(* open_isolated and the second half of acquire_native *)

Known == {Id(l) : l \in (live \cup Range(held) \cup Range(target)) \ {None}}

Fresh == CHOOSE s \in Ids : s \notin Known \cup lost

(* Mutant: a closed provider opens sessions. *)
MayOpenAlways == TRUE

MayOpen == ~closed

OpenEnters(t) ==
    /\ Enter(t, "open")
    /\ IF MayOpen
       THEN /\ target' = [target EXCEPT ![t] = <<Fresh, want[t]>>]
            /\ cwd' = cwd \cup {Fresh}
            /\ holder' = t
            /\ Turn(t, "opening")
            /\ UNCHANGED <<call, todo, failed, outcome, want>>
       ELSE End(t, "nothing") /\ UNCHANGED <<cwd, holder>>
    /\ UNCHANGED <<closed, live, sessions, lost, held>>

OpenReturns(t) ==
    /\ Quiet /\ at[t] = "opening"
    /\ live' = live \cup {target[t]}
    /\ sessions' = sessions \cup {Id(target[t])}
    /\ held' = [held EXCEPT ![t] = target[t]]
    /\ holder' = None
    /\ End(t, "acquired")
    /\ UNCHANGED <<closed, queue, cwd, lost>>

(* open_session raised or was cancelled; the directory goes. *)
OpenAborts(t) ==
    /\ Quiet /\ at[t] = "opening" /\ Faulty
    /\ cwd' = cwd \ {Id(target[t])}
    /\ UNCHANGED <<sessions, lost>> \/ StaysOpen(Id(target[t]))
    /\ End(t, "nothing")

(* Mutant: the lock is not released. *)
OpenFailsLocked(t) == OpenAborts(t) /\ UNCHANGED <<provider, held>>

OpenFails(t) ==
    /\ OpenAborts(t)
    /\ holder' = None
    /\ UNCHANGED <<closed, live, queue, held>>

-----------------------------------------------------------------------------
(* shutdown *)

ShutEnters(t) ==
    /\ Enter(t, "shut")
    /\ IF closed THEN End(t, "nothing") /\ UNCHANGED closed
       ELSE /\ closed' = TRUE
            /\ todo' = [todo EXCEPT ![t] = live]
            /\ Turn(t, "next")
            /\ UNCHANGED <<call, target, failed, outcome, want>>
    /\ UNCHANGED <<live, holder, world, held>>

ShutNext(t) ==
    /\ at[t] = "next"
    /\ \/ /\ todo[t] = {}
          /\ End(t, IF failed[t] THEN "nothing" ELSE "shut")
       \/ \E s \in todo[t] :
             /\ target' = [target EXCEPT ![t] = s]
             /\ todo' = [todo EXCEPT ![t] = @ \ {s}]
             /\ Turn(t, "drop")
             /\ UNCHANGED <<call, failed, outcome, want>>
    /\ UNCHANGED <<provider, world, held>>

(* The task is cancelled while it waits for the lock. *)
CancelWait(t) ==
    /\ "cancel" \in Env /\ Quiet /\ at[t] \in Waiting
    /\ Leave(t)
    /\ IF at[t] = "drop_wait" THEN Dropped(t, FALSE) ELSE End(t, "nothing")
    /\ UNCHANGED <<closed, live, holder, world, held>>

-----------------------------------------------------------------------------
Requests(h) == \/ \E c \in Contracts : Reuse(h, c) \/ Acquire(h, c)
               \/ OpenIsolated(h) \/ Discard(h)

Steps(t) == \/ Wait(t) \/ DropEnters(t) \/ CloseReturns(t) \/ OpenEnters(t) \/ OpenReturns(t)
            \/ OpenFails(t) \/ ShutEnters(t) \/ ShutNext(t)

Next == \/ \E h \in Hosts : Requests(h)
        \/ \E k \in Closers : Shutdown(k)
        \/ \E t \in Tasks : Steps(t) \/ CancelWait(t)

Spec == Init /\ [][Next]_vars

(* Fairness: open_session and close_session end, and the event loop resumes *)
(* ready tasks in turn, however many others run in between.  Nothing makes *)
(* a host call.                                                            *)
LiveSpec == Spec /\ \A t \in Tasks : SF_vars(Steps(t))

-----------------------------------------------------------------------------
(* A directory exists exactly while its session is being opened, is leased *)
(* or is being closed, and one task at most closes it: no failure,         *)
(* cancellation or race of discards leaks one or closes one twice.  A      *)
(* session that is open without being leased or closed was left by an      *)
(* opening or a closing that failed itself, and no task has to do with it  *)
(* any more: the provider loses none on its own account, but has no record *)
(* of those (183-188, 291-299).                                            *)
ResourcesAccounted ==
    LET Busy(place) == {t \in Tasks : at[t] = place}
        Ours(place) == {Id(target[t]) : t \in Busy(place)}
        Leased      == {Id(l) : l \in live}
    IN  /\ cwd = Leased \cup Ours("opening") \cup Ours("closing")
        /\ sessions = Leased \cup Ours("closing") \cup lost
        /\ lost \cap cwd = {}
        /\ \A t, u \in Busy("closing") : target[t] = target[u] => t = u

(* The lease an acquisition returned is for the definition, plan and owner *)
(* it was asked for, belongs to no other host, and stays until its host or *)
(* shutdown discards it ("live reuse requires exact plan and owner",       *)
(* provider.py:155; 227-235).                                              *)
LeaseMatches ==
    \A t \in Tasks : outcome[t] = "acquired" =>
        /\ held[t][2] = want[t]
        /\ held[t] \in live \/ closed
        /\ \A u \in Tasks \ {t} : held[u] # held[t]

(* When the call that shuts the provider down returns without an error     *)
(* nothing is leased or being opened, now or later, whatever was in flight *)
(* when it was called (304-317).                                           *)
ShutdownCloses ==
    \A t \in Tasks : outcome[t] = "shut" =>
        live = {} /\ \A u \in Tasks : at[u] # "opening"

(* Shutting down ends, whoever else wants the lock. *)
ShutdownEnds == \A k \in Closers : call[k] = "shutdown" ~> call[k] = "none"
=============================================================================
