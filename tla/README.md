# llm-agent-kernel: models, checks and proofs

This directory verifies the control logic of `llm_agent_kernel` (`src/src/llm_agent_kernel`), a
Python library that runs language-model turns for a host application. The library owns order and
authority - who may call what, when, and what must be durable first - and leaves storage, tools and
domain meaning to the host. What it promises is therefore a statement about the order of awaits in
a few asyncio coroutines, under cancellation, failing ports, crashes and restarts; that is what the
modules here model.

Line numbers are those of the files under `src/src/llm_agent_kernel`.

## 1. Inventory

| component | code | state it keeps | operations |
| --- | --- | --- | --- |
| native attempt supervisor | `native.py` `run_native` | stop latch and its grace, the tasks it waits for, submission, latched terminal, journal facts (armed, bound, fenced, outcome), the session's fate | arm, submit, one pass of the loop per finished task, `stop()`, evidence and last fence of a failing turn, `finally` |
| native callback lane | `native.py` `execute`, `_callback`, `_reply`, `_TransientJournal` | one active callback task, the queue, accepted calls and recorded replies, the last rejection | accept, dispatch, record, recheck, reply, cancel, collect, no-progress |
| native input lane | `native.py` `poll`, `observe_poll`, steering; `coordination.py` | poll task, pending batch, two checkpoints, delivery records, receipts | poll, merge, steer, receipt, recorded echo |
| generation supervisor | `generation.py` | ordinal, results of the continuation at hand, arm flags and frames of a child; the host's durable decisions and effects | serve a continuation, open, stream and arm a child, record, close, resolve, acknowledge |
| one-shot kernel loop | `kernel.py` | step, repair and decision counters, canonical and pending context, lease, armed request | recover, bootstrap, initial read, observed turn, repair, tool, replay, retry, the except clauses |
| model decision journal | `decisions.py`, `fakes.py` | the records of one operation's decisions | latest, arm, complete, not_submitted |
| provider sessions | `provider.py` `CodexProvider` | live leases, `_closed`, a lock, private directories | open, acquire with reuse, discard, close, shutdown |
| native contract | `native_contract.py` | none (frozen data, port protocols) | validation at construction |
| context projection | `context.py`, `InputProjectionPolicy` of `definitions.py` | the cumulative bytes a host carries from call to call | sections of a prompt, omission of reads until the context fits |
| JSON schema subset | `_schema.py`, `provider_wire_schema` of `protocol.py` | none | accept or refuse a result type, lower it, publish it in the step's envelope, audit it |
| protocol | `protocol.py` | none | decode an answer into a step, validate it under the plan and the contract |
| definitions, tools, events | `definitions.py`, `tools.py`, `events.py` | none | validation at construction, rendering |
| cancellation token | `cancellation.py` | one latch | cancel, is_set, wait |

**How they interact.** A host calls one of three lanes. `run_native` holds one provider turn and
drives four kinds of tasks (the stream, one callback, the input poll, one steer) through
`asyncio.wait`; it talks to a `NativeJournal`, an `OwnerPort`, a tool dispatcher and a session from
`CodexProvider`. `run_generation` drives an ordered chain of model children through a host driver,
with every durable fact behind `GenerationLifecycle`. `run_one_shot` runs a structured model loop
over observed turns of an isolated session with a `ModelDecisionJournal`. They share the cancellation
token, the dispatcher and the provider; there are no threads, so a coroutine runs alone from one
await to the next and everything may move at an await.

**What is hard.** (a) State read before an await and used after it: the poll's checkpoint, the
owner check before a dispatch, the cancellation check before `arm`. (b) Several finished tasks in
one wake-up, handled in a fixed order while others go on. (c) Two truths about one turn: the
reader's latched terminal and the supervisor's local stop. (d) Durable facts and crashes between
them: armed but not answered, answered but not recorded, recorded but not carried out. (e) Calls,
inputs and their receipts that are repeated, late or out of order. (f) Control that must not starve
behind a stalled callback, host or provider. (g) A lock that is held over one await, against
cancellation and shutdown. `PROJECT.json` lists each place under `hazards`, with the properties that
would catch it going wrong, or why none does.

**What makes each part correct.** Native lane: an effect at most once per call identity, a reply
only after its record and only before a stop, nothing dispatched behind the fence; truth returned is
truth recorded; a failure fences. Inputs: none skipped, none re-attributed, checkpoints monotone.
Generation and one-shot: a paid decision is armed durably before it is asked, never asked again,
and its work is done before the next; budgets hold over all runs of one operation; cancellation is
heeded at every await. One-shot: each decision is asked with the exact history and within its bytes
and tokens, and what it cost is reported. Context: only what can be read again is omitted, oldest
first and never needlessly. Schema and protocol: a contract is accepted exactly when the provider's
subset can represent it, the published one means the same, and an answer is a step exactly when it
is the encoding of one. Sessions: no lease or directory leaks or is shared, and no session is left open
but by an opening or closing that failed itself.

## 2. Plan

Modules, in the order they were written.

1. `NativeShared`, `NativeCallbacks`, `NativeInputs`, `NativeSupervisor` (composes them),
   `NativeProperties`, `CallbackLedger` (abstract).
2. `DecisionChain` (abstract: paid decisions, shared by both durable lanes); `Generation` and `OneShot`
   with their properties, both implementing it.
3. `Sessions`: the provider's lock, leases and directories.
4. `ContextProjection`, `ResultSchema`, `ProviderStep`, composed by `IsolatedStep`: the pure parts of
   the isolated lane, against reference definitions.
5. Proofs: `NativeProofs`, `NativeInputProofs`; `GenerationProofs`; `OneShotProofs`;
   `SessionsProofs`; `ContextProofs`; `SchemaProofs` (lemmas), `IsolatedProofs`.

Every safety property that a passing run checks is proved, for every value of the constants. What is
left to TLC are the five liveness properties and the comparison of two bounds (section 5).

## 3. The modules and the code

**Place of suspension.** Every coroutine is modelled by a variable naming the await it is in (`at`
in `NativeSupervisor`, `Generation` and `OneShot`, `step` for the callback task, `at[t]` per task in
`Sessions`). An action goes from the end of one await to the next one, with everything the code does
in between. Where that would make an action unreadable it is cut at places of `Running`, in which
nothing else in the process moves. `Env` is the set of things that may go wrong; a run names those
it wants, and an action that needs one says so in its guard.

**NativeShared / NativeCallbacks / NativeInputs / NativeSupervisor.** `stop`, `revoked`, `owned` and
`cancelled` are shared. `NativeCallbacks` has `execute()` with one `step` per await, the queue, the
journal's accepted calls and replies, and three history variables: `dispatches` and `wire` for what
reached the dispatcher and the provider, `asked` for what the native thread had been given when it first
made each call (`Hear`). `NativeInputs` has the poll, the pending batch, the two
checkpoints of the code (`checkpoint`, polled from, and `deliveredCp`, attributed to) and one record
per delivery; the host is honest: it answers with exactly what came after the checkpoint it is asked
about, at the moment it answers. `NativeSupervisor` has the coroutine. `Wake` captures the tasks
that are done as `batch` and the `Handle...` actions take them in the order of the code
(`Rank`); a handler may await a port in the middle, and what else has become done meanwhile waits
for the next pass. The runtime (`provider_runtime`) is external: `submit`, the latched terminal and
the event stream behave as `native.py` uses them; the latch runs ahead of the stream.

**CallbackLedger** is the host's view of one attempt's call identities: new, accepted, entered,
settled, sent, and an authority that is revoked once.

**Generation** has the host's durable store (`child`, `decision`, `resolved`, `effects`, `seenBy`)
and the run. A driver's generator runs in the await `"stream"` and calls `arm()` from there; it may
break its contract (`"misuse"`: arm twice, emit before arming, swallow the refusal, a continuation
of other calls, a stream without end). A crash or a failing port leaves its call done or not done;
the host resumes from a continuation it committed and kept.

**OneShot** has the journal of one operation (`rec`, `reply`, `request` per ordinal), the world
(`submitted`: how often an attempt reached the provider; `positions`: what the dispatcher was given;
`view`: what the live session has seen) and one run at a time, started again and again. `policy` is
the host's choice of durable or transient decisions: without a journal its calls are not awaited and
every run is an operation of its own. Context is a sequence of items with sizes, so that "the exact
history" and its bytes can be said: the bootstrap, the text of decision `k`, what answered decision
`k`. `turns`, `tokens` and the per-session readings follow `add_usage` (input and output tokens are
counted alike, a turn's usage is one token or unknown); `bill` is a history variable for what was
really asked and told. The except clauses are the places `"except"` (and `"refuse"`), `finally` is
`"account"` and `"close"`, one per await. `provider_error` also stands for `quota_exhausted`; elapsed
time is a choice (`"exhaust"`).

**DecisionChain** is the promise both durable lanes make: one decision at a time, armed before it is
asked, uncertain until it is known, never asked twice, the next only when its work is done.

**Sessions** has `CodexProvider` with its lock as `asyncio.Lock` behaves: a free lock is taken
without a suspension, a held one hands on in the order of asking, a cancelled waiter leaves. Hosts
acquire (reusing the lease they hold), open isolated, discard; closers shut down. A lease is a pair of
a session name and the contract it was opened for. When `open_session` or `close_session` raises or is
cancelled, the session may be open or not (`StaysOpen`): that is the runtime's affair. One that stays open
is `lost`: the provider has no record of it, because `open_session` returned no handle or because `discard`
forgets the lease before it closes (`provider.py:295`). `MaxLost` bounds how many there are.

**ContextProjection** is `bootstrap_context` and `continuation_context`: sections are their sizes, the
passes of the loop in `_project` are actions (`Fit`, `Omit`, `Exceed`), so that what has been omitted so
far is a state.

**ResultSchema** is `_schema.py` and the envelope of `protocol.py`. A schema document is flat: the sequence
of its nodes, whose parts are places in it, and the places of its definitions by name; a reference is the
name of a definition. What `_compile_node` and `visit` do by calling themselves are calls (a place, the
objects around it, the references taken to come there): the calls of a document are a function of the
level of the recursion (`Compiling`, `Visiting`), a document has no more levels than nodes, and an
exception is a call at which something does not hold (`Supports`, `Known`, `Shallow`). `Starts` are the calls
`visit` is begun with: the root, then every definition that nothing has come through yet. `Lowered` is what
compilation returns, `Wire` is the published envelope, with its nine nodes behind the contract's, `Audited`
the audit. Two walks of the code enter every dict, the maps of fields and of definitions included
(`definitions.py:607-617`, `protocol.py:249-270`), and misread a name there (`Names`) that is a keyword:
`ClosedThroughout` refuses `properties`, `Audited` also fails of `additionalProperties`. `Means`, the JSON Schema library's part, says what a value must be to fit a node, look by look:
nothing fits in no looks, and in `n + 1` looks what the node asks for itself and what fits its parts in
`n`. `Unfoldings` names how many looks there are.

**ProviderStep** is the decoding and validation of an answer. **IsolatedStep** is a host's own loop over
these public operations: define a contract (which is refused, accepted, or accepted and then fails the audit
of its envelope: phase `"defect"`), project, take an answer as a step, project what answers it;
where `run_one_shot` never marks an observation recomputable, this host may. Its reference definitions
know nothing of calls: depth is that of the simple paths through a document (`Paths`, `TooDeep`), and what may
be published is `Representable`, what has a flaw is `Excessive`. They are not complements by definition: the
first looks at the published document as a whole, the second also counts what a definition has in it as if
it stood in the place of the result, because `visit` sweeps definitions nothing refers to under the
envelope's two levels. On TLC's 104 contracts they divide the set: 34 are published, two of which the audit
then misreads (`Misread`), and 70 are refused.

`MCNative`, `MCGeneration`, `MCOneShot` and `MCIsolatedStep` only add values and symmetry for TLC. Operators commented
"Mutant" are never used by a specification: they are the plausible bugs every property is tried
against.

## 4. The runs

| run | question | bounds | distinct states |
| --- | --- | --- | --- |
| `native_callbacks` | callback lane: at-most-once, recorded replies, fence, ledger | 2 calls x 2 bodies, 3 arrivals, 2 pending, cancel and failing ports | 3.2 M |
| `native_inputs` | inputs, checkpoints, lineage, handlers' results | 2 inputs, 2 calls, 2 arrivals, 2 pending, unknown steers, broken stream | 20.8 M |
| `native_exit` | every way out: fenced, recorded, truth first; a stopped turn is decided and returns (liveness) | 1 call, 1 arrival, cancel, preempt, owner loss, misuse, chatter, withheld acknowledgment | 462 k |
| `native_progress` | an accepted input is steered (liveness) | 1 input, 1 call, commentary | 262 k |
| `generation` | chain of children over runs and crashes | 4 children, 2 calls each, `max_turns` 3, everything in `Env` | 271 k |
| `oneshot` | one operation over runs and crashes, its limits and its bill; a cancelled run ends (liveness) | 3 paid turns, 2 repairs, 2 refused attempts, 1 token, 7 bytes (an observation 3, other items 1), initial read, both policies, everything in `Env` | 384 k |
| `sessions` | leaks, sharing, what a shutdown leaves; it ends (liveness) | 2 hosts, 1 closer, 4 session names, 1 lost session, everything in `Env` | 991 k |
| `isolated_step` | omission, schema acceptance and meaning, decoding | 104 contracts (32 accepted, 2 failing the audit), 261 answers, 29 results among them, up to 3 observations of 5 kinds, limit 9, depth 5, 4 properties | 221 k |
| `repeated_append`, `unfenced_terminal`, `lost_reply`, `untyped_outcome` | one disagreement each, see section 6 | minimal | - |

*Why the bounds are enough.* Two calls with two bodies arriving three times give a repetition, a
changed repetition, a second identity with the same bad bytes (no-progress) and a full queue, in
every order. Two inputs give a batch in flight, one pending and one merged into it; with two calls of which
one waits behind the other, an input can be recorded between the making of a call and its execution. Four children
with `max_turns` 3 let a chain run past its budget, in one run or over several; two calls make the
order and a crash between them matter. Three turns with two repairs and two refusals exhaust each
budget separately and together; one token is exceeded by the second turn that tells its usage; seven
bytes hold some histories of three turns and not others, the overflow falling on a tool's observation,
a repair and a replayed decision alike. Three observations give an omission of one, of two in order, and
a required one between; the contracts have each construct `_schema.py` looks at in an accepted and a
refused form, references two deep and to themselves, and depths on both sides of the limit. Two hosts and a closer give a lock holder and two waiters, in every
order, and four names suffice because a host holds at most one lease and one session may be lost. Bounds are named in the
modules: `MaxArrivals`, `NumInputs`, `LastOrdinal`, `MaxProposals`, `MaxRefusals`, `MaxInputs`.
`CHECK_DEADLOCK` stays on everywhere; where a system may rest, a stuttering action (`Ended`, `Idle`)
says so.

*Symmetry* is used in `native_callbacks` and `native_inputs` (call identities) and `generation` (tool calls),
all safety runs.

**What the properties say.** Each is stated beside its definition. In short: `DispatchOnce`,
`DispatchBeforeFence`, `NoProgressJustified` and `LedgerSpec` for callbacks (`LaneInvariant`, the
strengthening they rest on, and `ReplyFromLedger` are proved and not run); `BatchDone`,
`NoInputSkipped`, `LineageRecorded`, `CheckpointsAdvance` and `InputSteered` for inputs;
`FailureFences`, `TruthCommitted`, `TruthWins`, `ControlDecides`, `DecidedReturns` for the supervisor;
`SuccessorEarned`, `EffectsInOrder`, `AcknowledgedFirst`, `ReturnIsExact`, `CancelHeeded`, `ChainSpec` for
generation; `PaidOnce`, `ContextExact`, `LimitsKept`, `AccountsExact`, `ActsOnRecord`, `CancelHeeded`,
`ChainSpec`, `CancelledEnds` for one-shot; `ResourcesAccounted`, `LeaseMatches`, `ShutdownCloses`,
`ShutdownEnds` for sessions; `OmissionExact` and `NoBetterOmission` for context, `AcceptanceJustified` and
`WireFaithful` for schemas, `StepExact` for decoding.

**Fairness.** `ControlSpec`: the event loop resumes a coroutine whose await is over (weak fairness
of the supervisor); an expired grace wins against a stream that may always be about to deliver, but
not at every resumption (strong); a latched terminal is queued and reached after finitely many
events; a `submit()` whose outcome is known returns. Callbacks, host polls, steering, the interrupt
answer and the provider may stall for ever, which is the point of `ControlDecides`. `ProgressSpec`
adds that the other side moves. `OneShot`'s `LiveSpec`: every await of a port ends, and a provider
that stays silent after an interrupt runs into the five seconds of `kernel.py:730`; a provider that
keeps talking renews them and is bounded by the turn's own deadline in `provider_runtime`, which is
not modelled. `Sessions`' `LiveSpec`: `open_session` and `close_session` end and asyncio resumes ready
tasks in turn (strong fairness, because other tasks run in between). Nothing makes a host call,
a provider answer or a task be cancelled.

## 5. The proofs

All theorems hold for every value of the constants, from the named `ASSUME`s of the modules only.

**The native attempt** (`NativeProofs`, `NativeInputProofs`): for every set of calls, bodies and inputs, every bound and every `Env`,

- `TypeCorrect`: `Spec => []TypeOK`, and `HandlersFindResults`: `Spec => []BatchDone`. They are proved
  together as `TypeInv`, because a handler takes a call out of an event only if the event is still
  there: typing of the callback lane needs `BatchDone`, and `BatchDone` is not inductive without the
  types. One lemma per part (callbacks, inputs, runtime, each group of handlers) shows that its
  steps keep `TypeInv`.
- `NoSecondDispatch`, `RepliesFromLedger`, `LaneCorrect`: `Spec => []DispatchOnce`, and so on.
  `DispatchOnce` alone is not inductive: a callback at the gate must know it has never been
  dispatched. `LaneInvariant` supplies that: while the lane is open, the only effect without a
  recorded reply is that of the active callback, so an identity that comes again either replays its
  reply or meets a lane that is closed for good (`ClosedForGood`).
- `NoDispatchBehindFence`: `Spec => DispatchBeforeFence`. It needs `FenceInvariant`: whoever fences
  has latched a stop or left the loop, and a task that was not yet dispatched then carries a
  cancellation, except in the instant before `finally`, in which no task runs.
- `ImplementsLedger`: `Spec => LedgerSpec`, the refinement: initial states map to
  initial states, every step changes the status of at most the active call and is a ledger step
  or a stutter (`LedgerStep`, `LedgerFrame`).

- `InputsAreCarried`: `Spec => []NoInputSkipped`. The invariant (`PollInv`) says that a poll reads through
  a checkpoint that is at most the present one and answers with at least everything the pending batch
  covers, so a batch merged from late answers still begins at the checkpoint, without a gap.
- `LineageIsRecorded`: `Spec => []LineageRecorded`: a call is accepted with exactly the lineage delivered when
  it was first made, all of it recorded. The first half is `Attributed`, which follows a call through the
  queue: of the calls waiting under an identity that is not yet accepted the first carries the lineage
  it was made with, and once an identity was heard of it is accepted, active or waiting, as long as the lane
  is open. The second half is from `DeliveredInv` (an input is delivered exactly when a recorded delivery
  carries it; the check for repeated inputs is what keeps a recorded delivery from being prepared again) and
  `LaneLineage` (queued, active and accepted callbacks).
- `CheckpointsOnlyAdvance`: `Spec => CheckpointsAdvance`. The poll's checkpoint follows from `PollInv`. The
  delivered checkpoint is taken from whatever the native thread says it has recorded, so its order is the
  order of the stream: `OrderInv` says that the delivery being heard of, those the stream has yet to
  report and the one a steer carries have checkpoints in that order, all at or past the delivered
  one and none past the poll's, and that nothing is launched before the submission, whose delivery is
  the oldest, is accepted. It needs `CpInv`: a delivery's checkpoint is its last input, so that a batch
  prepared again under the same identity, from a poll that answered late, gets the checkpoint it
  has while it is on its way.
- `StopsForLackOfProgress`: `Spec => []NoProgressJustified`. `Refusals` ties the last rejection the
  supervisor remembers to a reply in the journal.
- `TerminalsAreCommitted` and `NativeTruthWins`: `Spec => []TruthCommitted` and `Spec => TruthWins`, from
  `ExitInv`: the decision is taken once, its evidence recorded once, and a terminal is latched only for
  an accepted submission.
- `FailuresAreFenced`: `Spec => []FailureFences` when `Env` has neither `"port_fault"` (a fence that itself
  fails cannot be relied on) nor `"foreign_terminal"` (the finding `unfenced_terminal`).

**The generation supervisor** (`GenerationProofs`): for every set of tools, turn
budget, length of chain and `Env`: `GenerationTypes` (types, which no run repeats), `SuccessorsAreEarned`, `EffectsAreOrdered`,
`ReturnsAreExact`, `ToolsWaitForTheObserver`, `CancellationIsHeeded`, and the refinement
`GenerationRefinesChain`: `Spec => ChainSpec`. None of the properties is inductive. `StoreInv` is about
the durable store alone and is kept wherever a call may be interrupted: whatever a crash leaves, the
store is in order. `RunInv` is about the run that is going on, one conjunct per stretch of its way
(`AskedInTurn`, `SettledInTurn`, `ServedInTurn`), and says which durable facts it may rely on there; it
vanishes with the run, and `Resume` establishes it again from `StoreInv`. For the refinement, every
step lands at most one call on the store (`StoreMoves`), and the sealed and armed children are an initial
segment, whose length is the depth of the chain.

**The one-shot loop** (`OneShotProofs`): for every budget, every size of an item, both policies and every
`Env`: `OneShotTypes`, `OneShotPaysOnce`, `OneShotContextExact`, `OneShotKeepsLimits`, `OneShotAccounts`,
`OneShotActsOnRecord`, `OneShotHeedsCancel`, and the refinement `OneShotRefinesChain`: `Spec => ChainSpec`.
They rest on one inductive invariant, `IInv` (theorem `OneShotInvariant`), in three parts.

- `StoreInv` is about the journal and the world alone, so that a crash keeps it for nothing. Attempts
  have no gap (`Numbered`); each was made when the one before it was settled, with the counters and the
  history that one left, and with as many paid decisions behind it as its counters say (`Chained`), which is
  why `max_provider_turns` bounds all runs together; the counters only climb (`Climbing`), which is why
  two decisions never have the same position (`Positioned`); what was submitted is recorded (`SentOnce`).
- `RunInv` says place by place what the run may rely on: what it has taken up from the journal
  (`TakenUp`), that the loop's head stands between two attempts with view and pending context together
  the history so far (`Heading`), that the attempt at hand is the newest and stands in the journal as the
  run knows it (`Asking`, `Deciding`), and what an outcome leaves behind (`OpenKnown`, `Ending`).
  It vanishes with the run; `LatestReturns` establishes it again from `StoreInv`.
- `BillInv` ties what the lease's meter and the run's totals say to what was really asked and told, at
  every place where usage may be asked for again.

For the refinement each step lands at most one fact on the journal, and the depth of the chain is
`Latest`.

`OneShotHeedsCancel` has a limit that is the code's: cancellation is asked about before an owner check is
awaited and not after it, so one that lands in between is followed by the dispatch (`kernel.py:363-364`,
`564-565`), which is given the signal and has to heed it itself. `CancelHeeded` says that this is the only
way a cancelled run begins a tool.

**The provider's sessions** (`SessionsProofs`), for any number of hosts, closers and names.
`NothingOutlivesShutdown`: `Spec => []ShutdownCloses`. A shutdown takes the lock, so nothing is being opened
when it closes the provider (`Locked`); from then on what is leased is what it has still to come to,
unless something failed on the way (`Shutting`). `SessionsTypes`, `ResourcesAreAccounted` and `LeasesMatch`:
`Spec => []TypeOK`, `[]ResourcesAccounted`, `[]LeaseMatches`. They need to know whose each lease is: a host
calls for the lease in its hands or for a new one (`HostFormed`, `HostLeased`), a closer for what it has
found (`CloserFormed`), the line of the lock is exactly those who wait (`Lined`), and no two leases have
the same session while anyone knows of them (`Apart`). That a fresh name exists is a count
(`FreshUnknown`): as long as nothing is opened and the provider is not closed a session is known by its
host alone, and there are more names than hosts and lost sessions together. What `ResourcesAccounted` says
of sessions is limited by what the provider can know: one that is open is leased, being closed, or lost, and
a lost one was left by an opening or a closing that failed itself; no task knows it any more. Directories and
leases are accounted for without exception.

**Context projection** (`ContextProofs`), for a host that projects anything it can construct, in any order.
`OmissionCorrect`: `ProjectionSpec => []OmissionExact` uses only that the same sum is compared every time.
`RefusedContextCannotFit`: `ProjectionSpec => []NoBetterOmission` needs the sum itself. It is a recursive
function of the number of observations: that it exists (`SumExists`) and grows with its weights
(`SumsCompare`) are shown from the least number for which they would fail (`LeastNumber`, from the
library's theorem that the naturals are well founded), which takes the place of an induction.

**Schemas and steps** (`SchemaProofs`, `IsolatedProofs`), for every document (`IsDocument`: what
`json_schema()` returns, a tree in document order with definitions one behind the other), every set of JSON
values (`IsValue`), every plan and every limit.

- *Recursion.* The calls, the paths and the table of looks are recursive functions of a number. Each is made
  explicit once (`RecursionExists`: functions that go so far exist for every number and agree), and from
  then on a claim about every level is `EveryNumber`, which again comes from the least number for which the
  claim would fail.
- *Acceptance.* `ContractsJustified`: `Spec => []AcceptanceJustified`. A contract that is accepted is
  representable (`AcceptedIsRepresentable`): a simple path to a place is matched by a call of `visit` that
  lies in as many objects (`Match`, `DepthIsPaths`), because whoever comes to a place has come through
  the beginning of the definition it lies in (`Tidy`, `LastDefinition`), so that the active references are
  the definitions on the path; and a simple path through the published document runs through the envelope
  and then through the contract (`WireLeads`, `WireIsShallow`). One that is refused has a flaw
  (`RefusedIsFlawed`): the place and the depth of the call that raises are those of a simple path
  (`DepthIsPaths`, `RefusedIsExcessive`), or it has a name the walk misreads. The audit finds nothing in an
  accepted contract's envelope unless the contract has the name `additionalProperties`
  (`AcceptedIsAudited`, `WireIsAudited`).
- *Publication.* `PublishedFaithfully`: `Spec => []WireFaithful`. For every number of looks, place and value,
  the lowered document has what the logical one has of complete values (`LoweredMeans`, with oneOf read as
  anyOf on both sides), and a value that fits one member of a oneOf exactly fits the anyOf
  (`ExactlyMeans`, `AcceptedIsFaithful`).
- *Steps.* `AnswersTakenExactly`: `Spec => []StepExact`. The published envelope admits exactly the two encodings
  around a complete result (`WireAdmitsSteps`); decoding and encoding are inverse to each other on what
  is valid (`TakenIsMeant`, `MeantIsTaken`).
- All three rest on one inductive invariant, `Settled`: the contract is accepted as long as the host goes on
  with it and was refused if it gave up, and step and answer belong together.
- `HostProjects`: `Spec => ProjectionSpec`, the host's loop refines the projection alone, so
  `HostOmitsExactly` has `[]OmissionExact` and `[]NoBetterOmission` from `ContextProofs`.

Trying to prove that decoding is exact showed a fault of the model that TLC had not: the cases of `Decoded`
were not disjoint for a value that is no envelope, where `CASE` means any of them and TLC takes the first.
They now name the branch they are for, as `_decode_provider_step` does.

**Only model-checked.** The liveness properties (`ControlDecides`, `DecidedReturns`, `InputSteered`,
`CancelledEnds`, `ShutdownEnds`): fairness and `ENABLED` are out of the prover's reach. And that the looks of a
run suffice: the theorems hold for every `Unfoldings`, but only if it is as large as the values are deep does
`Means` say what JSON Schema says; for TLC's values the assumption `LooksSuffice` of `MCIsolatedStep` compares it
with one look more. A reference definition is part of what one has to read to believe a theorem: `Means`,
`Paths`, `Encode` and the abstract specifications.

## 6. Where code and documents disagree

- `repeated_append` (`native.py:581`): a poll that read the old checkpoint answers after a steer has
  moved it. The answer repeats inputs that are on their way or already recorded; the supervisor calls
  that a host defect and fails the turn, although the host answered what it was asked.
- `unfenced_terminal` (`native.py:620`): when the latched terminal names another attempt, the except
  clause validates it again and raises before it records and fences; the turn fails unfenced, against
  `docs/native-agent-spec.md:428-429`.
- `lost_reply` (`native.py:265`): `stop()` cancels a callback that has settled and is suspended in a
  durable journal's `record_reply`; `SPEC.md:191` says such a callback records its reply.
- `untyped_outcome` (`kernel.py:730`): a cancelled one-shot run whose provider stays silent for five
  seconds raises `TimeoutError`; `SPEC.md:222-223` says outcomes are `OneShotCompleted` or
  `OneShotStopped`.

Modelled, without a run of its own: the audit of the published envelope (`protocol.py:249-270`) takes the map
of fields for a node, so that `StructuredOutput` accepts a contract with a field or definition named
`additionalProperties` and `AgentDefinition` then raises `RuntimeError`, for an envelope in which nothing is
wrong (phase `"defect"` of `IsolatedStep`). The name `properties` is misread too, by
`_require_closed_objects`, with a `ValueError` at construction. `AcceptanceJustified` says that nothing else makes
the audit fail of an accepted contract, and has that name among the reasons to refuse one.

Read but not counted: adr 0008 (`docs/decisions`, lines 37-39) says a child's complete stream is validated and any
later event rejected, while `generation.py:332` stops at the first terminal and a test fixes that
(`tests/test_generation.py:293`). `CodexProvider.shutdown` that is cancelled while it waits to discard
a lease skips it and raises; a second call returns at once and leaves that lease open; no document
says otherwise. A shutdown during a one-shot run makes `accumulated_usage` raise inside the except
clause or `finally`, so the run raises. `provider_turns` counts a turn whose `arm()` failed before it was
submitted (`AccountsExact` allows for it). The token limit holds for a run, not for an operation of several
runs. A marker may be larger than the observation it stands for, and then `ContextLimitExceeded` can
be raised although another choice of omissions fits (hence the condition in `NoBetterOmission`). `discard`
forgets the lease before it awaits `close_session` (`provider.py:295-297`): when that fails or is cancelled,
a session the runtime still has open is one that neither its host nor a shutdown can close again. A `$defs`
inside a definition is compiled but its references are never visited.

## 7. What is not modelled, and why

- `provider_runtime` and `llm_tools` are other packages: the runtime's turn handle, stream and
  sessions, and the dispatcher, behave as this code uses them (external entries of the map).
- `run_native` before `arm` (178-223: own sealed truth, plan and session checks, recovery values) changes
  none of the attempt's state; the transport bound on a callback's bytes is part of `"misuse"`.
- `native_contract.py`, `coordination.py`, `definitions.py`, `events.py`: checks of frozen records at
  construction. What the loops read of them are the constants and records of the modules.
- `tools.py`: building the published tool table and the checks of a plan from `llm_tools` before a run.
- `_schema.py`: the byte and enum limits of strings; enum and const values are strings, so that no walk over
  the schema can take one for a node.
- Digests, fingerprints, prompt and schema text, event attributes and directory modes are data no
  property here tells apart; elapsed time is a choice.
- The test fakes other than the decision journal, and the package exports.
