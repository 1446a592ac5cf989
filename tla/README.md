# Verification of the private capture probe (miyo-catchup)

The repository holds a qualification harness ("T02"): a browser extension that,
after one explicit user gesture, asks one upstream session check and, where the
scope admits it, fetches one pinned conversation body, and a local worker that
authorises each of those two requests, receives the bytes in chunks and keeps
them as evidence. Nothing may ever be fetched twice, and whatever is uncertain
must stay uncertain: this is a project about what a machine that crashes, loses
acknowledgements, changes its clock and restarts its service worker may not do.

Paths below are relative to the repository. Contents:

1. the system and its parts
2. the modules and what they model
3. the runs, their bounds and what they show
4. what is proved, and how
5. the findings
6. what is abstracted, and what is not modelled
7. the plan

## 1. The system and its parts

    popup --gesture--> probe-controller (service worker, chrome.storage.local)
                          | runs
                          v
                       probe-client  --call/pull/release/abort-->  collector
                          | native port                  (page, or in the background)
                          v                                        |
                       native-host --> probe-socket                | fetch
                                          | one client             v
                                          v                     upstream
                                     probe-receiver (SQLite row, files)

| component | state | operations | what is hard |
|---|---|---|---|
| probe receiver, `src/probe-receiver.mjs` | one JSON row (stage, blocker, permit, lease, evidence, trusted clock, cooldown), request receipts, transfer and artifact files, session bytes in memory | `hello`, `claim_work`, `request_permit`, `dispatch_started`, `result_chunk`, `commit_result`, `request_failed`, `reconcile_dispatch`; opening a root, `close` | crash between a file and its row, replayed requests, two clocks, five scopes in one stage machine, lost artifacts |
| probe controller, `extension/probe-controller.mjs`, `background.mjs` | start fence, status, failure receipt, two startup diagnoses in the storage; an in-flight mark in memory | `start`, `diagnoseStartup`, `checkConnection`, `status` | kills at every await, one of two storage writes fails, a package changes between two attempts |
| probe client, `extension/probe-client.mjs` | the one outstanding request, the position in the run | `createNativeClient.request/close`, `runQualification` in five modes | a request that is given up but still arrives, lost acknowledgements, the order of receipt and report |
| background collectors, `extension/background-setup-collector.mjs`, `background-selected-collector.mjs` | stage, buffer, token, deadlines | `dispatch`, `pull`, `release`, `abort` | abort, timeout and response settle one promise; a token used ten seconds later |
| page collector, `extension/page-collector.mjs` | adapter, consumed permits, transfer, active request | `initialize`, `dispatch`, `pull`, `release`, `abort` | an abort or the deadline during an await, an account selection that changes and changes back |
| owned page bridge, `extension/browser-bridge.mjs` | the owned tab and document, its record in the storage | open, `call`, `dispose`, two inspections | a tab that navigates between a check and a script, a load that races its listener |
| probe socket, `src/probe-socket.mjs` | the one client, a failure mark, a server fence | listen, serve, connect, close | a timed-out request that is still handled, ownership lost while waiting |
| native host, `src/native-host.mjs`, `-entry`, `install/native-host-launcher.mjs` | the port's first failure, the pending request | request loop, cancellation | end of input, output and worker in any order |
| native frames, `src/framing.mjs` | the bytes of an unfinished frame | `consume`, `finish` | a prefix split over two reads |
| connection check, inspection entries, ownership | a process under `flock` | one request; start and stop of an owner | order of socket, receiver and lock at the end |
| contracts, configuration, safe paths, SQLite | none | validation; opening and transactions | shapes and paths; the receiver uses the transactions' atomicity |
| popup, packaging and repository checks | none that outlives them | presentation, build | |

How they interact: the controller calls the client with a collector (injected
as `page` or `collector`), the client calls the receiver over the native port,
and calls the collector with the permit it got. All are event-driven and
single-threaded; interleavings happen at `await`s and between processes.
The storage of the extension and the row of the receiver are the only state
that survives, and each must be right without the other.

What makes each part correct:

- **receiver**: each kind is authorised at most once, only within the scope, by
  one collector, spaced in time; a blocker is final; completion is a file on
  disk, checked again at every opening; nothing is taken up by a later opening.
- **controller**: one attempt for each controller whatever happens; a displayed
  completion was one; a failure is recorded before it is displayed.
- **client**: nothing is fetched that is not counted; both sides agree on the
  completion and on the failure; a run comes to an end.
- **collectors**: a late answer never becomes a result; a background collector asks upstream
  at most once for each kind and holds nothing once it is closed; its access token
  lives between two requests only and is used while it lasts. The page's collector asks once for
  each permit and may repeat a session check that failed.
- **bridge and page**: at most one tab, and never an unrecorded one; the collector
  runs in the document that was marked, wherever the user navigates; the record
  that needs only clean-up is true.
- **socket and host**: no request is handled twice, no reply serves another request,
  no client is served beside an unfinished request, and everything comes to rest: a request that
  was passed on is answered, waits for a browser that does not read, or has ended its host.
- **frames**: what is handed over is what was encoded, however the bytes are split.

The hazards of the code, each at its line, are in `PROJECT.json`.

## 2. The modules

    OneShotProbe                     abstract specification of the receiver
      ^ implemented by
    ProbeReceiver  <- ProbeReceiverProps <- MCProbeReceiver
      ^                 ^ ProbeReceiverProofs
      | extended by
    ProbeCapture   <- MCProbeCapture
      ^ ProbeCaptureProofs (with ProbeReceiverProofs)

    ProbeController <- MCProbeController
      ^ ProbeControllerProofs

    CollectorContract                what a collector promises
      ^ implemented by
    SetupCollector     <- MCSetupCollector      ^ SetupCollectorProofs
    SelectedCollector  <- MCSelectedCollector   ^ SelectedCollectorProofs
      | both extend
    AbortableFetch                   the awaits of one upstream request
      ^ also extended by
    PageCollector <- OwnedPage <- MCOwnedPage               ^ OwnedPageProofs

    RequestChannel                   what the native transport promises
      ^ implemented by
    NativeHost  (extends ProbeSocket)  <- MCNativeHost   ^ NativeHostProofs

    FrameDecoder <- MCFrameDecoder                          ^ FrameDecoderProofs

**ProbeReceiver** is `src/probe-receiver.mjs`. One action is one request, with
everything its transaction does: `Served` and `ServedOnTime` are the counting, the
mode and the clock check of `process` and `handle`, and each operation adds what
its own handler does. `Claim`/`ClaimMismatch` are `claim`, `RequestPermit` is
`permit`, `DispatchStarted`/`DispatchLate` `dispatchStarted`, `Chunk`/`ChunkConflict`
`chunk`, `CommitAccepted`/`CommitRejected` `commit`, `RequestFailed` `failed`,
`ReconcileDispatch` `reconcile`; `ReplayUnproven` is a replayed `commit_result` whose
evidence has gone (a commit whose evidence stands is `Replayable`: it is told again that it
was accepted); `Refuse` and `RefuseOnTime` are all requests that change nothing
but the count of requests (and the trusted clock). What `process` itself refuses before it
counts the request is stuttering. `OpenRoot` is `createProbeReceiver`
on an existing root with its recovery, `Halt`, `HaltDuringChunk` and `HaltDuringCommit` are
a crash or an I/O fault, also between a file's write and the commit of the row.
The variables are the fields of the row under their names, `disk` the artifact
directory, `part` the transfer file, `mem` the session buffers. `opens`, `fetches` and
`origin` are history.

**OneShotProbe** is what the receiver promises: at most one session check, then at
most one body fetch if the scope admits it, a fence that is final.
`ProbeReceiverProps!OneShot` is the refinement, under the mapping `committed` = kinds with
evidence, `fenced` = a blocker is set.

**ProbeController** is `extension/probe-controller.mjs` in the worker of
`background.mjs`: several controllers share one storage area and one in-flight mark.
A flight is a call of `run`, `diagnoseStartup` or `checkConnection`; it goes from
await to await (`ReadValues`, `WriteFence`, `AnnounceStart`, `Open`, ..., `Land`), any
storage call may be rejected (`StorageFails`), and `Reload` kills the worker at any of
them, perhaps with another package. `Displayed` is `status`.

**ProbeCapture** composes one run of `extension/probe-client.mjs` with the
receiver. `step` is the call the run makes next, `Send`/`Answered`/`GiveUp`/`LosePort` are
`createNativeClient`, `Accepted` the course of `runQualification`, `Fetch`/`RefuseCall`/
`Pull`/`Release` a collector, `Persist` the failure receipt, `End` its `finally`. Each `Handle...`
is the receiver's own action, with the reply it gives; a denial is one of the
receiver's refusals, under the condition that no operation applies.
Between the two lie `wire` and `answer`: a request that is given up stays on the wire and
may still be handled; `LoseRequest` and `StopReceiver` lose it.

**AbortableFetch** is what the three collectors share: a task that awaits the response
(`"fetch"`), a piece of the body (`"read"`) and the digest, each raced against one abort signal
(`awaitAbortable`). `wake` is what an await has been settled with, apart from the step
that resumes after it (`AfterFetch`, `AfterPiece`, `AfterDigest`), because a timer or a call may
run between the two. `HeadVerdict` and `PieceVerdict` are `readBoundedJson`.

**CollectorContract** is what `ProbeCapture` takes for granted of a collector: it asks for
the session at most once, for the body at most once and only after the session was
handed over, holds what it asked for, and nothing once it is closed. **SetupCollector**
(`extension/background-setup-collector.mjs`) and **SelectedCollector**
(`background-selected-collector.mjs`) implement it; `Source` is the mapping. In the first a dispatch
is settled once (`gate`, the code's `finish`) by the deadline, by dispose or by the task, and the
task goes on behind it until `Land`. The second has two dispatches, two clocks and
between them the token with its timer; `Refusal` is the second look, when fetch is called.

**PageCollector** is `extension/page-collector.mjs`: `Operation` is `invoke` with each command, the
rest its task. **OwnedPage** is `extension/browser-bridge.mjs` around it, with the browser:
`Open` ... `InitializeReturns` are `openOwnedPage` from await to await, `Call`/`CheckReturns`/
`CommandReturns` a call with its check, `GiveUp` the timer of a script, `Dispose`/`AbortOwned`
dispose up to the write of its record, which is settled by then, `RecordDisposal` that write, `Deliver` the listeners. `Navigate`, `CloseTab` and `CompleteLoad` are
the user and the tab, `RunScript`/`ScriptReplies`/`ScriptFails` the browser that runs a script, in the
document it names or in the one that is there. `Crash` kills the worker; the record stays.

**ProbeSocket** is `src/probe-socket.mjs`: the listener with `serveConnection`, step by step
(`serve` is what it awaits), and a connector for each host. A connection carries at
most one frame each way; `link` is the server's end, `conn` the host's. `Drop` is a
destroyed connection and `CancelFences` is `cancelPending`, which fences the listener if the
receiver is at a request. `Die` kills the worker, `LoseOwnership` takes its lock.
**NativeHost** is `src/native-host.mjs` on top of it: `RunNativeHost`, `PassOn`, `Follow`,
`WriteNativeFrame`, `FailPort`, `InputEnds` and `CloseHost`, for any number of hosts. The
host follows its connector within one step, since only promises lie between them.
**RequestChannel** is what they promise: each request is handled at most once,
what is answered was handled, one at a time; a broken host answers nothing more, and what
became of its last request is unknown. That is the `wire` and `answer` of `ProbeCapture`.

**FrameDecoder** is `NativeFrameDecoder` of `src/framing.mjs`, which both ends of every pipe
and socket read with: `Consume` is a chunk that arrives, `TakeHeader` and `TakeBody` the two halves of its loop,
`Settle` the awaited consumer, `Finish` the end of input. `Frame` is the encoder's layout, with `Weight` for the
weights of a header's bytes (an exponential would be out of the provers' reach). `Cuts`, `After` and `What`, with which the
decoder is compared, read a whole input with `Frame` alone: where the frames of given messages end in it, what follows
them, and what kind of bytes that is.

Each module ends with its properties or hands them to its `...Props`; operators
marked "Mistake" are mutated forms of the operator they precede, kept to show that
the property that guards it would notice.

## 3. The runs

| run | configuration | distinct states | shows |
|---|---|---|---|
| `receiver_scopes` | all five scopes, two browsers, two collectors, good and foreign data, two artifacts, failure classes in and outside the table, ten requests, two openings, a reboot | 730,578 | types, one fetch per kind, one collector, scopes confined, completion proven, stages agree, true replays, final fence, one opening, reopened completion, refinement of the one-shot probe |
| `receiver_clock` | one conversation root, wall clock set to any reading, three ticks, Retry-After 0 or 2 | 2,975,936 | spaced fetches, conservative cooldown |
| `controller_flights` | one controller, two gestures in flight, four error codes, fair flights | 156,012 | one attempt, never ready again, completion witnessed, failure recorded, diagnoses in order, the in-flight mark is given back |
| `controller_final` | one gesture, not fair | violation | the finding of section 5 |
| `capture_scopes` | every receiver scope with every client scope, two chunks, own and foreign data, no wall-clock changes | 303,223 | counted first, completion shared, failure shared, foreign bytes stay |
| `capture_rounds` | a conversation of one chunk, wall clock set, fair client | 354,279 | the pause suffices, a round ends |
| `setup_collector` | every response, bodies of pieces of 0 to 2 bytes, a limit of 2 | 838 | held is what was reported, contract, every dispatch and dispose is answered |
| `selected_collector` | every response, two permits, three ticks, wall clock set to the ends | 258,092 | token confined, fresh use, contract |
| `owned_page` | both adapters, two accounts, two permits, two documents, one crash | 2,409,782 | one tab, owned document only, honest clean-up, load noticed, held in time |
| `native_channel` | two hosts with two and one requests, one death of the worker, fair | 577,056 | one client per unfinished request, channel, everything ends |
| `frame_decoder` | a header of two bytes, bytes 0 to 2, bodies of one or two bytes, input of up to nine bytes in any chunks | 111,979 | splits do not matter |
| `native_fence` | the same without a death, ownership that takes time | violation | the second finding of section 5 |

Why these bounds are enough to make the cases happen:

- *Requests* (`MaxRequests` 10, 8, 12). A complete conversation takes two claims, two
  permits, two dispatches, two chunks and two commits: ten, so the scopes run
  reaches completion, and requests in between exhaust the budget in every stage
  before it. Eight reach the body's dispatch, which is what the clock run is about;
  a run of the client adds a `hello`.
- *Openings* (`MaxOpens` 2). A root is reopened once; every property about
  reopening relates one opening to the next.
- *Time* (`MaxTime` 1 to 3; the permit, spacing and cooldown are one tick or none). The
  clock run has a grant, a late dispatch, the end of the permit and the next permit at
  four distinct instants, and the wall clock may jump between any two; with `SkewMs` 2
  some of the jumps are trusted. The scopes runs need one tick for a lease and a
  permit to lapse. `capture_rounds` uses permit and spacing of one tick and the least
  pause that `CaptureAssumption` admits, so a pause one tick shorter is noticed.
- *Chunks* (`MaxChunks` 2). The second chunk makes an earlier sequence number, a
  partial transfer and the next pull possible.
- *Reboots.* `receiver_clock` has none: with a reboot and a reopening it exceeds the time a run is
  given. That fetches stay spaced and cooldowns are kept across reboots is what the theorems
  `FetchesSpaced` and `CooldownKept` show, for any number of either.
- *Failure classes.* `"rate_limited"` and `"auth_required"` are in the table of `BlockerOf`,
  `"network"` is one outside it.
- *Data*. `"v"` is accepted, `"x"` is well formed but somebody else's. Two browsers and
  two collectors suffice to be alternated. `ArtifactIds` has one id for each kind;
  with two ids an orphan is one that no evidence names.
- *One controller in TLC.* A flight reads and writes the keys of its own controller
  only, and the mark admits one flight at a time; the theorems of section 4 hold
  for any number of controllers.
- *Responses and pieces* of a body (`Responses`, `PartSizes`). One response for each way a
  response is judged: four that are refused for status or headers, one that fits, one of
  another account or shape, one that does not parse. With pieces of 1 and 2 bytes a body
  ends below, at and above its limit, in one and in several pieces; 0 is the empty
  piece. `owned_page` takes one refused response, since the page's judgement of a
  response is that of the other collectors.
- *The token* (`TokenMs` 2, `MaxTime` 3, `Walls` 0 and 3). A dispatch within the
  lifetime and a fetch after it, a token whose own expiry is earlier, and a clock that
  is set forward past the expiry or back before the session.
- *Documents, accounts, crashes* (`MaxDocs` 2, two accounts, `MaxCrashes` 1). The one that was
  marked and one that was not; an account that is changed and changed back; one
  worker that died and one that finds its record.
- *Hosts and requests* (`MaxRequests` 2 and 1, `MaxDeaths` 1). A second request of the same
  host may meet the late reply to its first, and another host may connect while the first
  one's request is unfinished; after a death the next worker finds the stale socket.
- *Frames* (`HeaderBytes` 2, `Base` 3, `MaxMessage` 2, `MaxInput` 9). Two headers' worth of lengths: zero, both
  valid ones, and those beyond the limit in either byte. Nine bytes hold three short frames or two of the greatest length
  and one byte of a third, in any chunks: one that ends a frame and begins the next, one that ends within a header, single bytes.
- Symmetry is used where only identities matter (browsers, collectors, artifact
  ids, permits, accounts), and in no run that checks liveness.

`CHECK_DEADLOCK FALSE` is set for the receiver and the capture: their counters of
requests, openings and time are bounded by the model, and a run that is over has
nothing left to do. It is set for the collectors, the page, the hosts and the decoder, too: a closed
collector, a closed tab, a host that is over and a decoder that has failed stop for good. The controller's runs
check deadlock.

**Fairness.** The receiver has none: nobody need call it. `FairSpec` of the
controller assumes weak fairness of `Advance(g)`: what a flight awaits is a storage
call, which is answered or rejected, or a call with a timer of its own (page,
client, connection check). Gestures and reloads are not fair. `FairCaptureSpec`
assumes weak fairness of `Progress`: the client times every request
(`probe-client.mjs:118-121`), the collectors time their fetch, and the pause is a timer;
nothing is assumed of the receiver, the transport or the clock, so `RoundsEnd`
leaves the pause itself out. `SetupFairness` is weak fairness of the task and its callbacks (`SetupTask`:
what is settled resumes) and of the deadline's timer (`Expire`), and of nothing upstream.
`NativeFairness` is weak fairness of `WorkerStep`, `Follow` and `HostStep`: the timers of the worker
(`probe-socket.mjs:349, 363, 383`) and of the connector, the events of a connection that has
ended, and what follows from a settled promise. The receiver may never answer, the browser
may never read a reply or close its port, and connections need not be accepted.

Each property of a passing run has a mutant in `PROJECT.json`: a plausible
bug in one mapped definition under which TLC finds the property violated.

## 4. What is proved

TLAPS proves the following for every value of the constants that meets the named
assumptions: any number of browsers, collectors, controllers and gestures, any
permit lifetime, spacing, skew and chunk count, any data and any criterion of
acceptance.

Assumptions: `ReceiverAssumption` (the scopes are known ones, times and bounds are
naturals), `NullAssumption` and `NullUnused` (null is none of the values a field holds, nor a lost artifact, nor chunks),
`ControllerAssumption`, `NullIsNothing` (of the controller and of the page), `BridgeAssumption` (the tab has a document), `CaptureAssumption` (the client is one of the
browsers, its pause is at least permit and spacing), `FetchAssumption` (what upstream answers is one
of the responses the code tells apart), `SetupAssumption`, `SelectedAssumption` and `SocketAssumption`
(limits, times and bounds are naturals, null is none of the values), `PageAssumption` (the adapters are the known ones,
a chunk has a byte), `FrameAssumption` (the weights of a header's bytes are the powers of `Base`, and `MaxMessage` fits in a
header). TLC evaluates each. `NoSecondClient`
and `TimeoutsFence` assume `~OwnershipAwaits` besides: ownership answers at once.

- **Receiver.** `TypeCorrect`: `TypeOK` is inductive. `FetchedOnce`, `StagesAgree` and
  `ScopesConfined` follow from one invariant, `Inductive` = types, `StageAgrees`,
  `OneFetchPerKind`, `ScopeConfined`. None of the last three is inductive alone: a permit
  is granted by stage and flags and not by the count, so that it is for what has not
  been fetched needs the stage to know what has been; and which unit comes next needs
  the scope. `Fenced` is an action property from the same invariant (`StepFenced`):
  with a blocker set every operation's guard fails, and reopening keeps the blocker because
  a blocked root is unfinished. `ImplementsOneShot` maps each step to a fetch, a commit, a
  fence or a stutter of `OneShotProbe`. `PromiseKept` is what the abstract probe promises (`Promised`, by induction over its own
  four steps) carried over by that refinement.
- **Transfers.** `TransfersWhole`: a receiver that is up and unblocked holds exactly the chunks its permit counts, although a
  crash keeps the part file, forgets what is in memory and may come between the file and the row. The step that needs an
  argument is the reopening: a root that is reopened without a blocker has no permit, which is what `StageAgrees` says of
  its stage (`StepTransfer`). `CommittedIsFinal`: no later request, crash, recovery or clean-up of orphans touches committed
  evidence or its file; it needs that the file is there to begin with (`EvidenceSound`), so that no new artifact takes
  its id, and a list of the few steps that write to the disk at all (`OnlyTheseFiles`).
- **Origins.** `FetchesSpaced` needs `SpacingKept`, which hands the distance on: the next
  permit's earliest time is at least `SpacingMs` after the end of the session's permit,
  hence after its fetch; that time has passed on both clocks when the body's permit is
  granted; and the trusted clock never goes back. `CollectorUnique` needs `OriginsAgree`, which ties
  each fetch to the pinned browser and collector. `OpeningUnique`: while more may
  happen, all that happened is of the present opening, because reopening anything unfinished blocks.
- **Evidence and cooldown.** `CompletionIsProven` and `CompletionReopened` from `EvidenceSound`. `CompletionProven` says of
  a complete root that the artifacts on disk are exactly those of its evidence, which is not inductive: a crash between
  a file and its row leaves an artifact that no evidence names. `EvidenceSound` says who may have one: only a
  root that is down or blocked, and none that is fresh or complete (`Filed`). That a reopening does not
  make such a root work again is `Fenced` and `StageAgrees`. `ReplaysTrue`: what a receipt tells was committed as
  evidence and stays it (`ReceiptsStand`); so a replayed success has its file on disk, and one that was acknowledged is
  withdrawn only where a file was lost or a blocker says so. `CooldownKept`: a request that moves the trusted
  clock finds the root unblocked, hence without a cooldown, and the failure that sets one counts from the later
  of both readings.
- **Controller.** `OneAttemptHolds`, `NeverReadyAgainHolds`, `CompletionWitnessedHolds`,
  `FailureRecordedHolds`, `DiagnosedInOrderHolds` from `ControlInv`: the types, the exclusion of two
  flights by the mark, what a flight knows at each of its awaits (`FlightSound`: at the
  step that opens, the fence is written and nothing was attempted), and what the
  storage proves about the past (`RunsSound`, `DiagnosesSound`). The knowledge of a flight
  is needed because the guard and the act it protects are several awaits apart. `OnlyDoubtReplacesHolds` and
  `DiagnosisStaysHolds` say how far the first finding of section 5 goes: no fence is ever lifted, a final one gives way to
  none but `uncertain`/`dispatch_uncertain`, and a concluded diagnosis to none. They need `FlightOwns`, which follows
  a flight into its catch block: there the fence is still the one of this attempt, or there is none, or the error is
  `dispatch_uncertain`.
- **Capture.** `RunServes`: every step of the composition is a step of `ProbeReceiver` or a
  stutter, so every theorem of the receiver holds of a run. `UpstreamInOrderHolds` is one that crosses three
  modules: from what the abstract probe promises, its implementation by the receiver and `CountedFirst`, the
  collector, which sees neither, asks upstream for a body only after a session the receiver has committed. `CaptureTypes`.
  `CountedFirstHolds` from `CountSound`: the permit the client holds is for the kind of its
  round, and the acknowledgement it waits for says that this kind was counted; with
  `FetchedOnce` no kind is fetched twice. `FailureSharedHolds` from `FailureSound`: what is
  reported, on the wire or recorded has been saved, and a recorded failure stays (this
  is where the final fence is used). Both rest on `RunSound`: at most one request is under
  way while a run goes on, and it is the one the step awaits. `PauseIsEnough` from `PauseSound`, which hands the
  interval on: after a release it is covered by what is left to wait, then by `wakeAt`, and from `hello` on
  it is over. `ForeignBytesKeptOut` from `SentSound`: what is on the wire has been fetched and, as a session's, is the own one's.
  That a chunk of a body is never kept as one of a session needs the count of the fetches. `CompletionIsShared` from
  `SharedSound`: each round's commit carries the whole of what was fetched, its acknowledgement means that this is now evidence,
  and evidence stays; the body's round begins after the session's was shared, because no permit for a
  body is granted before there is evidence of the session.
- **Setup collector.** `HeldIsReported` and `SetupImplementsContract` from `Inductive`: while the result of
  a dispatch is open nobody has cut its request short (`RequestSound`: no signal, no deadline, not closed,
  and no await settled with `timeout` or `aborted`), and once it is settled the signal is there. This is
  what makes a success that lands late impossible, and a step of the contract of `Land` and `Expire`.
- **Contracts.** What `CollectorContract` comes to is stated and proved by induction over its own few steps (`InOrder`: a body
  after a session, each once, nothing held that was not asked for; `OverIsSilent`: nothing more from a
  collector that failed or closed), and the same for `RequestChannel` (`OneUnderWay`, `BrokenIsSilent`). The
  refinements carry it over: `SetupInOrder`, `SetupOverIsSilent`, `SelectedInOrder`, `SelectedOverIsSilent`, and for
  the hosts `RequestsInOrder` and `OverIsSilent`.
- **Types** of every component: `SetupTypes`, `SelectedTypes`, `NativeTypes`, `OwnedTypes`, besides those named above.
  `OwnedTypes` is not inductive as it stands: that the answer a page reads is a response needs `FetchFits`, that an
  await of the fetch is settled with a response or a failure and with nothing an earlier or later await could get.
- **Selected collector.** `TokenIsConfined`, `TokenUsedFresh` and `SelectedImplementsContract` from
  `RequestSound` (a request is asked for or refused, once; whatever closes or expires aborts it), `StageSound` (the
  stage tells what has been asked) and `TokenSound`. `FreshUse` is not inductive: at fetch the code
  looks at the wall clock only, so that the age holds needs the dispatch's own look (`TokenSound`), and that
  the wall clock is within `TokenMs` of the session needs the expiry it was given.
- **Hosts and socket.** `NativeImplementsChannel` from `ChannelInv`: `CallSound` ties the four counters of
  a host to the frames on their way (one request is under way, and a frame is the last request or its
  reply), `ServeSound` says that what the worker serves is that request, unhandled until it is
  handed over. It holds with a slow ownership, too. `NoSecondClient` and `TimeoutsFence` from
  `WorkInv`, which adds `WorkSound`: a request at the receiver is the one that is served, or the listener is
  fenced; and what has failed before is not handed over, the step that needs `~OwnershipAwaits`.
- **Page and bridge.** All five properties of `owned_page` from `OwnedInv`. `OnlyOneTab` needs that the record is there
  from before the tab to the end (`TabSound`). `OwnedDocumentEntered`: a script outlives the worker that
  handed it over and the timer that gave it up, so `ScriptSound` says of every script that names a document that
  it names the marked one, and of a script that marks that nothing was called yet. `CleanupIsHonest` is about
  three awaits: that a document which is not lost by then has closed its collector (`DisposalSound`), and that a
  closed one stays closed and empty. `HeldIsInTime` from `PageSound`: whatever closes or expires under a
  request is a failure of the await under way, and a session at its digest is of the account selected at the start.
  `ClosedForGood` is the action property behind it: nothing that still runs in a document reopens its collector or
  leaves it a result or a token.
- **Frames.** `SplitsNeverMatter` from `FrameInv` = `FrameTypeOK`, `FillOK` and `ReadOK`. `SplitsDoNotMatter` speaks of
  moments between two chunks; `ReadOK` says of every moment that the input consists of the frames handed over and then of
  what has been collected and what is left of the chunk, and `FillOK` that what has been collected begins
  a frame. The lemmas are about the layout: a header determines its length and every header tells one
  (`HeaderRoundTrip`), no frame is the beginning of another frame's bytes (`PrefixFree`), a header beyond the limit and a body that
  is not a message are `"bad"` whatever follows (`BadLength`, `BadBody`), and a frame more or bytes more leave the earlier
  cuts where they are (`OneMoreFrame`, `MoreInput`). `OneReading` shows that the existential in `SplitsDoNotMatter` is no
  weakness: the bytes admit one reading. Induction over the bytes of a header and the frames of an input is done
  by the least counterexample (`LeastNatural`, from the well-foundedness of finite subsets), since the induction theorems
  of the library are out of the provers' reach. `FrameTypes` bounds the buffer, `FailsForGoodAlways` is the end of a
  decoder.

Only model-checked: liveness (`FlightsLand`, `RoundsEnd`, `EverySettles`, `EverythingEnds`). Liveness under fairness and
ENABLED are beyond the provers used. Every other property of a passing run is a theorem. A few theorems state what no
run lists (types of the controller and of the larger modules, the promises of the abstract specifications, `TransferWhole`, `CommittedStays`,
`OnlyDoubtReplaces`, `DiagnosisStays`, `UpstreamInOrder`); `TransferWhole`, `CommittedStays`, `OnlyDoubtReplaces`,
`DiagnosisStays` and `UpstreamInOrder` were model-checked on the instances of section 3 before they were proved.

## 5. Findings

`controller_final`: the documentation says twice that the record of an attempt is
preserved ("failed/terminal records remain preserved", `docs/t02-qualification.md:262`;
"Existing failed records remain terminal and preserved", line 90). A run that may not
start saves its `blocked` or `unconfigured` status before it looks at the fence; when
`storage.set` rejects that write, the general failure path (`probe-controller.mjs:420-426`)
writes an `uncertain` fence over whatever fence there is, also a `complete` or
`failed` one. No second attempt follows: `OneAttempt` and `NeverReadyAgain` hold. What is
lost is the record, and nothing else can take its place (`OnlyDoubtReplacesHolds`).

`native_fence`: the comment on `createProbeSocketServer` (`probe-socket.mjs:395-396`) says that a timeout
"fences this listener until the owner is stopped/reconciled; no new client is admitted afterward".
`serveConnection` awaits `ownership` before it hands a request over (358). If the idle timer (349) fires
during that await, `fail` records the failure, but there is no request to cancel yet and nothing is fenced
(342-347). The request is handed over all the same; when it times out, `fail` returns at once because a
failure is recorded (343). The listener is not fenced, the connection ends, and the next
client is admitted while the receiver is still at the request. This takes an `ownership` that needs time. The
server awaits it and so admits one, but every caller in the repository passes a
synchronous one, whose await no timer can run in; for those the comment is a theorem, `TimeoutsFence`.

## 6. Abstractions, and what is left out

*Receiver.*
- A handler reads the clock once. The code reads it again in some handlers; two
  readings within a synchronous handler are one instant here.
- The row in memory and the row on disk are one: every handler writes it in its
  transaction. A failure to write in the two paths outside a transaction (exhausted
  budget, unproven replay) is not modelled.
- Artifact files are whole, `Lost` (missing, unsafe or altered) or absent; a random id
  is never drawn twice. A new permit has a new id, so its transfer starts empty.
- A failure class outside the table of blockers stands for all of them.
- Only commit receipts are kept; the replay of any other request returns a stored
  reply and changes nothing. Requests that fail validation or ownership throw and change nothing.
- Malformed clock readings, unsafe integers, and legacy rows without a scope are left out.
- One datum stands for a chunk's bytes; byte caps and digests are equalities of
  sequences.

*Controller.*
- Consecutive reads without a write between them are one step. Messages'
  shapes, sender and gesture checks are left out, so every gesture is admitted.
- "Not enabled" and "without a reviewed adapter" are one setup (`barred`); a malformed
  record is a failed read. A package changes only when the extension reloads.
- Error codes are those `errorReason` tells apart. The failure codes of the second diagnostic
  are startup failures. The owned-document record is a second barrier against
  another attempt, which the model does without.

*Capture.*
- The client is the receiver's only caller, and there is one run. A second run
  is what the controller excludes; several callers are what the receiver's own runs have.
- The collector is its guards: stage, permit and spacing. Its timers and aborts
  are `RefuseCall`, the failing `Fetch` and `LoseSource`. A permit is honoured through its last
  instant, as the page collector does; the background collectors stop just before it.
- A reply that is garbled, late or for another request ends the run (`GiveUp`). The
  outcomes `probe_blocked` and `dispatch_uncertain` are both `uncertain` here.
- A session's result is one chunk for the client, whatever the number of chunks the receiver admits.
- A native host connects to one receiver once: after the receiver has stopped
  the connection stays lost. Requests are valid, since the client builds them.
- No reboot, and no clock changes in `capture_scopes`; both are in the receiver's runs.

*Collectors.*
- Calls that are refused and change nothing are stuttering. Permits and their kinds are valid;
  when one ends is chosen. A guard and what follows it read one clock.
- Promises run before timers and messages (microtasks). `wake` is stronger than that: a timer may run
  between the settling of an await and its resumption, so more orders are checked than there are.
- A response is one of `Responses`; whether a session or a conversation fits is part of
  it. The validation of the conversation is not modelled.
- The identity that a session check hands over is one chunk. Startup codes are left out.

*Page and bridge.*
- The collector's failure classes are one refusal (`"refused"`), which is all the bridge tells apart.
  The spacing of the page's dispatches is a refusal that may come at any time.
- The cookie's `"personal"` is one more spelling of an account. The bound identity has one personal account; that a
  session is that account's is part of a response that fits.
- `"synthetic"` is the adapter of the repository's tests; the extension sets up `"setup"` only.
- Here promises that are settled do run before scripts and timers (`Settled`), because what the page
  replies depends on it.
- One bridge with one record; a second opening meets the record. The marker cannot be guessed.
  `inspectStartupPage` and `inspectSetupPage`, which open, ask and dispose, are orders of the same calls.

*Socket and host.*
- Requests and replies are numbers, and valid. A reply of another number, an invalid one and a garbled one
  are the failing `ReceiverEnds` or the closing `TakeReply`.
- A chunk of a stream is one frame; frames split over chunks or sharing one are the matter of `FrameDecoder`, of
  which this is what `SplitsDoNotMatter` says.
- In the decoder, `Messages` are the bodies that decode as UTF-8, parse, are within the limits of
  `jsonByteLength` and validate; which of these a body fails is left out. Calls that are refused because the decoder
  is busy or closed are stuttering.
- A chunk that a host takes is a frame that is there by then; none is passed on once its input has ended.
- A frame that reached the worker although its write timed out is a request the connector gives up
  (`CallTimeout` while it waits for the reply): the host ends and the request may be handled either way.
- A replaced socket path is refused at listening and at close and is stuttering; the interval between
  comparing an inode and unlinking its path is not modelled.
- With a synchronous `ownership` no event or timer runs during its await (`Attentive`).
- The native host starts once and connects once; that it starts in order (origin, pipes,
  configuration) is assumed.

*Not modelled.* The parts listed in section 1 without a module are in `PROJECT.json` as
`not_modelled`, with the reason: planned; pure validation of shapes (contracts,
configuration, adapters); the operating system's (locks, paths, SQLite); or
presentation.

## 7. The plan

Done: the receiver with its abstract specification, the controller, the composition of client and
receiver, the three collectors with their contract, the page with its bridge, socket and
hosts with their channel, the decoder of frames; and a theorem for every safety property the runs check. What is left, most important first:

1. **SelectedConversation** - the validator of a conversation tree on small trees.
2. **Inspection entries** - the order of lock, receiver and socket when an owner starts and stops.
3. **Transport** - `ProbeCapture` over `RequestChannel` in place of its own `wire` and `answer`.
