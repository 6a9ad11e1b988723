# A TLA+ model of opus-transcriber-proxy

The proxy takes Opus or PCM audio of the participants of a conference over one WebSocket per
session, and sends each participant's audio to a transcription provider (`/transcribe`) or to a
translation service (`/translate`), whose results go back to the client and to a dispatcher. It
runs as a Node server, alone or in a Cloudflare container behind a Worker.

Almost everything that can go wrong in it is a matter of order: everything is an event handler,
handlers suspend at `await`, and decoders, backends, sockets, timers and clients all answer when
they like. The modules here model that control and abstract the data: audio is numbered, a format
is a model value, a provider is the few answers it gives to its caller.

## 1. The system

| Part | State it keeps | Operations | What is hard | What makes it correct |
|---|---|---|---|---|
| `OutgoingConnection` (one participant's transcription) | decoder and its status, backend, `reinitGeneration`, two pending queues, recovery count, idle commit timer, its share of the backend gauge | start and media events, reattach, decoder and backend callbacks, timer, close | decoder loads and backend connects overlap with format changes, in-place reconnects and close | decoder, queues and backend agree on the format; audio in order; reconnects bounded; no backend leaked or miscounted; speech is finalized; a closed connection is quiet |
| Backends (OpenAI, Gemini, Deepgram, xAI, Amazon Transcribe, Dummy) | socket or request, status, connect promise, callbacks, keepalive, flush timer, audio source | connect, messages, errors, close, and the owner's calls | ends come from the socket, a message, a timer or the owner, in any order; every class does it its own way | the contract `OutgoingConnection` relies on |
| `XAIGranularSegmenter` | hypothesis, ages of words, committed and pending words | partial, final segment, end of turn, timer | three sources commit words of one changing hypothesis | each word once, in order, in time |
| `SessionManager` | active and detached maps, grace timers, two gauges | register, detach, reattach, expire, unregister, shut down | handlers find sessions by id, long after the session was there | gauges exact; one timer per detached session; no session lost or served on a dead socket |
| `server.ts` | the connection counter | accept, create, resume, take over, close and error events, SIGTERM | one client's sockets overlap | implements a session life cycle |
| `TranscriberProxy` | current socket, map of `OutgoingConnection`s | start, media, reattach, close | its listeners outlive the socket they were set on | as above; participants counted |
| `DispatcherConnection` (Node) | socket, queue, connect timeouts, reconnect timer | connect, send, reconnect, close | timeouts and close events of old sockets act on the current one | one attempt at a time; messages once and in order; quiet after close |
| Worker, `handleWebSocketWithDispatcher` | three sockets, queue of finals, reconnect timer | socket events, timer, flush at close | reconnects overlap with each other and with the close | every final handed on once and in order |
| `ContainerCoordinator` | containers with their loads, session assignments, next id; all persisted | assign, connection opened, connection closed, scale down | loads are reported late or never; crash back to what was persisted | ids unique, sessions stay put, pool bounded |
| `TranslatorProxy` | the requested and the running translations | sources, dev languages, media, close | reconciliation while connections fail and close | what runs is what is registered |
| Usage reporter | batch, timer, posts under way | push, flush, drain | failed posts; shutdown | every unit reported at most once, to its token; drained at exit, but for posts nobody awaits |
| `TranslatorConnection` | codec and socket status, two capped queues, talk, transcript buffer, silence timer, usage counters | media, service messages, timers, close | three asynchronous initialisations; no end of utterance from the service | order kept, appended audio billed once, talks well formed and not cut short, transcripts once |
| `RtpTimestamper` | next timestamp, sequence number, end of the playout | one, per frame | bursts and pauses | one continuous RTP stream |
| Codecs, resampler, decapsulator, configuration, telemetry, logging | buffers | | sequential | not modelled |

How they interact: `server.ts` creates a `TranscriberProxy` per session and registers it with
`SessionManager`; the proxy creates an `OutgoingConnection` per participant, which owns one decoder
and one backend at a time, and a `DispatcherConnection` if one is configured; `onClosed`, `onError`
and emitted events go the other way. On `/translate` a `TranslatorProxy` owns a
`TranslatorConnection` per participant and language, each with a codec pair and an
`RtpTimestamper`; all report their usage to one reporter. In a deployment with containers the Worker
asks the `ContainerCoordinator` for a container, sits between the client and the server there, and
copies final transcripts to a dispatcher.

## 2. The modules

| Module | Models | Notes |
|---|---|---|
| `OutgoingConnection` | `src/OutgoingConnection.ts`, and of the decoders and backends what it sees of them | `MCOutgoingConnection` gives the provider profiles |
| `TranscriptionBackends` | the classes in `src/backends/`, one backend from connect to its end | |
| `TranscriptionBackend` | abstract: what `OutgoingConnection` may rely on of a backend | implemented by `TranscriptionBackends`, property `ContractHolds` |
| `XAIGranularSegmenter` | the class of that name, as operators | used by `TranscriptionBackends` |
| `SessionManager` | `SessionManager.ts`, the connection handlers of `server.ts`, the socket side of `transcriberproxy.ts` | |
| `SessionLifecycle` | abstract: what a client is promised of a session | implemented by `SessionManager`, property `LifecycleHolds` |
| `DispatcherConnection` | `dispatcher.ts` | |
| `WorkerDispatcher` | `handleWebSocketWithDispatcher` of `worker/index.ts` | |
| `ContainerCoordinator` | `ContainerCoordinator.ts`, and of `worker/index.ts` what asks and informs it | |
| `TranslatorProxy` | `translatorproxy.ts`, `usage-reporter.ts`, SIGTERM in `server.ts`, `handleTranslate.ts` | of `/transcribe` only who holds a socket, which the shutdown waits for |
| `TranslatorConnection` | the input half of `TranslatorConnection.ts`: frames, concealment, both queues, the service's socket, usage | |
| `MessageRelay` | abstract: an ordered, lossy, at-most-once relay, which may put fillers (concealment) into what it carries | implemented by `TranslatorConnection`, property `RelayHolds` |
| `TranslatedTalk` | the output half: audio and transcripts of the service, talks, the silence timer | `MCTranslatedTalk` gives the timeouts |
| `RtpTimestamper` | `RtpTimestamper.ts` | operators and one action, used by `TranslatedTalk` |
| `*_proofs` | theorems about the module they extend, with the lemmas they rest on | `Worker_proofs` has those of both halves of the Worker's side: `ContainerCoordinator` and `WorkerDispatcher` |

**Grain.** The code runs on one event loop (or one isolate), so an action is one task run to its
end or to an `await`. In `OutgoingConnection` the continuations a task unblocks are `Resume`
actions of their own, and all other actions wait for them (`MicrotasksDone`), because microtasks
run before the next task; a suspended call is a record in `tasks` that holds the locals it uses
after the `await` (its generation, its backend, its formats). In `WorkerDispatcher` the calls
suspended in `connectToDispatcher` are the counter `connecting` and the flag `flushing`. In
`ContainerCoordinator` the handler that awaits a write is `awaiting`; the gates of durable objects
keep other events out until it is done, and its answer back until the write is durable.
In `TranscriptionBackends` an awaited connect is the field `promise`. Elsewhere
handlers do not suspend. Where the platform orders two listeners of one event, the action runs both
(`SessionManager`: the proxy's own listener, then the server's).

**State.** Variables keep the names of the fields where the lengths allow; the comment at each
VARIABLES says which field a short name is. History variables (`sent`, `lost`, `dropped`, `owed`,
`cause`, `appended`, `billed`, `told`, `accepted`, `out`, `interims`, `finals`, `spoken`, `revised`,
`late`, `joined`, `underway`, `fits`, `opened`, `forgotten`) record what went out of the component and why; no guard of the
code's reads them, except that `sent`, `finals` and `spoken` bound or order what the environment
does. Definitions marked "mutant" are plausible mistakes,
used to see that the properties notice them; no specification uses them.

**Per module.**

- `OutgoingConnection`: `StartEvent` is `updateInputFormat`; `Media` is `handleMediaEvent`
  and everything it calls, which may queue the frame, decode it, queue the audio or send it;
  audio that goes to a Transcribe backend before its `connect()` (`~TakesAudio`), which counts it as
  sent and drops it, is `dropped`;
  `DecoderReady`, `InitConnected`, `InitFailed`, `Reconnected` and `ReconnectFailed` are the
  continuations; `BackendOpens`, `BackendFailsToConnect` and `ConnectAborted` settle a connect;
  `StreamError`, `BackendCloses` and `FinalTranscript` are the callbacks, `IdleCommit` the idle
  timer with `forceCommit`. A profile says which class
  `createBackend` returned, which format it desires for each input, and which inputs need the
  decoder that loads asynchronously (Opus to PCM).
- `TranscriptionBackends`: the backend is a record, and each helper of the classes (`Shut`, `Tell`,
  `CloseBackend`, `ErrorMessage`, `ClosedEvent`) is an operator from the record before it to the one
  after, so that "report, then close" and "close, then report" differ. The owner answers the first
  callback that ends the stream as `OutgoingConnection` does: it detaches and closes, inside the
  callback. `Arrives` and `HandleMessage` are the two halves of Gemini's Blob messages; `Push`,
  `Nudge`, `End` and `Generate` are Transcribe's `AudioStreamSource`.
- `XAIGranularSegmenter`: words age in order, so the ages are the length `stable` of the prefix that
  is old enough; `Freeze` is freezing and batching, `PushPartial` and `EndTurn` the methods.
- `SessionManager`: sessions are named by the connection that created them. `Create`, `Resume` and
  `TakeOver` are the branches of `handleWebSocketConnection`, `WsClose` and `WsError` the socket's
  listeners, `SessionError` the proxy's `error` event, `CleanupSession` the grace timer, `Shutdown`
  SIGTERM. `Overlap`, `LateMedia`, `GraceErrors` (the sessions that a provider's error may end
  while they are detached) and `Sigterm` switch environment behaviour on.
- `DispatcherConnection`: `Opens`, `Closes` and `ConnectTimeout` are the listeners and the timeout
  `connect()` sets up, `Reconnect` the reconnect timer, `Send` and `Close` the owner's calls. A
  timeout belongs to a socket and acts on the current one, as in the code.
- `WorkerDispatcher`: `Final` is the message listener for a final transcript; `ReconnectTimer`,
  `Reconnected` and `ReconnectFails` are the halves of the timer callback; `ClientCloses`,
  `FlushConnected` and `FlushFails` the close with its background flush.
- `ContainerCoordinator`: `Request`, `Start`, `Fail` and `End` are the Worker's side of a connection;
  `AssignExisting`, `AssignContainer`, `ConnectionOpened` and `ConnectionClosed` the handlers up to
  their write, `Persisted` what follows it, `considerScaleDown` included; `Crash` a reset.
- `TranslatorProxy`: `HandleSources`, `HandleStartTranslation`, `HandleStopTranslation` and
  `HandleMediaEvent` are the messages of a bridge, `BridgeCloses` its close event, `Fails` a
  connection that closes itself and calls `onClosed`; `ReportTimer`, `FlushTimer` and `PostEnds` the
  reporting; `Sigterm`, `ServerCloses` and `Exit` the shutdown around its await.
  `TranscriberConnects` and `TranscriberCloses` are the `/transcribe` clients, without whose leaving
  `server.close()` does not call back. `host` tells the
  Node server from the Worker, where a bridge's close drains and nobody gets SIGTERM.
- `TranslatorConnection`: `Media` is `handleMediaEvent` with concealment; `DecoderReady` flushes
  the frame queue, `SocketOpens` the audio queue; errors and closes end in `DoClose`. PCM
  is a sequence of units of a frame's length, each the number of the chunk it was decoded from or
  `Silence` for concealment, so that all lengths are in frames.
- `TranslatedTalk`: `AudioFrame` is one encoded frame through `sendAudioFrame`, the timestamper and
  `armTalkSilenceTimer`; `TranscriptDelta` one fragment; `TalkTimeout` the timer; `Tick` the clock.
  Time is in units of which the constants are multiples: the code only compares and adds.

## 3. The runs

Each property is stated with a comment in its module. Deadlock is not checked
anywhere: a session that has ended does nothing more, which is where every run may stop.

| Run | Asks | Bounds, and why they are enough |
|---|---|---|
| `oc_safety` | With every provider profile: `FreshDecoder`, `FormatsAgree` (decoder, queues and backend agree, in what waits and in what was sent), `AudioInOrder` (order, repetition and loss), `RecoverySafe` (recoveries end nothing and are bounded), `BackendsAccounted` and `NothingStuck` (a connection at rest serves, `AtRestServes`; Transcribe and its audio do not wait for each other, and what its backend drops is limited, `EarlyAudioFlows`) where the code keeps them (their conditions say where, section 6 what happens elsewhere), `ClosedIsFinal` | 2 formats, 2 start events after the first (A, B and A again: a decoder for a format that came back is the stale case), 4 frames (in each queue and sent, with one late), 4 backends, `MAX_CONSECUTIVE_RECOVERIES` 2 as a small value of a constant only compared with; no reattachment |
| `oc_live` | With the WebSocket providers and one input format: `AudioProceeds` (queues drain, what was sent is finalized) | Under a format change or with Transcribe the code does not keep it (section 6), so that this run is about recoveries, failed connects, reattachment, the idle timer and close |
| `backends` | Every provider: `ContractHolds` (the refinement), `NothingLeft`, `GranularSound`, `Progress` | all providers; 2 words, one of which ends a sentence, 4 of them said, with 1 guard word and batches of 2: words held back, frozen, batched, cut at a sentence and revised all occur; 3 chunks for Transcribe's queue |
| `sm_overlap` | Registry invariants with everything allowed: `GaugesExact`, `TrackedOnce` | 3 connections of one id: two that overlap and one that comes between their events |
| `sm_sequential` | `SessionsReachable`, `LifecycleHolds` (the refinement), `AbandonedEnds` for clients that wait for their old socket's close | 2 ids, 4 connections; a provider's error may end the second session in its grace period, which can then be resumed by a later connection, come after another session of its id or beside one of the other id |
| `dispatcher` | `OneAttempt`, `RelaySafe`, `ClosedSettles`, `QueueDrains` | 3 sockets reused once closed (the current one, one whose timeout still pends, a new one), 2 reconnect timers (more than the code may have), 3 messages |
| `worker` | `FinalsSafe`, `ClosedSettles`, `QueueDrains` | 3 sockets (current, leaked, new) reused once closed, 2 reconnects awaited at once, 3 finals |
| `coordinator` | `UniqueIds`, `Sticky`, `PoolBounded` | 2 sessions, 3 connections, so that one session has two, containers of 1 connection and a minimum of 1, so that the pool fills, grows and shrinks; one tick (idle or not) and one crash |
| `translate` | `Registered`, `Accounted`, `DrainedAtExit`, `ShutdownEnds` | 2 bridges (two tokens in one reporter), 1 source, 2 languages of which one may be a dev language, batches of 2, so that SIGTERM's own reports overflow one or do not, 2 units of audio, 1 transcription client; two instances per key, for a connection and its successor |
| `translator` | `RelayHolds` (the refinement), `AudioAccounted`, `ClosedIsQuiet`, `QueuesDrain` | caps of 2 frames and 3 frames of audio, so that both overflow; 5 events with chunk numbers up to 6, so that gaps longer and shorter than the longest concealment, late and repeated chunks occur |
| `talk` | `StreamSound` (the RTP stream and its talks), `NotBehind`, `TimerCoversPlayout`, `TranscriptKept`, `TalkEnds` | silence timeout off, below and above the jitter threshold; sequence numbers that wrap |
| `oc_xai_decoder_lost` | a violation: section 6 | xAI's profile, 1 start event and 1 frame: the start event asks for the decoder, the recovery overtakes it |

Each module also states a `TypeOK`; it is not listed among the runs' properties.

**Fairness.** Nothing is assumed of clients, of how often anything fails, or of what providers say.

- `oc_live`: a decoder load settles, a connect settles one way or the other, the event loop runs what
  they unblock, and the idle timer fires. Decoders are local and the platform reports a socket that
  does not open; the backends have no connect timeouts of their own.
- `backends`: a closing handshake ends, Gemini answers a setup it was sent, messages that arrived are
  handled, Transcribe's request takes chunks and is answered or fails.
- `sm_sequential`: a socket on which `close()` was called gets its
  close event (the ws library forces it), and grace timers fire.
- `dispatcher`: connect timeouts and reconnect timers fire and closing handshakes end (weak); of
  attempts made again and again some are answered, and of those some open (strong: without it the
  queue need not drain, since the code retries for ever).
- `worker`: timers fire, awaited connects settle, closing handshakes end (weak), and a
  dispatcher that is asked again and again connects in the end (strong, for the same reason).
- `translate`: the reporter's timer fires, a post ends (it has a timeout of 5 s) also when others
  are made meanwhile, `server.close()` calls back once no socket is left, closing handshakes end. That
  clients which SIGTERM does not tell to go leave is not fairness but the premise of `ShutdownEnds`.
- `translator`: the deferred microtask runs, the decoder and the socket settle.
- `talk`: time passes and due timers run.

## 4. What is proved

TLAPS checks these for every value of the constants, given the assumptions named in the modules
(that bounds are naturals, sentinels are outside their sets, profiles have their fields).

- `SessionManager_proofs`: `TypesHold`, `GaugesHold`, `TrackedOnceHolds`. The invariant `IInv` holds
  them together because none is inductive alone: a registration adds one to the gauge only if the
  map had no entry, which the lookup in both maps ensures; a reattachment stops a timer only if
  there was one, which `OneTimer` says; and a detachment must have a session to detach
  (`SocketsUsed`). Each operation has a lemma, the steps combine them. `participantsActive` drifts,
  so only that it covers the participants there are is proved (enough for not going negative).
  `SessionsReachableHolds` and `LifecycleStepsHold` rest on `Orderly`: of one client at most one
  socket is alive (`Alone`), it is the newest of its session (`Attached`), its session is the one
  its client's id finds (`Named`, `Found`). Clients that overlap, or media after `close()`, break
  this, so that both theorems exclude them by the constants that switch them on; the second excludes
  SIGTERM too, after which sessions end in a way the life cycle does not have, and is about the
  sessions that no error ends in their grace period (`Spared`): one of the others comes back after it
  was closed (section 6).
  `LifecycleStepsHold` is the refinement of `SessionLifecycle` without its fairness: `NextRefines`
  maps every action to steps of the abstract specification or to a stutter. A session counts as
  ended if it is closed and no map serves it (`Phase`), so that serving a closed one is no stutter:
  the proof needs that none of those sessions is closed while a map holds it (`Kept`).
- `OutgoingConnection_proofs`: `FreshDecoderHolds` and `ClosedIsFinalHolds`. A decoder becomes ready
  in a task that was suspended long before, so that the invariant speaks of the suspended tasks:
  each was started in a generation no later than the current one, and one of the current generation
  works for the formats in force (`WorksFor`). `doClose` raises the generation, so that from then on
  every suspended task is of an older one (`AllOvertaken`), and each continuation that compares
  generations gives up; `EveryOutcome` says of all steps that they leave the connection open, tear
  it down, or change nothing that matters. This is the argument behind `reinitGeneration`.
- The other theorems about `OutgoingConnection` build on `Sound`, which adds types and `Wiring`: no
  two suspended calls await one backend, and each awaits what its kind and stage say.
  `FormatsAgreeHolds` needs that the queues fit the formats in force and are empty once decoder and
  backend are ready (`Usable`). `RecoverySafeHolds` counts backends against start events, audio sent
  and recoveries (`Budget`), and says that nothing but a reason takes a connection down
  (`Undisturbed`): with a provider that wants one format the first backend is the only one until a
  fault (`OneBackend`), with another one no call of an established connection can fail for nothing
  (`Established`). `AudioInOrderHolds` orders the sent chunks before those queued for the backend,
  these before the frames queued for the decoder, and those before what the decoder expects next
  (`Numbered`), and accounts for each refused frame (`NoneLost`); it is about the time before the
  first reattachment, which may decode a frame twice (section 6). `EarlyAudioFlowsHolds` says that a
  decoder which does not load by itself is ready when the event loop is idle, because the call that
  awaits it is a microtask of the current generation (`Prompt`), and that Transcribe's audio is never
  queued once decoded (`NothingHeld`). That its backend drops none until the format changes is
  `NoneTooEarly`: while the first call still awaits its decoder no backend connects, and no decoder is
  ready before the format changes. This is `BeforeConnect`, a part of `Sound`; that no recovery was
  counted then is in it too, because dropped audio would reset the count as if it had been sent.
- `BackendsAccountedHolds` and `AtRestServesHolds` (with `EarlyAudioFlowsHolds` the parts of
  `NothingStuckHolds`) are about WebSocket providers. Until the format
  changes they go through `Steady`, which lists the shapes a connection can be in: starting with one
  call under way, serving, or recovering with every other backend closed. Across format changes an
  open connection still holds one backend (`Alone`); with one desired format the calls of the first
  backend wait for it while it is the only one, a recovery's backend is not closed under it, and a
  closed connection has nothing left to open (`Kept`). Deepgram's gauge then counts from
  `initializeBackend`'s return (`Counted`), which needs that nothing can run between a connect and
  that return (`OneMicrotask`: of the microtasks one at most is pending). For `AtRestServes` an open
  connection that lacks its decoder or its backend has the call under way that brings it
  (`Awaited`, `Backed`); there each format change either keeps a backend that nobody replaces or
  replaces it, for which one format or one for each input is needed (section 6).
- `DispatcherConnection_proofs`: `OneAttemptHolds`, `RelaySafeHolds`, `ClosedSettlesHolds`. The close
  handler compares no sockets; that is right because there never are two: a new socket comes only of
  a reconnect timer, which comes only of a close event of the one socket there was. After `close()`
  no timer is pending and the socket is detached (`ClosedHasNoTimer`, `ClosedHasNoSocket`), so that
  code which never looks at `closed` does nothing. `RelaySafe` needs the queue to be empty whenever
  a message is sent past it.
- `TranscriptionBackends_proofs`: `ContractImplemented`, `NothingLeftHolds`, `GranularSoundHolds`.
  `ContractImplemented` is the whole refinement of the interface: the invariant `Wired` ties the
  socket, the promise and the owner together (attached exactly while nothing has ended, and nothing
  is left running once it has), and `Reports` says of each step that it is one of the interface's or
  does not concern it; `Dies`, `Lives` and `Hears` are the three ways a handler can be that.
  `Closing` and `Telling` state once what closing and reporting do to any backend, in whichever
  order a class calls them. `GranularSoundHolds` is about any guard, batch size and vocabulary: the
  segmenter's hypothesis is the turn so far (`Echoed`), and what was handed over is the turns before
  it and then as many words of this one as count as emitted (`Kept`), where words that are frozen
  but not yet committed are words of the hypothesis in their place (`Held`). `Freezing`, `Pushing`
  and `TurnEnding` say what the segmenter's methods return. The theorem assumes `~Repeats`: for a
  speaker who says a whole turn again, the code drops words (section 6).
- `Worker_proofs`, of the relay: `WorkerFinalsSafeHolds`, `WorkerSettlesHolds`. That nothing is lost
  or reordered needs the queue of finals to be empty whenever one is sent past it; that nothing new
  begins after the session's close needs that the client's close event comes once
  (`WorkerClosedOnce`). The relay's specification has names of its own (`RelaySpec`), so that one
  module of theorems can extend it and the coordinator.
  Of the coordinator: `UniqueIdsHolds`, `StickyHolds`. `Sticky` is not inductive: an open
  that is counted after its connection has ended maps the session again. The invariant therefore
  covers every connection that is answered or whose open is on its way (`Bound`), says the same of
  the memory and of its durable copy (`Correct`), and of an assignment that is not yet durable that
  nobody has heard of it (`AssignmentSafe`); a crash then goes back to a state of which the same is
  true. That `findLeastLoadedContainer` finds one is `LeastLoaded`. `PoolBoundedHolds` counts loads
  as a set of slots, never larger than the number of opens counted: a container beyond the minimum
  is created only when all others are full, and scaling down, which counts a set while it deletes
  from it, stops at the minimum (`Sized`, of the memory and of its durable copy).
- `TranslatorProxy_proofs`: `RegisteredHolds`. `onClosed` deletes by key whatever it finds; keys are
  unique (`OpenedKeys`), so that it finds itself. `AccountedHolds` and `DrainedAtExitHolds` keep a
  ledger: each unit of audio is in exactly one place, which is a connection's counter, the batch, a
  post under way, the bill or the units lost with a failed post, always under its connection's token
  (`Ledger`), and each operation moves units from one place to the next. For the shutdown, `Booked`
  says that no unit from before SIGTERM waits for a report afterwards and, if the batch had room for
  the last deltas, that those which were not under way already (`Owed`) are only in posts which the
  drain awaits (`Awaited`): a batch with room is not posted before the drain (`Fits`, `PushFits`). That
  draining reports connection by connection is a recursive function over a finite set; that it
  exists is shown by the least set for which it would not.
- `TranslatorConnection_proofs`: `AudioAccountedHolds`, `ClosedIsQuietHolds` and `RelayImplemented`,
  the whole refinement of `MessageRelay`. What was appended, then the queue for the socket, then the
  queue for the decoder carry increasing chunk numbers, all up to `lastChunkNo` (`InOrder`); which
  queue may be in use depends on what is initialised (`Stages`); what was billed is what was
  reported, at most what was appended (`Money`); and what is in no queue and was not appended was
  dropped by a cap, or by a failure (`NothingElseLost`). Flushing a queue is a recursive function
  over its positions: `Climb` is induction up to a bound, by a least counterexample, which the folds
  of the audio need.
- `TranslatedTalk_proofs`: `TimerCoversPlayoutHolds` and `NotBehindHolds`. `FramePlacement` is the
  arithmetic of the timestamper (a frame ends after what was emitted before; ticks advance by what
  the playout does), `Armed` what arming the timer guarantees; the invariant adds the types.
  `TranscriptKeptHolds`: the interim fragments are those of the finals, concatenated, and then the
  buffer (`Kept`). `StreamSoundHolds` reads the emitted events as a whole: numbers and timestamps
  follow from the last frame (`Numbered`), talks open and close in turn (`Talks`), and whether one
  is open at the end is what `talkActive` says (`TalkOpen`, `TalkOver`).

Model-checked only:

- all liveness, and with it the fairness of `SessionLifecycle` (liveness and ENABLED are beyond the
  prover): `AudioProceeds`, `AbandonedEnds`, `Progress`, `QueueDrains`, `QueuesDrain`,
  `ShutdownEnds` and `TalkEnds`. Every safety property of a run is a theorem, under the conditions
  named above.

The library's induction theorems take an operator as a parameter, which the provers cannot
instantiate; where a proof needs induction over data, it takes the least element of the set of
counterexamples, over finite sets or `0..n`.

## 5. Not modelled, and what the models assume

- In `OutgoingConnection`: a backend reports a close only once it was connected, though Gemini's
  may do so before (`backends_gemini_early.cfg`; `onClosed` then closes the connection and counts the
  gauge down before it was counted up). The transcript context (its prompt updates change something in OpenAI only,
  whose backend is never replaced in place), metrics; frames without chunk information; concealment. A
  connect settles; whether it is answered is the matter of `TranscriptionBackends`.
- In `TranscriptionBackends`: what messages say beyond their kind, request parameters, language tags,
  confidences. The owner reacts to the first callback at once, as `OutgoingConnection` does.
  Transcribe's result stream is not taken to end without an error while the backend is open. Gemini's
  Blobs may be read in any order. xAI's `done` without granular finals re-emits a turn that
  `speech_final` ended; that is in `Transcript`, which does not compare. The granular timer may be
  armed by a partial that comes after the close; it fires once and does nothing, so that
  `NothingLeft`, which is about sockets, keepalives and audio sources, leaves it out. Aging is a choice of how many words are old enough.
- In `SessionManager`: one participant per session; URL validation, health endpoints.
- In `DispatcherConnection`: the URL is set and valid; delays are left out, so that timers fire in
  any order, and a close event takes as long as it likes.
- In `WorkerDispatcher`: only `readyState` is seen of a socket, so that what an open socket takes
  counts as sent although its peer may be gone; the container delivers nothing after `close()`
  was called on its socket (the WebSocket standard); the delay of a retry.
- In `ContainerCoordinator`: the Worker reports opened connections and never closed ones, although
  `AUTOSCALING.md:80` has it report both; the model has a caller that may report any close, late,
  before the open or never, so that the handler is exercised. The durable object's gates are the
  platform's. The status endpoint changes nothing. Pool and random routing keep no state.
- In `TranslatorProxy`: validation of messages, relaying of media and transcripts, pings. One unit of
  audio stands for what a connection appends between two reports. Connections that are closed
  together report in one fixed order (`ReportAll`), though the maps' is that of insertion. HTTP connections
  that are kept alive idle, for which `server.close()` does not wait, are left out. `Fails` takes it
  that `onClosed` comes from a connection that is not closed, which is `ClosedIsQuiet`.
- In `TranslatorConnection`: its two halves are separate modules that share `DoClose`, each with
  the other's failures as events; frames without chunk numbers; the latency measurements. A send
  while the service closes the socket throws or not; what did not throw counts as appended.
- Not modelled at all: `OggOpusDecapsulator`, codecs, resampler and their bindings (sequential, over
  bytes and samples), the adapters between platforms, configuration, telemetry, logging, scripts.

## 6. Where code and comments disagree, and what is not kept

One run is expected to fail, and refutes a comment that `PROJECT.json` quotes:
`oc_xai_decoder_lost` / `DecoderArrives`. A recovery while a decoder is loading raises the
generation, the decoder is discarded when it is ready, and none is loaded again: the connection
is connected and mute.

More configurations reproduce behaviour that a reader may not expect; run them with
`tlc -config <file> <module>`:

| Configuration | Property | What TLC shows |
|---|---|---|
| `oc_deepgram_init_superseded.cfg` | `NeverClosedForNothing` | a format change during the very first connect closes that backend, whose rejected `connect()` reaches a catch that compares no generation and closes the connection, but not the backend that replaced it |
| `oc_xai_superseded.cfg` | `BackendAlive` | a recovery overtaken by a format change closes the backend that replaced it; with three input formats of which two share a desired one (Opus undecoded, PCM at two rates) Deepgram's profile shows the same for two format changes |
| `oc_xai_queue_order.cfg`, `oc_deepgram_reattach.cfg` | `NothingRefused` | frames queued for a decoder are refused once later frames, or those of a resumed client, have passed it |
| `oc_idle_final.cfg` | `PendingIsTimed` | a final transcript of earlier audio stops the idle timer, so that audio sent just before it is not committed when the client falls silent |
| `oc_aws_close.cfg` | `NoLeak` | a Transcribe stream error after close leaves a backend open |
| the same | `GaugeExact` | a failed Transcribe connect miscounts the gauge |
| `oc_aws_early_audio.cfg` | `EarlyAudioKept` | a start event makes a decoder ready while `initializeBackend` still awaits the first one; what is then handed to Transcribe's backend, which `OutgoingConnection.ts:577` says buffers it, is dropped until `connect()` (`AWSTranscribeBackend.ts:143`) |
| `oc_aws_early_audio.cfg` with `InputFormats = {"opus"}`, `MaxStarts = 0` | `EarlyAudioHandedOver` | with a late decoder, Transcribe waits for audio that waits for Transcribe |
| `backends_gemini_early.cfg` | `ClosedAfterOpen` | a Gemini socket closed before its setup is answered is reported as closed and its `connect()` never settles |
| `backends_xai_repeats.cfg` | `GranularSound` | a segment that begins with all that was said before it is taken for the whole, and words are dropped |
| `sm_takeover.cfg` | `NewestServed` | the close listener of a socket that was taken over closes the socket that replaced it |
| the same | `NoOrphan` | a close event finds its session by id, and drops a newer session that has the id by then |
| `sm_sigterm.cfg` | `ShutdownEndsSessions` | after SIGTERM the sockets' close handlers no longer find their sessions |
| `sm_participants.cfg` | `ParticipantsCounted` | closing a session suppresses the callback that decrements the gauge |
| `sm_error_detached.cfg` | `NoneComesBack` | a provider's error in the grace period closes the session and unregisters it from the active map, though `SessionManager.ts:67` calls that the removal from tracking; it stays in the detached map, and the client that comes back is attached to the closed session |
| `dispatcher_timeout.cfg` | `OwnTimeout` | the connect timeout of a refused attempt closes the next one |
| `worker_release.cfg` | `Released` | a dispatcher socket that arrives after the session's close is never closed |
| `coordinator_capacity.cfg` | `WithinCapacity` | sessions assigned before the first is reported share a container that is full |
| `coordinator_split.cfg` | `OneContainer` | a reported close of one connection forgets the container of a session that another still uses |
| `translate_drain.cfg` | `DrainComplete` | SIGTERM's handler has the last deltas in the buffer before it drains it, says `server.ts:658-660`; one that fills the batch posts it at once (`usage-reporter.ts:89`), nobody awaits that post, and the process may exit before it ends |
| `translate_connected.cfg` | `TranscribersTornDown` | the close handlers of active transcription sessions will fire when the server shuts down, says `SessionManager.ts:240`; nothing closes their sockets, and `server.close()` waits for them |
| `translate_exit.cfg` | `NothingBehind` | a bridge's message after SIGTERM opens a translation whose usage is never reported |

`StaysClosed` of `TranscriptionBackends` is not kept either: Gemini's late setup answer and
Transcribe's response set a closed backend to connected; nobody is attached by then. A chunk sent
twice may be decoded twice if a reattachment resets the decoder while the first copy is queued
(`oc_safety.cfg` with `MaxReattaches = 1`).

One more configuration passes: `sm_noresume.cfg` (with resumption off `EndedIsEmpty` and
`TrackedAlive` hold). So does `translate.cfg` with two spellings of one language in its stead
(`Languages = {en}`, `Spellings = {iso, other}`).

## 7. Plan

Done: every component of section 1 that has control of its own has a module; the abstract
specifications `SessionLifecycle`, `MessageRelay` and `TranscriptionBackend`; the theorems of
section 4. The order was by what carries the program: transcription and sessions, then
translation, then the backends, dispatching, containers and usage.

Left:

1. Composition: `SessionManager` with the connections of a session (participants that fail one by
   one), and `OutgoingConnection` over `TranscriptionBackend` in place of its own view of a backend.
2. Relaying in `TranslatorProxy` and `TranscriberProxy`: which client gets which transcript.
3. Theorems: of the compositions of item 1, when they are there, with the invariants of
   `OutgoingConnection` once more over the abstract backend.
4. The transcript context.
