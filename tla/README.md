# Formal models of the RemoteMedia plugin SDK

TLA+ models of the parts of `remotemedia-plugin-sdk` whose correctness depends on
interleavings, failures and cancellation; TLC configurations that check them on
small instances; and TLAPS proofs for every value of the constants.

Paths are relative to `src/crates/`; every definition that models code is tied to
its lines in `PROJECT.json` (`map`).

## The system

A *plugin* is a shared library the host loads. It exports *nodes*; a node turns
media (`RuntimeData`) into media, answers session RPC, or both. A node is written
in Rust, or is a Python class run in a *runner* process. The parts:

| Part | State | Operations | Interacts with | What is hard |
|---|---|---|---|---|
| Python runner IPC, `plugin-sdk/src/python_ipc.rs`, and node handle, `python_subprocess.rs` | child process, command channel, IPC thread with three iceoryx2 ports, per-call reply and frame channels | spawn + READY handshake, `process`, `process_multi`, streaming, drain of control messages, end of the thread | host futures (tokio), the runner over shared memory | one thread serves all callers; callers are dropped at any await; the runner dies; buffers overflow; `receive()` fails |
| Control hook, `control_hook.rs` | a `OnceLock` | install, forward | IPC thread | control messages that straggle past the end of a turn |
| Wire codec, `python_ipc.rs` 1-409, `python_subprocess.rs` 697-934 | none | encode, decode | runner | widths of length fields; torn blobs |
| Factory and provisioning, `python_subprocess.rs`, `params.rs` | a directory per plugin source, shared by all processes | create: extract, read the requirements, `ensure_env`, spawn | environment manager, runner | every create rewrites the files others read; both spellings of a parameter; strings and comments in Python source |
| FFI adapter, `plugin-sdk/src/adapter.rs` | one plugin-runtime task per call | `initialize`, `process`, `process_multi`, streaming, control, `tick`, `call_rpc` | host futures, sinks of the host | a future is dropped while its task runs; a handler panics or never returns |
| Session RPC, `traits/src/rpc.rs` | `terminal` flag of a call | `value`, `finish` | FFI reply sink, a bounded channel of the session | completion exactly once; refusal; cancelled sends |
| Loadable-node ABI, `loadable-node-abi/src/lib.rs` | none | types of the boundary | all of the above | – |
| Environment cache, `py-env-manager/src/lib.rs` | a directory per cache key with `metadata.json`, a process-wide lock | `get_or_create`, `evict_lru`, `install_additional_deps` | uv subprocesses | a dropped future leaves a command running; half-made directories; eviction by one-second timestamps |
| Requirement lists, `py-env-manager/src/lib.rs` 76-289, 384-405 | none | merge, cache key, report of what is missing | environment cache | two spellings of a name; markers; colliding keys |
| Environment backends, `uv_backend.rs`, `system_backend.rs` | the uv binary under `~/.config` | `UvBackend::new`, `ensure_python`, `create_venv`, `install_deps` | uv, other processes | failing and orphaned commands; a binary written in place |
| Streaming STT, `traits/src/stt.rs` | sliding audio window, hypotheses, committed and unstable segments, revision; a resampler | `push_audio`, `decode_window`, `apply_hypothesis`, `finalize` | decoder, listener of the events | agreement, forced commits and trimming; a failed decode; positions carried over chunks |
| Snapshot ports, `traits/src/ports.rs` | an atomic slot, a sequence counter | `publish`, `snapshot` | node threads | two-step publish |
| LLM history and tool dispatch, `modality/src/llm/` | history of a session | `window_start`, `dispatch_tool_call` | LLM backend | a window that splits a tool group |
| In-process Python, `inprocess_python.rs` | the instance | `process`, `process_streaming` | a plugin under the GIL | what a dict and an attribute have in common |
| Capabilities, schemas, parameters, core types | a registry of schemas | compatibility, generated TypeScript, frame sizes | hosts | two parts that read one declaration |
| Streaming node traits, derive macros, build scripts | none | default methods, code generation | - | - |

`PROJECT.json` lists all of them as components with what is and is not modelled, and
under `hazards` what is hard to test, at the line where it bites, with the property
that covers it.

## Modules

| Module | What it is |
|---|---|
| `PyIpc` | the node handle, its callers, the IPC thread, the runner and the channels between them |
| `TurnService` | what a Python node promises, without threads or channels; `PyIpc` implements it |
| `PyIpc_proofs` | TLAPS: types, handshake, the turns of the node, what callers are given, the refinement of `TurnService`, stragglers, skew |
| `FfiAdapter` | the futures and tasks of the adapter's entry points, `RpcResponder`, the shared reply channel |
| `FfiAdapter_proofs` | TLAPS: types, completion, honest ends, results, batches, nothing trailing |
| `VenvCache` | concurrent `get_or_create` calls over the directories on disk |
| `VenvCache_proofs` | TLAPS: types and mutual exclusion, recorded and used environments, bound and order of eviction |
| `WhisperStream` | the transcription state machine over an adverse decoder |
| `LiveTranscript` | what a listener to a transcript relies on; `WhisperStream` implements it |
| `WhisperStream_proofs` | TLAPS: types and window, words agreed on, dropped audio, what is shown, the refinement of `LiveTranscript` |
| `Resampler` | the streaming normalizer: which frame each output sample is taken from |
| `Resampler_proofs` | TLAPS: even samples |
| `SnapshotPort` | writers and readers of one output port |
| `UvBinary` | several processes that look for, write and hand out the uv binary |
| `UvBinary_proofs` | TLAPS: when a broken uv is handed out |
| `PluginSource` | several creates of one plugin over its extraction directory |
| `NodeParts` | the five of them side by side: one process in which a stream, a normalizer, a port, the uv binary and a source directory move |
| `NodeParts_proofs` | TLAPS: what a port's reader sees advances, whole sources; each part keeps its promise beside the others |
| `WireCodec`, `InProcessBridge` | the two ways a value crosses to Python and back |
| `LlmTools` | history windows, tool dispatch, channel headers |
| `NodeParams`, `Capabilities`, `NodeSchemas`, `VideoFrames` | declarations and those who read them |
| `Requirements`, `PythonRequires`, `EmbeddedTree` | requirement lists, their parser, the name of a source directory |
| `NodeValues` | the parts without state whose properties hold for every input: a step takes one case, the cases are constants |
| `NodeValues_proofs` | TLAPS: the wire codec, history windows, tool calls, channels, constraints, media, frames, merged and reported requirements |
| `MCPyIpc`, `MCFfiAdapter`, `MCVenvCache` | the symmetry sets of the TLC instances |
| `MCNodeParts` | the instance of `NodeParts` and `NodeValues`, and the inputs of the other sequential modules |

Operators whose comment begins with "Faulty variant" are not part of any
specification: each is a plausible bug that the `mutants` of `PROJECT.json` put in
the place of the definition after it, to show that a property would notice.

### PyIpc

*State.* `host`, `ready`: where `spawn_runner_and_ipc` is and what `WaitForReady`
replied. `call`, `mode`, `answer`, `chan`: the future of each call, its
`IpcCommand` variant, the frames it was given, its frame channel. `queue`: the
command channel of capacity 64. `pc`, `cur`, `got`: the IPC thread, the command it
serves and its local outputs. `rn`, `turn`: the runner. `input`, `output`,
`control`: the samples buffered by the three subscribers. The rest is history for
the properties.

*Actions.* `Create` (spawn, READY with grace period and last-chance drain),
`Submit`/`Enqueue`/`Cancel`/`TakeFrame`/`StreamDone` (the futures of
`process` and `process_multi`, dropped at any await), `TakeReadyCommand`,
`PollReady`, `ReadyGivesUp` (`wait_for_ready`), `BeginTurn`, `BeginFails`,
`PollControl`, `RecvRound`, `RecvMulti`, `RecvStream`, `RecvEnd`, `RecvNothing`,
`RecvFault` (the loops of `round_trip`, `round_trip_multi`,
`round_trip_streaming`), `Forward` and `ConsumerGone` (the two results of
`blocking_send`), `EndTurn`, `IpcExit`; and, external, the runner's `RunnerReady`,
`RunnerNote`, `RunnerTake`, `RunnerEmit`, `RunnerEnd`, `RunnerDies`. Every pass of
a receive loop drains control messages before it polls the output, as in the code.

*Abstractions.* A payload is `[turn, n]`: the input it came from and its position
in that turn; `n = 0` is `EndOfInput`. A channel drops its oldest sample when full
(the services are opened with iceoryx2's default safe overflow). A frame that does
not decode is an error outcome of the call. One session; two nodes with colliding
session ids are not modelled.

### FfiAdapter

*State.* `fut`, `entry`: the host's future and the entry point; `task`, `abort`,
`res`: its plugin-runtime task, whether it was told to stop, what the handler
returned; `mode`, `terminal`, `parked`, `tried`: the `RpcResponder`; `outs`: the
outputs `process_multi` batches; `log`: what reached the host, per call; `unread`,
`reading`, `listening`: the shared reply channel and the two consumers.

*Actions.* `Spawn`, `Undecodable`, `Join`, `DropFuture` (with the abort that
`AbortOnDrop` issues), `EmitMedia`, `EmitValue`, `Withdraw` (a handler drops a
`value()` future, as `timeout` and `select!` do), `KeptSink` (the sink of a tick is
an owned box, which a handler may push into after its task has ended; every other
callback is borrowed by the handler's future), `AfterPush`, `PushFails`,
`Return`, `Panic`, `Finish`, `FinishSilently`, `TakeAbort` (tokio drops an aborted
task at an await), and the consumers' `ReadReply`, `StopReading`, `StopListening`.
A handler is free: it may emit, swallow an error, return, panic or never return.

### VenvCache

*State.* `pc`, `key`, `lock`: the calls and the process-wide lock; `disk`: for each
key whether its interpreter and its packages are there and the `last_used_at` of
its metadata (0: none readable); `clock` in seconds; `orphans`: uv commands whose
call was dropped.

*Actions.* `Ask`, `Acquire`, `Hit`, `Miss`, `Clear`, `Create`, `Install`,
`CommandFails`, `Finish` (metadata and, through `EvictLru`, `evict_lru` in one:
nothing is awaited in between), `Cancel` (the future is dropped at any await), `OrphanEnds`,
`InstallMoreFails`, `Release`, `Second`. Writes and removals that fail are faults,
bounded by `MaxFaults`; ignored ones (`.ok()`, a warning) go on, as in the code.
One fault is what fails in one step, of which an eviction may lose several
directories.

*Abstractions.* The clock only moves forward. An orphaned command only adds to its
directory what belongs there. A `remove_dir_all` that fails leaves any part of the
directory. One library: the lock is a static of a loaded library.

### WhisperStream and LiveTranscript

*State.* `state` is the `WhisperStreamingState` (window, samples since the last
decode, hypotheses, committed and unstable segments, `committed_through_ms`,
revision, last text); `event` the last `TranscriptEvent`. `heard`, `lost` and
`blind` are history: how far a decode has listened, whether audio left the window
before one did, and what may excuse it.

*Actions.* One call of the trait each: `Buffer` (`stream_audio` below the decode
interval), `Decode`, `DecodeFails`, `Finalize`, `FinalizeFails`. Each contains all
of `push_audio`, `decode_window` and `apply_hypothesis`, the forced commit and both
trims included.

*The decoder* is external and adverse: it fails when it likes, cuts what it hears
into phrases anywhere, rounds times, adds special tokens, and may mishear the last
word and every word that an edge of the window cuts. Two assumptions are what the
algorithm itself rests on: words are no longer than `overlap_ms` (nor shorter than
two milliseconds, which rounding could not tell apart), and nothing is said twice in
a row, since `committed_prefix_overlap` (616-634) takes the second
"no" of "no no" for a new decode of the first and drops it. A `finalize` over an
empty buffer returns nothing and the stream never becomes final (394-403): no
property asks that it does. A finished stream takes no audio (`push_audio`, 335) but
it may be finalized again: the last trim stops at a whole millisecond, and the samples
behind it are decoded once more and make one more final event. Its text is the
final text as far as the decoder assumed here goes, which hears no word in less than
a millisecond (`FinalizedDone`).

`LiveTranscript` is the listener's view: a numbered text, a stable prefix that only
grows, and after a final text only final ones. `LiveSpec` is the refinement.

### Resampler, SnapshotPort, UvBinary, PluginSource

`Resampler`: `PassThrough` and `Resample` are `push` for equal and other rates, a
sample is the position it is read at. That is an `f64` to which a step is added for
each sample (316-322): every addition is off by up to `Rounding` either way, unless
the step is a binary fraction, when all sums are exact; the comparison with the
buffer's length (318) rounds in one direction, and the subtraction of what is drained
(328) is exact. So 44.1 kHz drifts and may make a sample more or less at the end of a
chunk, and `EvenlySampled` says by how much. `panicked` is the out-of-range `drain`.

`SnapshotPort`: `Number` and `Store` are the two halves of `publish`, `Load` is
`snapshot`; `overtaken` remembers the publishes that passed one another.

`UvBinary`: the steps of `UvBackend::new` in each of several processes, embedded or
not, of two releases: `Elsewhere`, `Found`, `Absent`, `AlreadyPresent`,
`FetchFails`, `Open`, `Copy`, `Copied`, `CopyFails`, `SetMode`, `Done`, `Dies`. The
file is its blocks and its mode, each writer has its own offset.

`PluginSource`: `provision_plugin_env` in several creates. The comment on
`extract_embedded_dir` (211-213) has an extraction of what is there for a no-op;
`include_dir` writes every file again, `Open` (truncate) and `Write`. A create
that truncates what another still needs puts that one into `undone`; all others
see whole files, and what a killed create tore the next one repairs.

### The sequential parts

`WireCodec`, `InProcessBridge`, `LlmTools`, `NodeParams`, `Capabilities`,
`NodeSchemas`, `VideoFrames`, `Requirements`, `PythonRequires` and `EmbeddedTree`
are operators, one per function of the code, and a property that compares them
with a reference definition: the value that was sent, the values two constraints
both admit, what a JSON schema admits, the list an author wrote down. Text is a
sequence of characters only where its characters decide something (names,
markers, quotes, headers); the widths of the wire's length fields are scaled down so
that lengths overflow, the length byte of a channel's name is not. Characters have one
or two bytes; blanks are the ASCII ones.

`NodeValues` puts those that are proved about into one specification: `WireCodec`,
`LlmTools`, `Capabilities`, `VideoFrames` and the lists of `Requirements`. Its
`Next` takes one input, of whatever set its constants name, as the `probe`; the
named assumptions (`WireTypes`, `ToolTypes`, `MediaTypes`, `RequirementTypes`) say
no more than the types of these inputs in the code. `MCNodeParts` adds the others,
whose operators recurse over trees, JSON documents or byte strings, in the same way.

What the properties except is worth knowing: a torn blob is refused, but one whose
parts are longer than their length fields may be read wrongly; a text that looks as
if it carried a channel header is taken for one, be it for the default channel or
only once a tool call has closed it with a newline; a plugin in the host's process
that answers with the dict it was given answers JSON, and the second of two arms for
`control_message` (504-519) cannot be reached; a channel whose name has 128 bytes or
more takes no text; a medium is called inflexible though its shape has dynamic
dimensions or its JSON schema admits many documents; a requirement beyond ASCII is
read with a character for each byte; images have no name among the generated kinds
of data, and the TypeScript of a nested object demands its optional fields; a
requirement that starts with a blank is cut off by one in the cache key, and a
package called `scope` reads like the separator of the scope; a run of separators in
a package name stays a run of hyphens (PEP 503 has one); `[]` behind a union of
TypeScript types binds to its last member; a frame whose size overflows a `u32` is
compared with what is left of it.

## What is checked

| Run | Instance | What it shows |
|---|---|---|
| `pyipc_safety` | 2 interchangeable calls, queue of 2, buffers of 2, frame channel of 1, turns of up to 2 frames, 1 control message, 1 failing receive; 1.6 M states | no data before READY; every caller is given frames of its own turn, in order and without loss; no caller is forgotten on an error path; after a failing receive the channel lags by at most one turn; control messages are forwarded before the answer; `PyIpc` implements `TurnService` |
| `pyipc_live` | queue of 1, buffers of 3, no notes; 0.6 M states | every call is answered and the thread ends, unless the runner died under a turn |
| `ffi_safety` | 2 calls of any entry point and mode, reply channel of 1, 2 values, 1 refusal; 0.8 M states | at most one terminal event; an `end` only for a stream that lost nothing; `Ok` only for completed calls; batching; nothing trails the result of a call that is not a tick, nor the task of a dropped one |
| `ffi_live` | as above with 1 value; 0.5 M states | dropping a guarded future ends its task though handlers may never return; a call whose handler is done resolves |
| `venv_safety` | 4 calls, 3 keys, cache of 2, 3 seconds, 1 fault; 0.2 M states | recorded means complete; used environments are not rebuilt; the bound and the order of eviction |
| `node_parts` | see below; 0.3 M states | the parts of a node that do not interact with others, one behaviour each |
| `pyipc_no_stale_frames`, `pyipc_killed_on_drop`, `ffi_drop_aborts`, `ffi_unary_answered`, `venv_hands_out`, `stt_resamples` | small | a sentence of the documentation that the code does not keep (next section) |

`node_parts` checks what shares no state in one run: `subject` is chosen
initially and says which part moves; the state spaces add up, they do not multiply.

| Subject | Instance | Properties |
|---|---|---|
| `stream` | 6 words of 2 ms with repetitions, 2 samples per ms, window 8 ms, overlap 2 ms, agreement of 2, guard of 1 word, pushes of 2 to 15 samples, up to 24 | `TypeOK` (bounds of window and hypotheses), `Faithful` (what is committed was said, once and in order), `HeardBeforeDropped`, `Audible` (what is shown can still be corrected), `LiveSpec` |
| `resampler` | target 3, rates 2, 3, 5, 6, 9, rounding of a twelfth of a frame, one or two channels | `EvenlySampled`: how audio is cut into chunks does not show, but for what rounding adds up to |
| `port` | 2 publishers, 4 publishes | `ReadersAdvance`: the number of a snapshot orders what a reader sees, unless publishes overtook one another |
| `uv` | 3 processes, 1 embedded, 2 releases, 2 blocks | `HandsOutWhole`: in which cases only a torn or unexecutable uv is handed out |
| `source` | 2 creates, 3 files, deaths and failures | `SourcesWhole` |
| `cases` | one step, that takes one input as the `probe` | `RunnerEchoes` (a value comes back from a runner as it went), `ToolTurns` (windows, tool calls, channels), `DeclarationsKept` (media, frames, requirement lists), `InProcessAnswers`, `DeclarationsAgree` (parameters, schemas, requirements in the source, environments and directories that are shared): the operators against their reference over all inputs listed in `MCNodeParts` |

*Why the bounds are enough to see the cases.* Two calls are one turn and the one
after it, which is where a frame, a control message or a reply of one call can
reach another. Buffers of two overflow with turns of three messages (two frames and
the sentinel), and a queue of two is full with one call being served. With one
reply slot and two calls a full channel is reached by another call's reply. Three
keys over a cache of two evict; four calls give a second call for a key in use and
one for an evicted one; three seconds give equal and different times. One fault
at any point is what a single failing system call does; histories of more are cut
by `MaxFaults`. `MaxFrames`, `MaxNotes`, `MaxValues`, `MaxClock` and `MaxFaults` are
bounds of the models; the other constants are parameters of the code.
The stream's window holds four words, so windows overlap, agreements span decodes
and the bound forces commits; pushes of 13 and 15 samples leave no room in it and
outrun it. Rates below, at, above and three times the target cover the drains of
nothing, of all and of more than a step; two of them (2 and 5 over 3) are rounded,
by up to a twelfth of a frame an addition, so that the samples of fourteen frames may
drift by more than one of them. Three processes are a writer, a second
writer and one that finds what they left. `MaxSamples`, `MaxPublishes` and the
resampler's `MaxFrames` are bounds of the models.
Deadlock is not checked: every model may stop when all calls are over, and a runner
that died under a turn does stop the thread, which `Stuck` names.

*Fairness.* `PyIpc`: weak fairness of `Create`, of the IPC thread (its own OS
thread), of the runner while it lives and of each caller's future and consumer
(polled by tokio). Nothing makes the runner die or a caller give up. `FfiAdapter`:
of `Join`, of the runtime's own steps, of an abort being taken and of the reply
consumer reading; nothing of handlers. `VenvCache` has no liveness property: its
calls end when uv does. The parts of `node_parts` have none either: pushes,
publishes and creates come from outside, and nothing in them waits.

## Where the code and its documentation disagree

Each is a run that TLC finds violated; the quotation is in `PROJECT.json`.

1. `NoStaleFrames`: a receive error returns by `?` without draining, so the next
   call is answered with the rest of the turn. `BoundedSkew` says how far this goes.
2. `KilledOnDrop`: nothing kills the runner when the node is dropped.
3. `DropAborts`: entry points other than streaming and RPC do not abort their task.
4. `UnaryAnswered`: a withdrawn unary value leaves its call without any reply.
5. `HandsOutComplete`: `get_or_create` can evict what it is about to return.
6. `Resamples`: a short chunk at a rate above three times 16 kHz makes the resampler
   drain more frames than it has, which panics.

More without a run of their own, each stated by a property as the code has it:

* A slow streaming consumer does not reach the runner as backpressure but costs
  frames (`Lossless` excepts overflows, and only them).
* The extraction of a plugin's source is no no-op (`PluginSource`).
* Swapping the client's source tree for one whose path differs only in case or
  separators does get the old environment (`DeclarationsAgree` excepts it, against
  `py-env-manager/src/lib.rs` 815-818).
* A plugin in the host's process that returns the type it was given, a dict, answers
  JSON, where `templates/inprocess_python_plugin.py` 63 says "Return the same types
  from `process()` for automatic conversion back" (`InProcessAnswers`).
* `tag_text_str` panics for a channel with a name of 128 bytes or more: the byte that
  holds the length is no UTF-8, against "All parts are valid UTF-8"
  (`types/src/lib.rs` 493), and the cut at 255 bytes never helps (`ToolTurns`).
* "Generate RuntimeDataType enum" (`traits/src/schema.rs` 549) leaves out `'image'`,
  which the interface of a node that takes images names (90); and `required` is read of
  a configuration but not of the objects in it (656-662), whose optional fields the
  TypeScript demands (`DeclarationsAgree` excepts both).
* "Returned strings are exactly as they appeared in source"
  (`plugin-sdk/src/python_subprocess.rs` 57-58) does not hold beyond ASCII: each byte
  becomes a character (138, 145; `DeclarationsAgree` says which).
* An inner `None` of a shape "indicates dynamic dimensions" (`traits/src/capabilities.rs`
  210), but shapes are compared as they are: a dynamic dimension is compatible with
  another dynamic one only.

The passing properties say what does hold around these: `OwnFrames` and `Lossless`
until a receive fails, `GuardedDropAborts` for the guarded entry points,
`OkMeansCompleted` without a withdrawn value, `InUseComplete` up to eviction,
`EvenlySampled` until the resampler panics.

## What is proved

All theorems hold for any number of calls and keys and any value of the other
constants, under the named assumption of each module (capacities are positive, the
model values are distinct, a configuration is valid). Every property of the three
concurrent components that is not about liveness is proved, and so are the
refinements of both abstract specifications.

* `PyIpc_proofs`: `HandshakeCorrect`, `TypeCorrect`, `NoDataBeforeReady`. The types
  alone are not inductive: `SpawnRunner` sets the runner to "starting", which is
  well typed only because a node is spawned once, before any command exists. The
  inductive invariant is `TypeOK /\ Handshake`, and `ReadyBeforeData` follows.
  `TurnsInvariant`, `TurnsFollow`, `FramesAreOwn`, `AnswersAreWhole`,
  `NoCallIsLost`: what a caller is given says nothing of what the channels still
  hold, so neither `OwnFrames` nor `Lossless` is inductive. The
  invariant `TurnsAligned` follows a frame through the node. Always: `ReadyOnce`
  and `AtMostOnce`, a command is queued and served once. Until a receive fails:
  `Unserved`, nothing was emitted for a call that was not served yet; `OneTurn`,
  between turns the channels are empty and within one they hold nothing else;
  `ByMode`, what the thread holds agrees with the loop it is in; `InOrder`, the
  answer, the frames the thread holds and the buffered ones continue one another;
  `AllAccounted`, none is missing but those a full channel dropped. A receive that
  fails breaks all but the first two, which is why they carry that hypothesis and
  `BoundedSkew` has to be proved apart.
  `NodeImplementsService`: initial states map to initial states, and each action
  maps to a step of `TurnService` or to a stutter; which one rests on
  `TurnsAligned`. `NoStragglers`, since a loop drains control messages
  after the sentinel; `SkewBounded`, from a counting argument of its own: a turn
  ends in the channel once, so the sentinels still to be read are those of the
  turns that a receive error left, and of the one being served.
* `FfiAdapter_proofs`: `TypeCorrect`, `CompletionCorrect`, `AtMostOneTerminal`,
  `EndIsHonest`. `OneTerminal` speaks of the replies sent, but what prevents a
  second one is the flag `terminal`, which runs ahead of them: `Completion` ties the
  flag, the place of the task and the log. `HonestEnd` needs in addition that a
  stream that may still end has published everything it tried (`Honesty`). Both are
  proved per call: a step of one call is shown to leave the others' clauses alone
  (`CompletionSame`, `HonestySame`) and to keep its own. `SettlementCorrect` adds
  what a result means: `JoinedOf` (a future that resolved has a task that is over
  and its result), `AnsweredOf` (a call over by its flag has its terminal event in
  the channel, but for a withdrawn or refused push), `KeptOf` (what a batching task
  holds is what it emitted, and the host has it once the future resolved). Hence
  `OkIsCompleted`, `BatchesWhole` and, as an action property, `NoneTrails`.
* `VenvCache_proofs`: `TypeCorrect` (which contains mutual exclusion: the calls past
  the lock are exactly its holder), `RecordedCorrect`, `InUseKept`. A directory must
  not have metadata while it is built (`Building`) for `RecordedComplete` to be
  inductive, and orphans only add. `Kept` adds that a call clears only directories
  without metadata, so none in use; for this `RecordedComplete` is needed, since a
  recorded directory without interpreter would be rebuilt. `CacheBounded`: only
  `Finish` lists a directory, one, and its eviction brings the cache back to the
  limit; `Within` adds that the listed ones are finitely many, whatever the keys.
  `OldestGoFirst` is about one step: no victim of `Oldest` was used after a
  directory that stays.
* `WhisperStream_proofs`: `StreamInvariant`, `TypeCorrect`,
  `NothingUnheardIsDropped`, `AgreedIsSpoken`, `CommittedInPlace`,
  `TranscriptIsFaithful`, `ShownIsAudible`, `StreamImplementsTranscript`, for any
  utterance that the assumption admits, any configuration and any sequence of pushes.
  The inductive invariant is
  `TypeOK`, `InTime` (what is committed or shown ends within what a decode has
  heard), `Counted` (the samples that count as new are those no decode has seen,
  and all of them are in the buffer), `InOrder` (words are shown in the order in
  which they end), `Audible` and `Shown` (the last event is what the state
  remembers). `Audible` is not inductive without `InOrder`: a forced commit takes
  words from the front and moves `committed_through_ms` to the latest of them, so
  a later word that ended earlier would be left behind. `AgreedAsSpoken`, the first
  part of `Faithful`, joins them: a decode mishears at most its last word, the sort
  keeps that one last (words have their times in the order of the utterance, also
  across phrases), and what two decodes have in common, less the trailing guard,
  stops short of the last word of each. The bulk of the proof is
  about the operators: the decoder's phrases lie in its window, splitting a phrase
  keeps its words in it, the stable sort orders them, the trims and forced commits
  move the buffer forward only.

  `InPlace`, its second part, has an invariant of its own, `InStep`, beside the first:
  while nothing excuses a loss and every committed word is as spoken, the committed
  words are the first of the utterance, those shown continue them and with them
  cover all that was heard whole, and the next word is still in the buffer
  (`Positioned`); once the stream is final nothing is unstable and the committed words
  cover all that was heard whole (`Done`). A decode starts at the buffer, so its words run from the last
  committed word, if the window still holds that one whole, or from the next. A word
  that was heard again is dropped for its text, and only such a word: a longer match
  would repeat a stretch of the utterance right behind itself, and nothing is said
  twice in a row (`RowOverlap`). What the bound takes was heard with room to
  spare (`Room`), for a push that outruns this is what `blind` records. Two hypotheses
  agree on a row that continues the committed words, as each is such a row. The
  times that order all this are rounded three times on their way from samples to
  milliseconds; `StretchTimes` bounds what is lost to one millisecond, so that words
  longer than that (`WhisperAssumption`) can be told from committed ones by their
  ends.
* `Resampler_proofs`: `SampledEvenly`, for any rates, channel counts and chunks
  and any rounding. Inductive is where the stream stands (`Stands`): the position in
  the buffer, after the frames drained in front of it, is as many steps on as samples
  were made, each off by at most the error of one addition (`AfterMore`: steps of two
  chunks are steps of one), the buffer is the rest of the stream, the next sample
  would need a frame that is not there and the last one did not. The drain that
  panics ends it.
* `UvBinary_proofs`: `WholeUnlessExcused`, for any number of processes, releases and
  blocks. Whether the file is whole depends on writers that are half done, each
  with an offset of its own: `Apart` (two that write at once have met), `Written`
  (the file is what the one that met no other has written so far), `Left` (when
  nobody writes it is whole, unless writers met or failed) and `Pending` (what is
  not executable has a writer that will make it so, unless one failed).
* `NodeParts_proofs`: `NodeReadersAdvance`, `NodeSamplesEvenly`, `NodeHandsOutWhole`,
  `NodeReadsWhole`: beside the other parts each keeps what it promises alone, as no
  step of one moves the state of another (`PartsApart`); these are the theorems of
  the properties `node_parts` checks. For ports, the stored snapshot and a
  reader's last one say nothing of what may be stored next; the invariant adds that
  numbers in flight are unique and that what is in flight and older than what is
  stored or seen has been overtaken by it. `SourcesWhole` speaks of creates that
  read; inductive is that every file a create relies on (`Relies`: those it has
  written, then all, then those still to be imported) is whole unless it is `undone`.
* `NodeValues_proofs`: `RunnerAlwaysEchoes`, `ToolsAlwaysTurn`,
  `DeclarationsAlwaysKept`, for every set of inputs of the types of the code. A step
  takes one input, so each rests on a theorem about the operators, for every value:
  * `ValuesEcho`. A frame and its payload are laid out one part after another
    (`IsLaid`): what `FromBytes` finds at a length field is what `ToBytes` put there as
    long as no length wraps, and what lies behind is the next part; one lemma for each
    kind of value. A proper prefix is shorter than its header or than the lengths in it
    say, so no kind of payload is ever looked at.
  * `WindowKeepsPairs`. The start is the first user turn that has few enough behind
    it; an answer in the window has its call before it with no user between, so the
    call is in the window too. That the window holds as many turns as are wanted is a
    count of the users behind a position.
  * `CallsDispatched`, `RequiredUnderstood`, `ChannelsKept`. A header is UTF-8
    exactly if the length in it is an ASCII byte; name and text are well formed apart,
    so what is laid together is read apart again, and a call on a channel with a longer
    name panics at its first emission.
  * `MergeKeeps`, `AbsentReported`: of the entries that share a name and a marker the
    last is kept, which is there since positions are bounded.
  * `ConstraintsAgree`, `InflexibleFixed`, `FramesAsDeclared`.

  None needs an induction theorem with an operator for a parameter: a claim about all
  positions of a sequence is proved from the least or the greatest position at which
  it would fail (`Bounded`, from the well-foundedness of `<`).

`TypeOK`, `Handshake`, `Completion` and `TurnsAligned` are invariants of the TLC runs
as well; `Honesty`, `Settlement`, `Building`, `Kept`, `Within`, `InTime`, `Counted`,
`InOrder`, `Shown` and `InStep` serve the proofs and are checked by them.

Some attempts failed for a good reason. `InPlace` had asked that every committed word
be in its place. A word that is committed misheard (by the bound, by the final
decode, or with a guard of zero) is not: `committed_prefix_overlap` compares texts
(`traits/src/stt.rs` 616-634), so the second hearing of a committed word is not
recognised when it is misheard, and what follows is placed behind it. TLC finds a
final decode that does so; the property now ends with the first misheard word,
and says where that one stands. `EvictsOldest` had said that an environment is
removed only if every one used in an earlier second goes too. That is false when
the removal of the older one fails: the code warns and goes on to the next victim
(`py-env-manager/src/lib.rs` 553). TLC confirms the counterexample; the property now
excepts a removal that failed. Of the parts without state, three statements held on
TLC's inputs and not in general. `ChannelKept` and `Dispatched` took a text for tagged
only when its header names another channel; one that names the default channel is taken
apart as well (`types/src/lib.rs` 458-475), and the newline that a `say` call appends
may be the byte that completes a header. `ReportsRight` had expected a report for a
requirement whose name is empty, which the code skips, and an error for one with an
empty marker (`a;`), which it takes for conditional by its semicolon
(`py-env-manager/src/lib.rs` 163-275). And `Echoes` needs that a JSON text is never
empty: no metadata and metadata of no bytes would be one frame. The inputs of
`MCNodeParts` now contain the first of these.

Only model-checked:

* `InProcessAnswers` and `DeclarationsAgree`. Their operators are RECURSIVE (a JSON
  document, a tree of directories, nested parameters) or folds over byte strings (the
  parser of requirements, the cache key with its sort): what these compute for every
  input needs an induction over data, which the installed provers cannot instantiate.
* Everything about liveness and fairness (`pyipc_live`, `ffi_live`), for which the
  prover has no ENABLED.

## Not modelled

* The derive macros (`core-derive`) and the build scripts run at compile time; what
  the macros generate has no state.
* The streaming node traits are declarations; their default methods and wrappers
  pass a call on (`process` for one input of several, one output for a stream).
* Builders that set one field, accessors, error texts, logging, the modality types
  and re-exports, the getters of factories.
* Platform code: process groups, `PR_SET_PDEATHSIG` (covered by a runner that may
  die at any moment), formats of archives, probing of interpreters, the search for
  the client's source tree.
* Two loaded libraries over one environment cache, two nodes with one session id:
  both are hazards of `PROJECT.json` without a property.
* Encoding of JSON as text, and the contents of media.

## Plan

Done, in this order: `PyIpc` with `TurnService`; `FfiAdapter`; `VenvCache`; their
proofs of types and first invariants; `WhisperStream` with `LiveTranscript`, the
other parts of `node_parts`; the turns of `PyIpc` and the refinement of
`TurnService`; results and batches of `FfiAdapter`; the eviction of `VenvCache`;
`WhisperStream` and the refinement of `LiveTranscript`; the other parts of
`NodeParts`, each alone and side by side; `Faithful`; `NodeValues`, for every input.
Next:

1. `VenvCache` for two libraries with a lock each over one directory.
