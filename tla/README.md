# Verification of mpv_stt_plugin

TLA+ modules, TLC configurations and TLAPS proofs for the mpv speech-to-text
plugin and its inference server. Paths are relative to the repository;
`plugin.rs`, `translate.rs` and the like are in
`crates/mpv-stt-plugin/src/`, `server.rs` and `worker.rs` in
`crates/mpv-stt-server/src/`, `remote_http.rs` in
`crates/mpv-stt-plugin/src/stt/`. (The repository's own README still speaks of
a UDP inference server; the code, and hence this project, is about HTTP.)

    tlc -workers 2 -config PluginSession_Seek.cfg PluginSession.tla
    tlapm PluginSessionProofs.tla

`PROJECT.json` lists every run with its properties, for each property a
deliberately wrong form of a definition that the run must catch (definitions
named `X_Something` in the modules, never part of a specification), the source
lines behind each definition, the findings, the hazards and the theorems.

## 1. The system

### Components, state, operations

| Component | State | Operations |
|---|---|---|
| Plugin thread (`plugin.rs`, `PluginState`) | flags `running`, `shutting_down`, `pending_auto_start`, `file_loaded`; `mode` with the file it belongs to; the processing cursor `current_pos_ms`; the last observed playback position and its instant; `processed_chunks`, subtitle list, translation cache, `subs_loaded` | event loop (`mpv_open_cplugin`), `toggle_stt`, `start_transcription`, `tick_network`, `tick_local`, `check_seek`, `process_chunk(_local)`, `transcribe_and_update`, `process_translation_results`, `save_subs`, `cleanup` |
| Translation queue (`translate.rs`) | task channel, result channel, generation counter, shutdown flag; the worker's batch | `submit`, `cancel_inflight`, `try_recv_results`, `shutdown`, `force_shutdown`, `Drop`, `worker_thread` |
| Subtitle list and cache (`subtitle_manager.rs`, `plugin.rs` 1083-1210) | entries by start time; one `.srt` per medium; for network streams a manifest with the chunk size, the processed chunks and the translations | add, translate, save, reload, restore at start |
| Remote STT client (`remote_http.rs`) | request id, attempt | compress, frame, seal, send, retry |
| Inference server (`server.rs`) | one handler per request, the shared result stream under a lock | check, enqueue, wait for the result, answer |
| Worker pool (`worker.rs`) | job channel, job of each worker | receive, transcribe, send the result |
| Local Whisper backend (`local_whisper.rs`) | context and its device, the notice not shown yet | load, run, fall back from GPU to CPU |
| Audio extraction (`audio.rs`) | during a call: the demuxer's position, what the decoder keeps back, skipped and written frames | seek, decode, skip, write, flush |
| SRT (`mpv-stt-srt`), crypto, protocol, configuration, FFI | none that outlives a call | pure functions and bindings |

### How they interact

mpv sends events to the plugin thread, which reads mpv's properties
(`time-pos`, `duration`, `demuxer-cache-time`) whenever it likes and sends
commands (`sub-add`, `sub-reload`, `dump-cache`). The same thread cuts the
audio, runs the recogniser (in process, or by HTTP) and merges the text, and is
blocked meanwhile: mpv's playback, the user and the translation worker move
between any two of its steps. It submits each recognised entry to the translation
worker through a channel, and fetches what is answered at every tick. A seek
increments the generation counter, by which the worker knows that a task has been
cancelled. On the server, HTTP handlers put jobs into one channel; any worker takes
them; all the results come back on one stream, which the handlers read in turn.

### What is hard here

- *Interleaving*: a seek, a change of file or the end of playback during
  extraction or recognition; cancels between the worker's steps; handlers that
  read each other's results.
- *Stale values*: the last playback position, the cache end and the chunk
  length are read once for a loop of several chunks.
- *Partial failure*: a list that is not saved although its chunk is marked; a
  manifest that is not written although the list is; a `sub-add` that fails.
- *Restart*: what the next process makes of the files it finds, written by a
  process with another chunk size, or left half-written by one that died.
- *Retries*: attempts with the same request id, late results, time-outs.
- *Boundaries*: a segment across packets, blocks that the decoder gives back late,
  the end of the file, the last Opus packet; the last chunk of a file.
- *Fall-backs*: a GPU that fails at loading or in the middle of a run, a seek that
  fails or lands early.
- *Liveness*: look-ahead limits, short last chunks, swallowed shutdown markers,
  lost results.

`PROJECT.json` lists the 39 hazards at their lines, with the properties that
cover each of them or the reason why none does.

### What makes each component correct

- Plugin thread: the text merged at the cursor was recognised in the audio of the
  cursor; no chunk with speech is passed over; only the user's seeks are taken
  for seeks; what counts as processed has its entries, also after a restart, and is on
  disk unless a save failed; a session that ends leaves nothing to the next, and the next
  file gets one (it does not, section 5); a session comes to its end.
- Translation queue: what was submitted is answered, given up or cancelled; a
  cancelled task stays cancelled, except for one answer already past the
  worker's last look; the worker ends.
- Subtitle list and cache: a word heard and saved is found again by the next
  process; what counts as processed has been heard; a translation stands under
  the text it was made from; no list loses anything by being written.
- Extraction, recogniser and transfer: a segment has no hole and no frame twice;
  a server hears what the plugin would have heard, but for the delay of Opus; a GPU's failure stops
  nothing and is not met again; the notice names the device in use.
- From audio to entries: a chunk is merged where its audio was cut, and counts
  as processed only with all that was spoken in it.
- Server and client: a result is handed out once; a chunk's subtitles are made
  from that chunk's audio; a result somebody waits for is not dropped; every request
  ends.

## 2. The modules

    PluginSession ------ uses (INSTANCE) ------> TranslationService
          ^                                             ^
          | EXTENDS                                     | implements (INSTANCE)
    PluginSessionProofs                          TranslationQueue
          ^
          | EXTENDS
    PluginSessionTypes            RemoteStt -- INSTANCE --> SttServer
          ^
          | EXTENDS
    PluginSessionLists

    SubtitleCache                 Recognition -- EXTENDS --> AudioSegment
                                              -- EXTENDS --> LocalWhisper
                                              -- EXTENDS --> Transfer

    PluginSession ---- implements (INSTANCE) ----> ChunkRoutine
    Recognition ------ implements (INSTANCE) ----> ChunkRoutine

    RecognitionProofs -- EXTENDS --> Recognition
                      -- EXTENDS --> AudioSegmentProofs -- EXTENDS --> AudioSegment

    TranslationQueueProofs -- EXTENDS --> TranslationQueue
    RemoteSttProofs        -- EXTENDS --> RemoteStt
    SubtitleCacheProofs    -- EXTENDS --> SubtitleCache

The five state machines divide the plugin by question. `PluginSession` is the thread
among mpv, user and translator, with a chunk's audio and text reduced to where they
come from; `Recognition` is what happens to the audio and text of a chunk;
`SubtitleCache` is what becomes of entries on disk and across processes;
`TranslationQueue` and `RemoteStt` are the plugin's two partners. Where one takes
another's result for granted, it says so in its header. The chunk routine is in two of
them, and `ChunkRoutine` is what both are shown to implement.

### PluginSession

The plugin thread with mpv, its user and the translation queue around it. The
state of `PluginState` keeps its names in short form:

| Variable | Code |
|---|---|
| `running`, `shutting`, `pendingAuto`, `fileLoaded` | the flags of `PluginState` |
| `mode`, `source` | `mode` and the file in it (`media_path`, `subtitle_path`, `network_cache`) |
| `pos`, `chunkDur` | `current_pos_ms`, `chunk_dur` |
| `last`, `elapsed` | `last_playback_pos_ms`; the time since `last_playback_instant` |
| `processed`, `subs`, `transCache`, `subsLoaded` | `processed_chunks`, the subtitle list, `translation_cache`, `subs_loaded` |
| `pc`, `ret`, `iter`, `snap`, `cacheSnap`, `wav`, `batch` | where the thread is, who called the chunk routine, the loop variable `i`, the loop's `playback_pos_ms` and `cache_end_ms`, the audio file, the results fetched and not yet saved |
| `inflight`, `late`, `answers` | the translation queue as TranslationService has it |
| `disk`, `manifest` | the `.srt` and the manifest of each medium |
| `media`, `file`, `playback`, `events` | mpv: what it plays, where, the events queued |
| `sought` | ghost: the user has moved since the plugin last read the position |
| `lost` | ghost: the chunks of each medium whose entry a failed or interrupted write has cut off the list, or that stood in a list nobody could read |

The thread is cut where it blocks or where a value read before is used after:
`"wait"` (in `wait_event`), `"tick"`, `"results"` (between the saves of
`process_translation_results`, one for each answer), `"plan"` (after it), `"loop"` (top of the
look-ahead loop),
`"extracted"` (audio cut, before the first `check_seek` of
`transcribe_and_update`), `"transcribed"` (recogniser done, before the second),
`"exited"`. Between two such points the code touches only its own state, the
files and, by commands, mpv's track, which is not modelled, so that one action for the whole
stretch loses no interleaving that the properties tell apart; where a stretch saves, `Kill`
may also come within the write. There is one action
per event handler (`HandleToggle`, `HandleStartFile`, ...), with
`start_transcription` or `cleanup` inside it where the code calls them; the
successful and failing ways through a tick and a chunk are `TakeResults`, `SaveResult`,
`PlanLocal`, `PlanNetwork`, `LoopStops`, `LoopSkips`, `LoopExtracts`,
`Recognised`, `RecognitionFails`, `MergeSilent`, `MergeFails`, `MergeSpeech`;
`SeekSeen` is every call of `check_seek` that returns true, and `NoSeek` is a
conjunct of the others.

A save is `fs::write` of the list, then of the manifest. `SaveSubs` is the case in which
the list is written, `SaveFails` the one in which it is not: the file is as it was, or
a torn list (`Torn`: all entries before some chunk, that chunk's with or without
its translation, or a file that does not parse). A manifest cut off cannot be parsed and
is as good as none. `DiesSaving` is a process that ends within either write; `BeingSaved`
says at which points of the thread that may happen.

Abstractions. Time is in units and a chunk is `Chunk` of them. A chunk's
subtitles are one entry at the chunk's start: `"none"`, `"plain"` or `"both"`
(with the translation appended). `Speech` says in which chunks anything is
said; the recogniser finds it, or fails. Whether the media are network streams is the
constant `Network`; `SaveSrt` and `TempSrt` say whether subtitle files
are reused and whether they lie in the temporary directory which `cleanup` empties.
`wait_event` timing out when the tick would return at once is left out, as a stutter.
`cancel_inflight` of the recogniser and of the extractor is called by the thread
that would have to be cancelled, when nothing of it is under way, so the
`Cancelled` error paths cannot be reached and have no action.
`Env` selects what the surroundings may do, so that each run
can concentrate: seeks, pauses, toggles, skipped files, quitting, a kill and
restart, failing extraction, recogniser, lists and saves, an unreadable subtitle
file, translations given up, a file already playing when the script is loaded, an mpv that
plays faster than the clock goes (`"fast"`).

### TranslationService, TranslationQueue

`TranslationService` is the abstract queue: `live` tasks, `late` ones (cancelled,
with an answer that may still arrive), `answers`. `TranslationQueue` is
`translate.rs` itself, with the loads, stores, sends and receives of the two
threads as steps of their own: `CheckFlag`, `RecvTask`/`RecvStop`/`RecvNothing`,
`LoadGeneration`, `DrainTask`/`DrainEnds` for the collecting loop, then the
futures of `buffer_unordered` (`fut`: `"idle"`, `"waiting"` outside the buffer,
`"calling"`, `"sleeping"`, `"none"`/`"ok"` when finished) and `Yield`/`Send`.
`KeepsPromise` states that it implements the service under a refinement mapping
(`LiveTasks` from channel, batch and hand; `LateTasks` the hand of a cancelled
batch). Two pairs are one step. The worker's loads of the shutdown flag and of the counter,
which follow each other in `Yield` and `BeginCall`: the flag is stored once and after
the last cancel, so there is a moment between the two loads at which both values were
true. And the store and the send of `force_shutdown`: between them the worker can
only miss a marker which the flag makes superfluous. The ghost `from` is the generation
under which a task was submitted, which the code forgets once the batch is collected.
`PluginSession` makes its assumptions about the queue explicit as
`UsesQueueAsPromised`, the same abstract specification, so what the
plugin's model takes for granted is what the queue's model delivers.

### ChunkRoutine

The abstract specification of handling a chunk (`process_chunk(_local)` with
`transcribe_and_update`): the `cursor`, the positions `done`, and the chunk at `hand`,
identified by the position it was cut at. `Begin` takes up the chunk at the cursor if
it is not done; from then on the cursor stands still until `Finish` marks the chunk at hand,
or `Leave` drops it (a failure, or a `check_seek` that has moved the cursor); `Open` and
`Close` are the session's start, which may take up a chunk at once, and `cleanup`.
`PluginSession` takes `wav.start` for the chunk at hand while `pc` is inside the routine,
`Recognition` the extractor's `start` from `BeginChunk` to the merge: the two modules
cut the same routine in different places, and `WorksByChunks` in each of them is
what makes the one an account of the other.

### SttServer, RemoteStt

`SttServer` has the actions of handlers and workers: `Reject`/`Accept`,
`CheckDeadline`, `TakeOwn`, `DropUnrelated`, `Wake`, `DropHandler` (axum drops the
handler of a closed connection, and the lock with it), `TakeJob`, `SendResult`.
The lock is a queue of handlers whose head holds it (tokio's mutex is fair). The
workers' result channel, the forwarding task and the stream are one FIFO.
`RemoteStt` adds the clients with their retry loop: a retry is a new HTTP request
with the same request id (`Id`), so the server may compute a chunk twice and
either result answers either attempt. `Faults` says what may go wrong: `"network"`, that a
request cannot be sent or an answer is lost on its way (a connection that breaks while the
handler waits is like a timeout, and belongs to the next); `"slow"`, that the client's
timeout passes while its handler waits. The client always has one (`remote_http.rs` 62-65),
so a run without `"slow"` is about the time until it passes.

### SubtitleCache

One medium, its list and its manifest, and the processes that follow each other
on them, each with a chunk size of its own (`size`). `subs`, `processed`, `cache`,
`tasks` and `asked` are the plugin's subtitle list, `processed_chunks`,
`translation_cache`, the tasks that wait for `save_subs` and those submitted. A
chunk yields several entries; a word that a chunk's end cuts in two is heard in
part, which is how chunk sizes become visible in what entries say.
`save_subs` is cut between its two writes (`WriteList`, `WriteManifest`), each of
which may fail as a whole or on the way, and the process may be killed before,
within and after either (`Kill`). `fs::write` truncates and fills, so a torn list is
a front of the entries with maybe a piece of the next one, or does not parse.
`Start` is `load_cached_subs` with its three tests: the list can be parsed, the manifest can
be, its chunk size is ours. Beside a local medium the first list may be somebody else's: entries
in `Others` with the text `Foreign`, with or without a second line (`ForeignLists`).
`kept`, `heard`, `torn`, `lost` and `sizes` are auxiliary:
what the properties compare with.

The order of chunks is left open (any chunk not processed may be recognised),
which includes every order the cursor of PluginSession can produce.

### AudioSegment, LocalWhisper, Transfer, Recognition

`AudioSegment` is `extract_audio_segment`: `Extract` opens and seeks (`seeked`,
`toSkip`), `SendPacket` and `ReceiveBlock` are the two nested loops, `SendEof` the
flush, `Finalize` and `ExtractionFails` the ends. The medium is the frames 0, 1,
..., so what is cut can be compared with what was to be cut. Packets, blocks and the
decoder's delay are free within `MaxPacket` and `Delay`; `seekable` are the frames a seek
can enter the container at.

`LocalWhisper` is the backend with one action per way through `ensure_context`,
`run_inference` and the fall-backs; `ctx` is `ctx` with `active_device`, `notice`
is `pending_device_notice`. `Transfer` has no state: what the client makes of a
WAV file (`Packets`, `Padded`, `Request`), what the server makes of a request
(`Authorised`, `Opens`, `AudioOf`, `Admitted`) and the `Response`. An Opus packet is
the samples it was made from, but they come out of the decoder `Lag` samples late
(`Delayed`): encoder and decoder look ahead by about 6.5 ms, which the client does not
flush at the end (`remote_http.rs` 317-323) and the server does not skip at the
beginning (`server.rs` 379-421). A packet that is not whole is an error of the encoder
(`Encodes`), with which nothing is sent.

`Recognition` composes the three around the chunk routine: `phase` is where the
thread is, `BeginChunk` calls the extractor, `TranscribeHere` the local backend,
`TranscribeThere`, `Send`, `Refused`, `CannotSend` and `NoAnswer` are the retry loop of the
remote one, whose worker is again a `LocalWhisper`; `SeekBeforeTranscribing` and
`SeekWhileTranscribing` are the two `check_seek`s of `transcribe_and_update`; `Merge`
is the rest of it, with `offset_srt_file` (`Offset`) and `add_from_srt` (`Added`), and
`MergeFails` the way out when the chunk's list cannot be shifted or parsed.
`setup` ranges over the builds and over all settings of both sides.

## 3. The runs

Bounds: a chunk is 2 units (1 in `Cache`), so positions inside a chunk exist; a
file of 5 units has two whole chunks and a short last one; a look-ahead of 2 is the least
with a second iteration, which is where `chunk_pos` counts the first chunk twice;
`MinJump = 1` makes jumps possible in a short file, `MinJump = 6` makes
them impossible where a run is not about seeks. `MaxEvents` bounds the events
waiting in mpv's queue, `MaxGen` the cancels, `Chunks` and `MaxRetry` the client.
The code has none of these four bounds, except `max_retry`. In `PluginSession` mpv plays
a unit in a unit of time, or up to two where `Env` has `"fast"`, or none while paused.

| Run | Shows | States |
|---|---|---|
| `PluginSession_Seek` | seeks at any moment, playback no faster than the clock: `CursorOnGrid`, `WorksByChunks`, `OnlySeeksAreSeeks`, `NoChunkSkipped`, `UsesQueueAsPromised`, `TypeOK` | 1.89 M |
| `PluginSession_Stop` | two files, all ways to stop, fast playback, restart with reused files, kills between and within the writes: `NothingIsLeft`, `ProcessedIsSaved` | 783 k |
| `PluginSession_Cache` | network stream, manifest, kills and failures between and within the writes: `ProcessedIsHeard` | 2.04 M |
| `PluginSession_Live` | a local file from start to end, extraction and lists failing now and then: `PlainIsQueued`, `LocalSessionFinishes`, `EverythingIsRecognised` | 25 k |
| `TranslationQueue_Full` | all interleavings of two threads, two tasks, two cancels: `BatchOfOneGeneration`, `KeepsPromise`, `CancelledStaysCancelled`, `ForcedIsQuiet`, `TasksAreSettled`, `WorkerEnds`, `TypeOK` | 186 k |
| `RemoteStt_One` | one plugin, two chunks, two attempts, two workers, every fault: `DeliveredOnce`, `ChunksInOrder`, `LockHasLiveHolder`, `TypeOK` | 907 k |
| `RemoteStt_Live` | the same as long as the client's own time-out does not pass: `EveryRequestEnds`, `NothingWantedIsLost` | 19 k |
| `SubtitleCache_Restart` | three processes, two chunk sizes, two words of which the first is cut by the larger chunk, with and without a manifest, with and without an entry by somebody else, kills and failures at and within each write: `HeardIsListed`, `SilentWasHeard`, `OneSizeIsExact`, `TranslationsFit`, `ListOnlyGrows`, `TypeOK` | 797 k |
| `Recognition_Chunks` | a file of two chunks, both devices, local and remote with every setting, every failure, seeks at every check: `SegmentIsWhole`, `EntriesInTime`, `ProcessedIsComplete`, `HeardAsHere`, `ErrorMeansCpuFailed`, `NoticeTellsDevice`, `WorksByChunks`, `TypeOK` | 936 k |
| `PluginSession_NextFile`, `RemoteStt_Two`, `Recognition_Early` | one violated property each (`EveryFileIsStarted`, `NothingWantedIsLost`, `SegmentIsAsked`), see Findings | |

Bounds of the last two passing runs. `SubtitleCache`: six units and sizes 2 and 3 are
the smallest medium on whose grids chunks overlap without either dividing the
other; the words {2, 3} and {5} leave silent chunks of both sizes and put the border of
a 3-chunk into a word; the foreign entry at 4 is in one 2-chunk with the second
word, and in one 3-chunk with the rest of the first as well.
Three starts are needed for a process that reads what a
second one, of another size, has added to the list of a first. A process that reads a
torn list is the last one, since the properties make no further claim.
`Recognition`: five frames in chunks of three make a whole chunk and a short one,
and neither is a multiple of the Opus packet of two; a `Lag` of 1 is the least that
moves and loses anything, and less than a packet as it is in Opus (about 104 of 320 samples);
packets up to 2 with a delay of
1 let blocks begin before, and end after, either end of a segment; two attempts
are the least with a retry. `{0, 2, 3}` has speech at the first and last frame of the
first chunk and at the first of the second.

Deadlock is not checked: each of these systems may stop (the process has exited,
the file has ended and nobody does anything, the client has failed for good, the last
process has been killed).

### Fairness

- `PluginSession!FairSpec`: weak fairness of the plugin thread (`wait_event`
  returns after 0.1 s at the latest) and of mpv loading and playing files; strong
  fairness of an extraction that works and of a merge that is saved, since both are
  tried again on every tick, *assuming that a failure is temporary*: a segment that
  never yields samples is retried for ever (`plugin.rs` 1003-1022).
- `TranslationQueue!FairSpec`: both threads go on; a call ends, because the
  translator is given a time-out (`translate.rs` 467-472). The plugin is not assumed to
  fetch, cancel or shut down.
- `RemoteStt!FairSpec`: workers finish their jobs, handlers go on, deadlines pass,
  clients send and read, closed connections are noticed. About faults the fairness
  says nothing, but the instance does: in `RemoteStt_Live` the client's timeout does not
  pass while its handler waits.

## 4. What is proved

TLAPS checks these for every value of the constants, under the named assumptions
of the modules.

`PluginSessionProofs`, under the five assumptions of `PluginSession` (`Nil` and `Unreadable` are
no lists, sizes are positive, speech lies on the grid, the flags are Booleans and a network stream without
`save_srt` writes to the temporary directory, `Env` is any set of the listed
behaviours):

- `SessionsLeaveNothing`: `Spec => []NothingIsLeft`. A session ends in five places (toggle,
  end of the file, quitting, the tick that finds the file finished, a recogniser that
  fails within a routine) or with the process; each goes through `Cleanup` and leaves the routine it was
  in. That nothing is added while there is no session needs `CursorInv`, whose `Routine`
  says that the inner points of a tick belong to one.
- `CursorCorrect`: `Spec => []CursorInv`, the inductive invariant behind the next
  three. `CursorOnGrid` and `AudioAtCursor` are not inductive: whether the cursor
  may advance depends on where the thread is. `Routine` adds that the inner points
  of a tick belong to a running session and that the mode fits the constant;
  `Window` that a chunk the loop may pass fits into the file, and that a chunk
  length other than `Chunk` reaches exactly to the end. `Window` in turn needs the
  window test of the code (`WindowFits`): `pos + iter * ChunkDur < FileLength` with
  `iter > 0` gives `pos + ChunkDur <= FileLength`, so it is the double
  counting of the look-ahead that keeps the last, short chunk from being passed with
  the length of a whole one.
- `AudioIsCutAtCursor`, `CursorStaysOnGrid`: consequences.
- `ChunksAreNotSkipped`: `Spec => NoChunkSkipped`, an action property, from
  `CursorInv` and one case per action.
- `SeeksAreReal`: `Spec => []OnlySeeksAreSeeks` *where mpv plays no faster than the clock
  goes* (`"fast" \notin Env`), by the invariant `Drift`: since the last reading playback
  has advanced by no more than the time passed, unless somebody sought. At a higher speed it
  is false of the code (section 5).

`PluginSessionTypes`, under the same assumptions:

- `TypesHold`: `Spec => []TypeOK`. It needs `CursorInv` (an entry is written at
  the cursor, which must be a start), and `TornFacts`, that what a broken write leaves is a list
  or cannot be read.
- `QueueIsUsedAsPromised`: `Spec => UsesQueueAsPromised`, the refinement of
  TranslationService: one case per action that touches the queue.

`PluginSessionLists`, under the same assumptions:

- `ProcessedChunksAreHeard`: `Spec => []ProcessedIsHeard`, whichever writes fail, are cut
  off or never end. What such a write has cut off an intact manifest may still tell of; the
  ghost `lost` counts it entry by entry, and the theorem says that nothing else is ever
  missing. `HeardInv` adds that the manifest on disk tells only of chunks in the list or
  lost (`ManifestIsTold`), for the list is written before the manifest and a failure in between
  leaves an old manifest beside a newer list; and that what a session's next
  save leaves out of the file is lost already (`FileIsInMemory`), which is where an
  unreadable list, replaced by a fresh one, is accounted for.
- `ProcessedChunksAreSaved`: `Spec => []ProcessedIsSaved` where no save fails
  (`saveError` not in `Env`), between any two steps, for processes that may die in a write.
  A chunk is marked before its list is saved, in one step of
  the thread; `ListIsSaved` says that only a session has entries and that the list on
  disk has each of them, and `ProcessedChunksAreHeard` adds that what counts as processed
  has entries or was lost. The assumption is needed: a chunk whose save has failed is not saved again by
  itself, because it is already marked; only a later save writes it.
- `SessionWorksByChunks`: `Spec => WorksByChunks`, the refinement of ChunkRoutine. It rests
  on `AudioAtCursor`, which is the statement that the chunk at hand is the one at the cursor,
  and on `NothingIsLeft`, by which only a session has processed chunks, so that a start, which may
  load some, is `Open` and nothing else. `HandlersWork` shows that an event is between
  two chunks for the routine, `TicksWork` has a case per step of a tick.
- `PlainStaysQueued`: `Spec => []PlainIsQueued` where no distance in the file reads as
  a seek (`MinJump > FileLength`) and nothing is killed, given up or fails to be
  saved. `NoListYet` adds that before the session there is no list on disk, because
  entries that a restart loads untranslated are not submitted (section 5), and
  `BatchAtResults` that fetched results wait only while they are saved.
- `Kinds` sorts the actions once by what they do to the lists and the files; the three
  step lemmas have one case per kind.

`AudioSegmentProofs`, lemmas about a single extraction under `AudioAssumption` (a file
has a length, a packet at least one frame, the decoder any delay):

- `SegmentInv` is the inductive invariant behind `SegmentIsWhole`, which speaks of a
  finished segment only. `Progress` says of every moment that of the `Given` frames the
  decoder has given back since the demuxer's beginning, the first `toSkip` have been
  skipped and the next ones written until the file is full; `Content` which frames those
  are; `Ends` why the loop was left. One lemma per action; `SegmentReceive`, the block
  that begins before and ends after an end of the segment, is the heart of it.
- `LandingFacts`: a seek ends at an entry point, not after the position. It rests on
  the greatest element of a bounded set of numbers (`GreatestUpTo`).

`RecognitionProofs`, in addition under `TransferAssumption` (a packet has samples, the codec any delay),
`WhisperAssumption` (frames are numbers, no device is called `NoDevice`) and
`RecognitionAssumption` (chunks have a length, there is at least one attempt, the
silence added to a packet is no speech):

- `JoinedFacts`, `PaddedFacts`, `SameIsHeard`: the arithmetic of packets. Whole packets put
  one after the other are what they were made from; the padding makes packets whole and
  adds silence after the end only; so the recogniser hears the same, `Lag` samples later,
  as far as the decoder gives it back.
- `ChunkCorrect`: `Spec => []ChunkInv`, that is `SegmentInv`, the types of the
  session, and `Agreement`: the segment, the request and the text under way are
  those of the chunk at the cursor. `Agreement` is why the two `check_seek`s of
  `transcribe_and_update` must leave the chunk.
- `ChunksAreHandledOneByOne`: `Spec => WorksByChunks`, the refinement of ChunkRoutine,
  from `Agreement`: every path through extraction, retries, devices and failures is
  nothing to the routine, or one `Leave`, `Finish` or `Close`. With `SessionWorksByChunks`
  it says that what PluginSession takes for a chunk's way is what Recognition spells out.
- `SegmentsAreWhole`, `ServerHearsTheSame`: consequences, the second with `SameIsHeard`. What the
  delay pushes past the chunk's own length is lost even if the decoder gives it back, because
  the recogniser is told that length (`local_whisper.rs` 245-247): the theorem bounds the
  loss by `Lag` samples.
- `AdmittedAnswersOpen`: `Spec => []AnswersOpen`, that a server works only for plugins
  with its secret, and that they can open what it answers, whichever of the two
  sides has a key. So the condition that a response opens (`Received`) excludes nothing.
- `SubtitlesAreInTime` and `ProcessedChunksAreComplete`: `EntryInv` has to carry both,
  since `add_from_srt` replaces an entry at the same time: only because entries are in
  time is the one that comes identical to the one that goes, so that a chunk that
  was complete stays complete when its neighbour, or it itself, is added again.
- `NoticesAreTrue`: by `NoticeInv`; a context has its notice either pending or on the
  screen, and a chunk is never heard without a context.
- `OnlyTheCpuIsFatal`, `TheCpuIsKept`: inductive as they stand.
- `TypeCorrect`: `Spec => []TypeOK`, from all of these invariants.

`TranslationQueueProofs`, under `SizesAssumption`, `TasksAssumption` and
`ClosingsAssumption` (the sizes are positive, the tasks a finite set without the marker
that ends the channel, the closings those the code has):

- `QueueTypesHold`, `CancelsAreFinal`, `ForceShutdownIsQuiet`: the types, and
  `CancelledStaysCancelled` and `ForcedIsQuiet` as action properties.
- `BatchesAreOfOneGeneration`: `Spec => []BatchOfOneGeneration`: cancels and submissions
  between the load of the generation and the end of the collecting loop let nothing of
  another generation into the batch.
- `PromiseIsKept`: `Spec => KeepsPromise`, the refinement of TranslationService.
  `QueueInv` is what it needs: `OnePlace` says that a live task is in the channel, with
  the batch or in the worker's hand, and in one of them only; else a step that
  answers or gives up a task could leave it live elsewhere. `Generations`, that
  no number is newer than the counter, is why an increment cancels everything there is,
  and `Handling` ties the hand and the batch to the worker's program counter.
  Each action of the worker is shown to be, for the plugin, nothing, one
  task given up or one answer (`Settles`).

`PromiseIsKept` and `QueueIsUsedAsPromised` are the two halves of one argument: what the
plugin relies on when it calls the queue is what the two threads of the queue do.

`RemoteSttProofs`, under `SizesAssumption` and `NilAssumption` (the marker for
"nothing" is neither a request nor a result):

- `ResultsAreDeliveredOnce`: `Spec => []DeliveredOnce`. Its inductive invariant
  `PlaceInv` follows a job on its way: it waits, or is with a worker, or
  its result is in the stream, or a handler has the result (`Apart`), and it is
  there once (`Once`). The lock of the stream plays no part in this.
- `TypesHold`: `Spec => []TypeOK`, of the server and the clients.
- `TheLockIsHeld`: `Spec => []LockHasLiveHolder`, by `LockInv`: the queue for the lock
  has exactly the handlers that wait for it or hold it, and each of them once. A
  handler asks at the end (`AskStep`), leaves as the head (`LeaveStep`) or, when its
  connection is closed, from wherever it stands (`ReleaseStep`, `TakeOut`); each keeps
  the queue free of repetitions, for which the places before and after the one that leaves
  are compared. What the lock does not give is in section 5: its holder may wait for ever.
- `WantedResultsAreKept`: `Spec => []NothingWantedIsLost` for one client (`OneClient`)
  whose timeout does not pass, and whose connection does not break, while its handler
  waits (`"slow" \notin Faults`), any number of chunks,
  attempts and workers. `PatientInv` says that a handler in flight is the one
  its client waits for, with its result still on the way, and that of the other attempts
  at the chunk the client is at each result is on the way or was handed out; so whatever
  is read and dropped was made for a chunk that is done with. Both assumptions are needed: `RemoteStt_Two` shows what
  a second client does, and a client that gives up first leaves its handler behind to
  read what the next one waits for.
- `ChunksComeInOrder`: `Spec => []ChunksInOrder`, by `Answered`: what a handler answers
  with carries the request id of its client and chunk, whichever attempt it was
  computed for.

`SubtitleCacheProofs`, under `MediumAssumption` (a length, chunk sizes above 0, words
inside the medium) and `FilesAssumption` (neither "absent" nor "unreadable" is a list):

- `CacheCorrect`: `Spec => []CacheInv`. Its heart is one predicate, `Sound(L, H, m, used)`,
  that list `L` and manifest `m` say the truth about the units `H` that were heard; it
  holds of what is in memory (`InMemory`) and of what is on disk (`OnDisk`), the second
  with the units heard at the last save. That both are the same predicate carries a
  process's death and the next one's start: `Start` reads what `OnDisk` speaks of, and
  `WriteList` puts on disk what `InMemory` speaks of. `Points` says that between the two
  writes the list on disk is the one in memory, so that the manifest fits both.
- `SoundGrows`: adding entries, translations and heard units keeps `Sound`. Adding is all
  the plugin does because of `Grown`: an entry's chunk counts as processed, so a
  chunk that is recognised has no entries yet (`SpeechFacts`).
- `WhatIsHeardIsListed`, `SilenceIsHeard`, `InferenceIsExact`, `TranslationsStayFitting`,
  `CacheTypesHold` are consequences; the third with `ChunkFacts`, that every position lies
  in one chunk of a grid, and with the exception of chunks in which an entry by somebody
  else begins (`Foreign`). `EntriesAreNotReplaced` and `FilesAreNotShortened` are action
  properties, by `MemoryKeeps` and `Grown`.
- `WordFacts`, `WordBegins`: where a word begins and ends in a chunk; both rest on the
  least element of a set of numbers.

Every safety property that a passing run checks is proved. Four of the theorems state
properties that no run lists: `AdmittedAnswersOpen` and `TheCpuIsKept`; `AudioIsCutAtCursor`,
whose first part the refinement of ChunkRoutine implies; `EntriesAreNotReplaced`, which
holds of the list in memory as `ListOnlyGrows` does of the file.
Model-checked only is liveness under fairness (`LocalSessionFinishes`,
`EverythingIsRecognised`, `TasksAreSettled`, `WorkerEnds`, `EveryRequestEnds`), which is
outside what the prover does.

## 5. Findings

Each is the property of a run that TLC refutes; `PROJECT.json` quotes the lines.

1. `PluginSession_NextFile`: `cleanup` sets `shutting_down` and nothing resets it;
   after the first file, or one toggle off, no session ever starts again
   (`plugin.rs` 1028, against the comments at 1318 and 1412). The property looks at the
   moment a file has been loaded and its event is handled: a session should run then.
2. `RemoteStt_Two`: with two clients one handler reads and drops the result that the
   other waits for (`server.rs` 335-338). The other then sits under the lock, past its
   deadline, which is not looked at there (319-325), until its client's own timeout closes the
   connection; the recognised chunk is lost, and is asked for again.
3. `Recognition_Early`: after a seek that works nothing is skipped, although the
   seek lands on an entry point before the start; the chunk gets earlier audio, and
   its subtitles come late (`audio.rs` 189; the fall-back without a seek does skip).

Met on the way, without a run of their own:

- the first `check_seek` of a session has no allowance for time and can report a
  seek nobody made (`plugin.rs` 696; the exception in `OnlySeeksAreSeeks`);
- where mpv plays faster than the clock goes, the position gains on the clock's allowance,
  and once a routine has taken so long that the gain is above the threshold, a seek
  is reported that nobody made (`plugin.rs` 696-704, against the comment at 688): the chunk
  under way is dropped and translations are cancelled (`OnlySeeksAreSeeks` and `SeeksAreReal`
  assume that it does not);
- the tick that finds a local file finished cleans up and throws away translations
  in flight or just arrived (`plugin.rs` 661-669);
- `subs_loaded` is set although `sub-add` failed, e.g. when the first chunk is
  silent and no file exists; the subtitles are then saved and never shown
  (`plugin.rs` 546-552);
- a task of a *newer* generation than the one loaded before the collecting loop is
  dropped (`translate.rs` 256-267);
- `AsyncTranslationQueue::shutdown`, which has no caller today, waits for ever when
  its marker is swallowed by the collecting loop (`translate.rs` 263, 424; the model
  reaches that state);
- cancelled translations are requeued only for the chunk a seek lands on, and
  entries a restart loads untranslated not at all;
- a chunk of which another process, with another chunk size, heard a part counts as
  processed, and its rest is not recognised (`plugin.rs` 1140-1145; the exception
  in `OneSizeIsExact`);
- a list by somebody else beside a local medium: each chunk in which one of its entries begins
  counts as processed and is never recognised (`plugin.rs` 385-390, 1140-1145; the other
  exception in `OneSizeIsExact`);
- a list left half-written beside an intact manifest, by a write that fails or a process that
  dies: the manifest's chunks count as processed, and what the list has lost is not recognised
  again (`lost` in PluginSession and SubtitleCache);
- with Opus everything is heard about 6.5 ms late, and as much is lost at the end of a
  chunk: always of one that fills its packets, and of one of full length even if it does not,
  since the recogniser stops at the chunk's length (`remote_http.rs` 317-323, `server.rs`
  379-421; `Lag` in Transfer);
- `max_retry = 0` panics (`remote_http.rs` 158); `LocalModelConfig.timeout_ms` is
  never read; audio shorter than a millisecond stops the plugin (`local_whisper.rs` 317).

## 6. What is not modelled

- Configuration and FFI (values of constants, bindings), server start-up, build
  scripts; the metrics of the server and its workers, which nothing acts on; the
  limit of a request's body, malformed headers, warm-up.
- Assumed, where a theorem or a run says so: mpv plays no faster than the clock goes
  (`OnlySeeksAreSeeks`), no save fails (`ProcessedIsSaved`), the client's timeout does not pass
  while its handler waits and there is one client (`NothingWantedIsLost`, `EveryRequestEnds`).
- External, and modelled by what the code relies on: FFmpeg, whisper.cpp with its
  detection of the language, the Opus codec (its delay is a constant, and what it loses in
  quality is left out), srtlib, ciphers and hashes (symbolic),
  the translator, mpv.
- The few samples that the resampler keeps back at the end of a segment; texts, and
  with them what a blank line in a translation does to a list; the numbers of
  the entries; `show-text` messages other than the device notice; the
  subtitle track that mpv shows (`sub-add`, `sub-reload`), whose failures the code ignores.
- Within PluginSession: several entries per chunk and chunk sizes that change (these are
  in SubtitleCache), playlists that mix network and local media. Within Recognition:
  attempts that overlap at the server (these are in RemoteStt).
- `cancel_inflight` of the recogniser and of the extractor is called only by the
  thread that would have to be cancelled, when nothing of it is under way: the
  `Cancelled` paths and the abort callback cannot be reached and have no action.
- For network streams mpv may have gone on to the next file when the plugin dumps
  its cache; the model has the behaviour, and `AudioAtCursor` therefore states the
  file for local sessions only. The tail of a stream shorter than a chunk
  is never recognised by the code, and `EverythingIsRecognised` is stated for local
  files.
- `fast_whisper.rs` is not in the module tree of the plugin, and `process.rs` has no
  other caller; `validate_audio`, `remove_before`, `remove_after`, the server's
  `cancel_request` and the `Message` of `mpv-stt-protocol` have none either.

## 7. Plan

Done: all modules of the plan (`PluginSession`, `TranslationService`,
`TranslationQueue`, `ChunkRoutine`, `SttServer`, `RemoteStt`, `SubtitleCache`, `AudioSegment`,
`LocalWhisper`, `Transfer`, `Recognition`), and proofs about all
of them, with every safety property of the runs proved. What is left is what the prover
does not reach, liveness; and a refinement that would say of `RemoteStt` what
`TranslationService` says of the translation queue: a chunk that is asked for is answered with
its own subtitles or fails.
