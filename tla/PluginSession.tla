--------------------------- MODULE PluginSession ---------------------------
(***************************************************************************)
(* The plugin thread of crates/mpv-stt-plugin/src/plugin.rs: mpv's event   *)
(* loop, `tick`, `check_seek`, the transcription of one chunk, the merging *)
(* of translations, and `cleanup`.  One thread runs all of it, but mpv's   *)
(* playback, the user and the translation worker move between any two      *)
(* steps of a routine: a routine that blocks (audio extraction, speech     *)
(* recognition) or that reads a property of mpv is cut into several steps  *)
(* by the program counter `pc`.                                            *)
(*                                                                         *)
(* A definition named X_Something is a deliberately wrong form of the X    *)
(* that follows it; the wrong forms are not part of the specification.     *)
(*                                                                         *)
(* Time is counted in units; a chunk is Chunk units long.  A chunk's       *)
(* subtitles are one entry at the chunk's start: absent ("none"), as       *)
(* recognised ("plain") or with its translation appended ("both").         *)
(***************************************************************************)
EXTENDS Integers, Sequences

CONSTANTS
  Chunk,       \* chunk.local_ms or chunk.network_ms
  MinJump,     \* the 5000 ms floor of the seek threshold
  Lookahead,   \* prefetch.lookahead_chunks
  FileLength,  \* the length of every media file
  Files,       \* how many files the player plays, one after the other
  Speech,      \* the chunks in which something is said
  Network,     \* detect_network_stream: mode Network or mode Local
  SaveSrt,     \* playback.save_srt
  TempSrt,     \* the subtitle path is the one in the temporary directory
  AutoStart,   \* playback.auto_start
  MaxEvents,   \* bound on the events mpv has queued for the plugin
  Env,         \* what the user, mpv and the system may do in this instance
  Nil,         \* no file, no list, no audio at hand
  Unreadable   \* a file that SrtFile::parse rejects

Behaviours == {"attach", "end", "seek", "pause", "fast", "toggle", "skip",
               "quit", "kill", "wavError", "sttError", "srtError", "saveError",
               "badCache", "giveUp"}

Starts == {p \in 0 .. FileLength : p % Chunk = 0}

ASSUME NilAssumption ==
  /\ {Nil, Unreadable} \cap [Starts -> {"none", "plain", "both"}] = {}
  /\ Nil # Unreadable
ASSUME SizesAssumption ==
  /\ Chunk \in Nat \ {0} /\ MinJump \in Nat \ {0} /\ Lookahead \in Nat \ {0}
  /\ FileLength \in Nat \ {0} /\ Files \in Nat \ {0} /\ MaxEvents \in Nat
ASSUME SpeechAssumption == Speech \subseteq {p \in Starts : p < FileLength}
ASSUME ConfigAssumption ==
  /\ {Network, SaveSrt, TempSrt, AutoStart} \subseteq BOOLEAN
  /\ Network /\ ~SaveSrt => TempSrt
ASSUME EnvAssumption == Env \subseteq Behaviours

VARIABLES
  running, shutting, pendingAuto, fileLoaded,   \* flags of PluginState
  mode, source, pos, chunkDur,                  \* mode, its file, the cursor
  last, elapsed,                                \* last playback position, age
  processed, subs, transCache, subsLoaded,      \* recognised so far
  pc, ret, iter, snap, cacheSnap, wav, batch,   \* locals of the thread
  inflight, late, answers,                      \* the translation queue
  disk, manifest,                               \* the files of each medium
  media, file, playback, events,                \* mpv
  sought,                                       \* ghost: a seek not yet seen
  lost                                          \* ghost: cut off from a list

flags  == <<running, shutting, pendingAuto, fileLoaded>>
cursor == <<mode, source, pos, chunkDur>>
clock  == <<last, elapsed, sought>>
memory == <<processed, subs, transCache, subsLoaded>>
locals == <<ret, iter, snap, cacheSnap, wav, batch>>
queue  == <<inflight, late, answers>>
files  == <<disk, manifest, lost>>
player == <<media, file, playback, events>>

vars == <<running, shutting, pendingAuto, fileLoaded, mode, source, pos,
          chunkDur, last, elapsed, processed, subs, transCache, subsLoaded,
          pc, ret, iter, snap, cacheSnap, wav, batch, inflight, late, answers,
          disk, manifest, media, file, playback, events, sought, lost>>

-----------------------------------------------------------------------------
NoTime   == -1
NoSubs   == [p \in Starts |-> "none"]
Subs     == [Starts -> {"none", "plain", "both"}]
Entries(s) == {p \in Starts : s[p] # "none"}

\* The entries a process finds in the file d of a medium.
Readable(d) == d \notin {Nil, Unreadable}
Listed(d)   == IF Readable(d) THEN Entries(d) ELSE {}

Align_Not(t)  == t
Align(t)      == t - (t % Chunk)
AbsDiff(a, b) == IF a > b THEN a - b ELSE b - a
Threshold     == IF MinJump > Chunk THEN MinJump ELSE Chunk

\* mpv answers `time-pos` and `duration` once the file is loaded.
PositionKnown == media = "loaded"

Translated_Dropped(s, A) == s

\* Appending the translations in A to the entries that lack one.
Translated(s, A) ==
  [p \in Starts |-> IF p \in A /\ s[p] = "plain" THEN "both" ELSE s[p]]

\* What a cancelled queue may still deliver: its one worker may have passed
\* its last look at the generation with one finished task in hand.
Survivors_All(S) == SUBSET S

Survivors(S) == {{}} \cup {{t} : t \in S}

KeepsManifest == Network /\ SaveSrt /\ ~TempSrt
ReusesFile    == SaveSrt /\ ~(Network /\ TempSrt)

FlagTypes ==
  /\ running \in BOOLEAN /\ shutting \in BOOLEAN
  /\ pendingAuto \in BOOLEAN /\ fileLoaded \in BOOLEAN
  /\ subsLoaded \in BOOLEAN /\ sought \in BOOLEAN

CursorTypes ==
  /\ mode \in {"none", "local", "network"} /\ source \in 0 .. Files
  /\ pos \in 0 .. FileLength /\ chunkDur \in 1 .. Chunk
  /\ last \in {NoTime} \cup 0 .. FileLength
  /\ elapsed \in {NoTime} \cup 0 .. FileLength
  /\ pc \in {"attach", "wait", "tick", "results", "plan", "loop", "extracted",
             "transcribed", "exited"}
  /\ ret \in {"wait", "tick", "loop"} /\ iter \in 0 .. Lookahead - 1
  /\ snap \in {NoTime} \cup 0 .. FileLength /\ cacheSnap \in 0 .. FileLength
  /\ wav \in {Nil} \cup [file : 0 .. Files, start : 0 .. FileLength]
  /\ media \in {"none", "started", "loaded"} /\ file \in 0 .. Files
  /\ playback \in 0 .. FileLength

DataTypes ==
  /\ processed \subseteq Starts /\ subs \in Subs /\ transCache \subseteq Starts
  /\ inflight \subseteq Starts /\ late \subseteq Starts
  /\ answers \subseteq Starts /\ batch \subseteq Starts
  /\ disk \in [1 .. Files -> {Nil, Unreadable} \cup Subs]
  /\ manifest \in [1 .. Files -> {Nil} \cup
       [processed : SUBSET Starts, translations : SUBSET Starts]]
  /\ lost \in [1 .. Files -> SUBSET Starts]

EventTypes ==
  events \in Seq({"toggle", "start", "loaded", "restart", "end", "shutdown",
                  "other"})

TypeOK == FlagTypes /\ CursorTypes /\ DataTypes /\ EventTypes

\* PluginState::new, before mpv_open_cplugin looks at the player.
FreshPlugin ==
  /\ running = FALSE /\ shutting = FALSE
  /\ pendingAuto = FALSE /\ fileLoaded = FALSE
  /\ mode = "none" /\ source = 0 /\ pos = 0 /\ chunkDur = Chunk
  /\ last = NoTime /\ elapsed = NoTime /\ sought = FALSE
  /\ processed = {} /\ subs = NoSubs /\ transCache = {} /\ subsLoaded = FALSE
  /\ pc = "attach" /\ ret = "wait" /\ iter = 0
  /\ snap = NoTime /\ cacheSnap = 0 /\ wav = Nil /\ batch = {}
  /\ inflight = {} /\ late = {} /\ answers = {}

Init ==
  /\ FreshPlugin
  /\ disk = [f \in 1 .. Files |-> Nil] /\ manifest = [f \in 1 .. Files |-> Nil]
  /\ lost = [f \in 1 .. Files |-> {}] /\ events = <<>>
  /\ \/ media = "none" /\ file = 0 /\ playback = 0
     \/ /\ "attach" \in Env \* a script reload: the file is already playing
        /\ media = "loaded" /\ file = 1 /\ playback \in 0 .. FileLength

-----------------------------------------------------------------------------
(* Writing the subtitle file and the manifest.  fs::write empties the file  *)
(* before it fills it: a write that fails, or in which the process dies,    *)
(* leaves what the file held, or a torn list.                               *)

\* A list that ends within the entry of chunk c, which may lack its translation
\* or be missing, or a file that ends where no list can end.
CutAt(s, c, e) ==
  [p \in Starts |-> IF p < c THEN s[p] ELSE IF p = c THEN e ELSE "none"]

Torn(s) ==
  {Unreadable} \cup {CutAt(s, c, "none") : c \in Starts}
               \cup {CutAt(s, c, "plain") : c \in Entries(s)}

\* The list s was to be written and d is what the file holds now.
WritesList(s, d) ==
  /\ disk' = [disk EXCEPT ![source] = d]
  /\ lost' = [lost EXCEPT ![source] = (@ \cup Entries(s)) \ Listed(d)]

WritesManifest(done, cache) ==
  manifest' = [manifest EXCEPT ![source] =
                 [processed |-> done, translations |-> cache]]

\* A manifest that is cut off cannot be parsed: as good as none.
TearsManifest == manifest' = [manifest EXCEPT ![source] = Nil]

SaveSubs_ManifestAnyway(s, done, cache) ==
  /\ WritesList(s, s) \/ UNCHANGED <<disk, lost>>
  /\ WritesManifest(done, cache)

SaveSubs_Before(s, done, cache) ==
  /\ WritesList(subs, subs)
  /\ IF KeepsManifest THEN WritesManifest(done, cache) ELSE UNCHANGED manifest

\* save_subs when the list is written; the manifest's own write may still fail.
SaveSubs(s, done, cache) ==
  /\ WritesList(s, s)
  /\ \/ KeepsManifest /\ WritesManifest(done, cache)
     \/ KeepsManifest /\ "saveError" \in Env /\ TearsManifest
     \/ (~KeepsManifest \/ "saveError" \in Env) /\ UNCHANGED manifest

\* save_subs when the write of the list fails: the manifest is left alone.
SaveFails(s) ==
  /\ UNCHANGED manifest
  /\ \/ UNCHANGED <<disk, lost>>
     \/ \E d \in Torn(s) : WritesList(s, d)

\* The process dies in save_subs, in the write of the list or of the manifest.
DiesSaving(s) ==
  \/ UNCHANGED manifest /\ \E d \in Torn(s) \cup {s} : WritesList(s, d)
  \/ KeepsManifest /\ WritesList(s, s) /\ TearsManifest

-----------------------------------------------------------------------------
(* check_seek, called at the start of a tick, at the top of the look-ahead *)
(* loop, and before and after speech recognition.                          *)

AtCheck ==
  \/ pc \in {"loop", "extracted", "transcribed"}
  \/ pc = "tick" /\ running /\ ~shutting /\ mode # "none"

IsSeek_IgnoringTime ==
  /\ PositionKnown /\ last # NoTime
  /\ AbsDiff(playback, last) >= Threshold /\ Align(playback) # pos

IsSeek ==
  /\ PositionKnown /\ last # NoTime
  /\ AbsDiff(playback, last) >= Threshold
  /\ elapsed # NoTime => AbsDiff(playback, last) > elapsed + Threshold
  /\ Align(playback) # pos

\* check_seek returned false.
NoSeek ==
  /\ ~IsSeek
  /\ IF PositionKnown
       THEN last' = playback /\ elapsed' = 0 /\ sought' = FALSE
       ELSE UNCHANGED clock

\* A routine returns and its locals are gone.
Return(next) ==
  /\ pc' = next /\ ret' = "wait" /\ iter' = 0
  /\ snap' = NoTime /\ cacheSnap' = 0 /\ wav' = Nil /\ batch' = {}

LeaveChunk_Continues == UNCHANGED <<pc, locals>>

\* Where a chunk's routine returns to when it fails: out of the loop, or back
\* to the handler that called start_transcription.
LeaveChunk == Return(IF ret = "tick" THEN "tick" ELSE "wait")

\* check_seek returned true: the cursor moves, the translations in flight are
\* cancelled and those missing in a finished chunk are queued again.
SeekSeen ==
  LET new    == Align(playback)
      kept   == new \in processed /\ subs[new] # "none"
      cached == kept /\ new \in transCache
  IN
  /\ AtCheck /\ IsSeek
  /\ pos' = new /\ last' = playback /\ elapsed' = 0 /\ sought' = FALSE
  /\ subs' = IF cached THEN [subs EXCEPT ![new] = "both"] ELSE subs
  /\ inflight' = IF kept /\ ~cached /\ subs[new] = "plain" THEN {new} ELSE {}
  /\ late' \in Survivors(inflight \cup late)
  /\ LeaveChunk
  /\ UNCHANGED <<flags, mode, source, chunkDur, processed, transCache,
                 subsLoaded, answers, files, player>>

-----------------------------------------------------------------------------
(* cleanup                                                                 *)

TempFilesGone ==
  /\ disk' = IF TempSrt THEN [f \in 1 .. Files |-> Nil] ELSE disk
  /\ UNCHANGED <<manifest, lost>>

Cleanup_KeepsChunks ==
  /\ shutting' = TRUE
  /\ inflight' = {} /\ late' = {} /\ answers' = {}
  /\ TempFilesGone
  /\ subs' = NoSubs /\ transCache' = {} /\ subsLoaded' = FALSE
  /\ pos' = 0 /\ last' = NoTime /\ elapsed' = NoTime /\ sought' = FALSE
  /\ mode' = "none"
  /\ UNCHANGED <<source, processed>>

\* The queue is forced to stop and nobody reads its results again.
Cleanup ==
  /\ shutting' = TRUE
  /\ inflight' = {} /\ late' = {} /\ answers' = {}
  /\ TempFilesGone
  /\ processed' = {} /\ subs' = NoSubs /\ transCache' = {}
  /\ subsLoaded' = FALSE
  /\ pos' = 0 /\ last' = NoTime /\ elapsed' = NoTime /\ sought' = FALSE
  /\ mode' = "none"
  /\ UNCHANGED source

-----------------------------------------------------------------------------
(* start_transcription, called by the handler that continues at `next`.    *)

\* process_chunk_local or process_chunk up to the audio file.  The network
\* mode dumps mpv's cache, which is that of the file mpv plays now.
ExtractedFrom == IF Network THEN file ELSE source

ExtractionFails ==
  \/ "wavError" \in Env
  \/ Network /\ ~PositionKnown

\* load_cached_subs found and parsed the file of the medium.
Loaded(f) ==
  LET list == IF KeepsManifest /\ manifest[f] # Nil
                THEN manifest[f] ELSE [processed |-> {}, translations |-> {}]
  IN
  /\ ReusesFile /\ Readable(disk[f])
  /\ subs' = disk[f]
  /\ processed' = Entries(disk[f]) \cup list.processed
  /\ transCache' = list.translations
  /\ subsLoaded' = TRUE
  /\ UNCHANGED lost

\* There is no list, or it cannot be read: the next save replaces it.
NotLoaded(f) ==
  /\ ReusesFile /\ Readable(disk[f]) => "badCache" \in Env
  /\ lost' = [lost EXCEPT ![f] = @ \cup Listed(disk[f])]
  /\ UNCHANGED memory

StartTranscription(next) ==
  LET now == IF PositionKnown THEN playback ELSE 0
  IN
  /\ last' = now /\ sought' = FALSE
  /\ \/ /\ IF Network THEN media # "none" ELSE PositionKnown
        /\ mode' = IF Network THEN "network" ELSE "local"
        /\ source' = file /\ pos' = Align(now)
        /\ Loaded(file) \/ NotLoaded(file)
        /\ \/ /\ ~Network /\ pos' \notin processed' /\ pos' < FileLength
              /\ pc' = "extracted" /\ ret' = next
              /\ wav' = [file |-> file, start |-> pos']
              /\ UNCHANGED <<iter, snap, cacheSnap, batch>>
           \/ /\ \/ Network
                 \/ pos' \in processed'
                 \/ pos' = FileLength \/ ExtractionFails
              /\ Return(next)
     \/ /\ IF Network THEN media = "none" ELSE ~PositionKnown
        /\ pos' = now /\ Return(next)
        /\ UNCHANGED <<mode, source, memory, lost>>
  /\ UNCHANGED <<shutting, chunkDur, elapsed, queue, disk, manifest, media,
                 file, playback>>

-----------------------------------------------------------------------------
(* mpv_open_cplugin: the attachment and one handler per event.             *)

Attach ==
  /\ pc = "attach"
  /\ \/ /\ AutoStart /\ PositionKnown
        /\ fileLoaded' = TRUE /\ pendingAuto' = FALSE /\ running' = TRUE
        /\ StartTranscription("wait")
     \/ /\ ~(AutoStart /\ PositionKnown)
        /\ pendingAuto' = AutoStart /\ pc' = "wait"
        /\ UNCHANGED <<running, shutting, fileLoaded, cursor, clock, memory,
                       locals, queue, files, media, file, playback>>
  /\ UNCHANGED events

Take(kind) ==
  /\ pc = "wait" /\ events # <<>> /\ Head(events) = kind
  /\ events' = Tail(events)

\* A handler that changes only the flags, and those itself.
FlagsOnly(next) ==
  /\ pc' = next
  /\ UNCHANGED <<shutting, cursor, clock, memory, locals, queue, files, media,
                 file, playback>>

\* A handler that stops the session and goes back to the event loop.
Stop(next) ==
  /\ running' = FALSE /\ Cleanup /\ Return(next)
  /\ UNCHANGED <<pendingAuto, media, file, playback>>

HandleToggle ==
  /\ Take("toggle")
  /\ \/ /\ shutting /\ FlagsOnly("wait")
        /\ UNCHANGED <<running, pendingAuto, fileLoaded>>
     \/ /\ ~shutting /\ running /\ Stop("wait")
        /\ UNCHANGED <<fileLoaded, chunkDur>>
     \/ /\ ~shutting /\ ~running
        /\ running' = TRUE /\ StartTranscription("wait")
        /\ UNCHANGED <<pendingAuto, fileLoaded>>

HandleStartFile ==
  /\ Take("start") /\ FlagsOnly("wait") /\ UNCHANGED running
  /\ IF shutting THEN UNCHANGED <<pendingAuto, fileLoaded>>
                 ELSE fileLoaded' = FALSE /\ pendingAuto' = AutoStart

HandleFileLoaded ==
  /\ Take("loaded")
  /\ fileLoaded' = (fileLoaded \/ ~shutting)
  /\ \/ /\ ~shutting /\ pendingAuto /\ ~running
        /\ pendingAuto' = FALSE /\ running' = TRUE
        /\ StartTranscription("wait")
     \/ /\ shutting \/ ~pendingAuto \/ running
        /\ FlagsOnly("wait") /\ UNCHANGED <<running, pendingAuto>>

HandlePlaybackRestart ==
  /\ Take("restart") /\ UNCHANGED fileLoaded
  /\ \/ /\ ~shutting /\ pendingAuto /\ ~running /\ fileLoaded
        /\ pendingAuto' = FALSE /\ running' = TRUE
        /\ StartTranscription("tick")
     \/ /\ shutting \/ ~(pendingAuto /\ ~running /\ fileLoaded)
        /\ FlagsOnly(IF shutting THEN "wait" ELSE "tick")
        /\ UNCHANGED <<running, pendingAuto>>

HandleEndFile ==
  /\ Take("end") /\ fileLoaded' = FALSE
  /\ \/ running /\ ~shutting /\ Stop("wait") /\ UNCHANGED chunkDur
     \/ /\ ~running \/ shutting
        /\ FlagsOnly("wait") /\ UNCHANGED <<running, pendingAuto>>

HandleShutdown ==
  /\ Take("shutdown") /\ Stop("exited")
  /\ UNCHANGED <<fileLoaded, chunkDur>>

HandleOther ==
  /\ Take("other")
  /\ FlagsOnly(IF shutting THEN "wait" ELSE "tick")
  /\ UNCHANGED <<running, pendingAuto, fileLoaded>>

\* wait_event(0.1) ran out; a tick that would return at once is left out.
HandleTimeout ==
  /\ pc = "wait" /\ events = <<>>
  /\ running /\ ~shutting /\ mode # "none"
  /\ FlagsOnly("tick") /\ UNCHANGED <<running, pendingAuto, fileLoaded, events>>

HandleEvent ==
  \/ HandleToggle \/ HandleStartFile \/ HandleFileLoaded
  \/ HandlePlaybackRestart \/ HandleEndFile \/ HandleShutdown \/ HandleOther
  \/ HandleTimeout

-----------------------------------------------------------------------------
(* tick                                                                    *)

TickIdle ==
  /\ pc = "tick" /\ (~running \/ shutting \/ mode = "none")
  /\ pc' = "wait"
  /\ UNCHANGED <<flags, cursor, clock, memory, locals, queue, files, player>>

\* process_translation_results takes what the queue has answered ...
TakeResults ==
  /\ pc = "tick" /\ AtCheck /\ NoSeek
  /\ batch' = answers /\ answers' = {}
  /\ pc' = IF answers = {} THEN "plan" ELSE "results"
  /\ UNCHANGED <<flags, cursor, memory, ret, iter, snap, cacheSnap, wav,
                 inflight, late, files, player>>

\* ... and saves the list after each result, whether or not a save fails.
SaveResult ==
  /\ pc = "results"
  /\ \E t \in batch :
       /\ batch' = batch \ {t}
       /\ transCache' = transCache \cup {t}
       /\ subs' = Translated(subs, {t})
  /\ \/ SaveSubs(subs', processed, transCache')
     \/ "saveError" \in Env /\ SaveFails(subs')
  /\ pc' = IF batch' = {} THEN "plan" ELSE "results"
  /\ UNCHANGED <<flags, cursor, clock, processed, subsLoaded, ret, iter, snap,
                 cacheSnap, wav, queue, player>>

TimeLeft == IF FileLength > pos THEN FileLength - pos ELSE 0

\* tick_local from `time_left` on: the loop begins, or the file is finished.
PlanLocal ==
  /\ pc = "plan" /\ mode = "local"
  /\ \/ /\ TimeLeft > 0
        /\ chunkDur' = IF TimeLeft < Chunk THEN TimeLeft ELSE Chunk
        /\ snap' = last /\ iter' = 0 /\ ret' = "loop" /\ pc' = "loop"
        /\ UNCHANGED <<flags, mode, source, pos, clock, memory, cacheSnap, wav,
                       batch, queue, files, player>>
     \/ /\ TimeLeft = 0 /\ chunkDur' = Chunk
        /\ Stop("wait") /\ UNCHANGED <<fileLoaded, events>>

\* tick_network from `cache_end_sec` on: mpv says how far its cache reaches,
\* or nothing.
PlanNetwork ==
  /\ pc = "plan" /\ mode = "network"
  /\ \/ pc' = "wait" /\ UNCHANGED locals
     \/ \E end \in playback .. FileLength :
          /\ PositionKnown /\ end - pos >= Chunk
          /\ cacheSnap' = end /\ snap' = last /\ iter' = 0
          /\ ret' = "loop" /\ pc' = "loop"
          /\ UNCHANGED <<wav, batch>>
  /\ UNCHANGED <<flags, cursor, clock, memory, queue, files, player>>

ChunkDur == IF mode = "network" THEN Chunk ELSE chunkDur

WindowStart_Fixed == pos

\* The start of the look-ahead window is the cursor plus i chunks, although
\* the cursor itself has moved i chunks already.
WindowStart == pos + iter * ChunkDur
WindowClosed_WholeChunks ==
  \/ WindowStart + ChunkDur - snap > Lookahead * Chunk
  \/ WindowStart + Chunk > FileLength

WindowClosed ==
  \/ WindowStart + ChunkDur - snap > Lookahead * Chunk
  \/ IF mode = "network" THEN WindowStart + ChunkDur > cacheSnap
                         ELSE WindowStart >= FileLength

\* The next iteration of the loop, unless it stops before.
NextIteration(stops) ==
  IF iter + 1 = Lookahead \/ stops
    THEN Return("wait")
    ELSE /\ pc' = "loop" /\ iter' = iter + 1 /\ wav' = Nil
         /\ UNCHANGED <<ret, snap, cacheSnap, batch>>

LoopStops ==
  /\ pc = "loop" /\ NoSeek /\ WindowClosed
  /\ Return("wait")
  /\ UNCHANGED <<flags, cursor, memory, queue, files, player>>

LoopSkips_Always ==
  /\ pc = "loop" /\ NoSeek /\ ~WindowClosed
  /\ pos' = pos + ChunkDur
  /\ NextIteration(FALSE)
  /\ UNCHANGED <<flags, mode, source, chunkDur, memory, queue, files, player>>

LoopSkips ==
  /\ pc = "loop" /\ NoSeek /\ ~WindowClosed /\ pos \in processed
  /\ pos' = pos + ChunkDur
  /\ NextIteration(FALSE)
  /\ UNCHANGED <<flags, mode, source, chunkDur, memory, queue, files, player>>

LoopExtracts ==
  /\ pc = "loop" /\ NoSeek /\ ~WindowClosed /\ pos \notin processed
  /\ \/ /\ Network => PositionKnown
        /\ wav' = [file |-> ExtractedFrom, start |-> pos] /\ pc' = "extracted"
        /\ UNCHANGED <<ret, iter, snap, cacheSnap, batch>>
     \/ ExtractionFails /\ Return("wait")
  /\ UNCHANGED <<flags, cursor, memory, queue, files, player>>

-----------------------------------------------------------------------------
(* transcribe_and_update                                                   *)

\* From the first check_seek to the end of the speech recognition.
Recognised ==
  /\ pc = "extracted" /\ NoSeek
  /\ pc' = "transcribed"
  /\ UNCHANGED <<flags, cursor, memory, locals, queue, files, player>>

\* A backend that fails stops the session for good.
RecognitionFails ==
  /\ "sttError" \in Env
  /\ pc = "extracted" /\ ~IsSeek
  /\ running' = FALSE /\ Cleanup /\ LeaveChunk
  /\ UNCHANGED <<pendingAuto, fileLoaded, chunkDur, player>>

\* The routine returned true: the loop moves the cursor, start_transcription
\* leaves it.  A subtitle file not yet shown is added, except by tick_local.
ChunkDone ==
  /\ \/ /\ ret = "loop" /\ pos' = pos + ChunkDur
        /\ NextIteration(mode = "local" /\ pos' >= FileLength)
     \/ /\ ret # "loop" /\ Return(ret) /\ UNCHANGED pos
  /\ subsLoaded' = (subsLoaded \/ ret # "loop" \/ mode = "network")

\* The recogniser wrote an empty file: marked, and neither saved nor queued.
MergeSilent ==
  /\ pc = "transcribed" /\ NoSeek /\ wav.start \notin Speech
  /\ processed' = processed \cup {pos}
  /\ ChunkDone
  /\ UNCHANGED <<flags, mode, source, chunkDur, subs, transCache, queue, files,
                 player>>

\* The list of this chunk cannot be shifted or parsed.
MergeFails ==
  /\ "srtError" \in Env
  /\ pc = "transcribed" /\ NoSeek /\ wav.start \in Speech
  /\ LeaveChunk
  /\ UNCHANGED <<flags, cursor, memory, queue, files, player>>

MergeSpeech ==
  /\ pc = "transcribed" /\ NoSeek /\ wav.start \in Speech
  /\ subs' = [subs EXCEPT ![pos] = "plain"]
  /\ processed' = processed \cup {pos}
  /\ \/ /\ SaveSubs(subs', processed', transCache)
        /\ inflight' = inflight \cup {pos}
        /\ ChunkDone
     \/ /\ "saveError" \in Env \* marked already, but no task is submitted
        /\ SaveFails(subs') /\ LeaveChunk
        /\ UNCHANGED <<pos, subsLoaded, inflight>>
  /\ UNCHANGED <<flags, mode, source, chunkDur, transCache, late, answers,
                 player>>

Plugin ==
  \/ Attach \/ HandleEvent \/ SeekSeen
  \/ TickIdle \/ TakeResults \/ SaveResult \/ PlanLocal \/ PlanNetwork
  \/ LoopStops \/ LoopSkips \/ LoopExtracts
  \/ Recognised \/ RecognitionFails
  \/ MergeSilent \/ MergeFails \/ MergeSpeech

-----------------------------------------------------------------------------
(* The translation queue, as translate.rs promises it (TranslationService). *)

Answer(t) ==
  /\ answers' = answers \cup {t}
  /\ \/ t \in inflight /\ inflight' = inflight \ {t} /\ UNCHANGED late
     \/ t \in late /\ late' = late \ {t} /\ UNCHANGED inflight
  /\ UNCHANGED <<flags, cursor, clock, memory, pc, locals, files, player>>

GiveUp(t) ==
  /\ "giveUp" \in Env /\ t \in inflight
  /\ inflight' = inflight \ {t}
  /\ UNCHANGED <<flags, cursor, clock, memory, pc, locals, late, answers,
                 files, player>>

Translator == \E t \in Starts : Answer(t) \/ GiveUp(t)

-----------------------------------------------------------------------------
(* mpv and its user                                                        *)

Room(n) == Len(events) + n <= MaxEvents

Older == IF elapsed \in {NoTime, FileLength} THEN elapsed ELSE elapsed + 1

UnchangedPlugin ==
  UNCHANGED <<flags, cursor, memory, last, pc, locals, queue, files>>

Quitting == pc = "exited" \/ \E i \in DOMAIN events : events[i] = "shutdown"

PlayFile ==
  /\ media = "none" /\ file < Files /\ Room(1) /\ ~Quitting
  /\ media' = "started" /\ file' = file + 1 /\ playback' = 0
  /\ events' = Append(events, "start")
  /\ UnchangedPlugin /\ UNCHANGED <<elapsed, sought>>

LoadFile ==
  /\ media = "started" /\ Room(2)
  /\ media' = "loaded" /\ events' = events \o <<"loaded", "restart">>
  /\ sought' = TRUE
  /\ UnchangedPlugin /\ UNCHANGED <<file, playback, elapsed>>

\* A unit of time passes, and as much of the file, or twice as much where mpv
\* plays faster than the clock.
Play ==
  /\ media = "loaded" /\ playback < FileLength
  /\ playback' \in playback + 1 .. playback + (IF "fast" \in Env THEN 2 ELSE 1)
  /\ playback' <= FileLength /\ elapsed' = Older
  /\ UnchangedPlugin /\ UNCHANGED <<media, file, events, sought>>

Pause ==
  /\ "pause" \in Env /\ elapsed' = Older
  /\ UnchangedPlugin /\ UNCHANGED <<player, sought>>

Seek ==
  /\ "seek" \in Env /\ media = "loaded" /\ Room(2)
  /\ \E t \in 0 .. FileLength :
       /\ t # playback /\ playback' = t
       /\ sought' = TRUE
  /\ events' = events \o <<"other", "restart">>
  /\ UnchangedPlugin /\ UNCHANGED <<media, file, elapsed>>

\* At its end the file is left, unless mpv keeps it open; or the user skips it.
EndFile ==
  /\ media = "loaded" /\ Room(1)
  /\ \/ playback = FileLength /\ "end" \in Env
     \/ "skip" \in Env
  /\ media' = "none" /\ events' = Append(events, "end")
  /\ UnchangedPlugin /\ UNCHANGED <<file, playback, elapsed, sought>>

Toggle ==
  /\ "toggle" \in Env /\ Room(1)
  /\ events' = Append(events, "toggle")
  /\ UnchangedPlugin
  /\ UNCHANGED <<media, file, playback, elapsed, sought>>

Quit ==
  /\ "quit" \in Env /\ Room(1) /\ ~Quitting
  /\ media' = "none" /\ events' = Append(events, "shutdown")
  /\ UnchangedPlugin /\ UNCHANGED <<file, playback, elapsed, sought>>

\* The lists that the thread's next step may be writing.
BeingSaved ==
  IF pc = "transcribed" /\ ~IsSeek /\ wav.start \in Speech
    THEN {[subs EXCEPT ![pos] = "plain"]}
  ELSE IF pc = "results" THEN {Translated(subs, {t}) : t \in batch}
  ELSE {}

\* The process dies, between two steps or while it saves, and mpv is started
\* again on the same file.  Only the files outside the temporary directory are
\* left.
Kill ==
  /\ "kill" \in Env /\ media = "loaded"
  /\ \/ TempFilesGone
     \/ ~TempSrt /\ \E s \in BeingSaved : DiesSaving(s)
  /\ running' = FALSE /\ shutting' = FALSE
  /\ pendingAuto' = FALSE /\ fileLoaded' = FALSE
  /\ mode' = "none" /\ source' = 0 /\ pos' = 0 /\ chunkDur' = Chunk
  /\ last' = NoTime /\ elapsed' = NoTime /\ sought' = FALSE
  /\ processed' = {} /\ subs' = NoSubs /\ transCache' = {}
  /\ subsLoaded' = FALSE /\ Return("attach")
  /\ inflight' = {} /\ late' = {} /\ answers' = {}
  /\ media' = "started" /\ events' = <<"start">> /\ playback' = 0
  /\ UNCHANGED file

Player ==
  \/ PlayFile \/ LoadFile \/ Play \/ Pause \/ Seek \/ EndFile \/ Toggle \/ Quit
  \/ Kill

Next == Plugin \/ Translator \/ Player
Spec == Init /\ [][Next]_vars

-----------------------------------------------------------------------------
(* Safety                                                                  *)

\* While a session runs the cursor is on the grid of chunks or at the end of
\* the file.  tick_local advances it by a chunk length computed once for the
\* whole look-ahead loop, the last chunk of a file is shorter, and a seek
\* moves it in the middle of the loop (plugin.rs 588-657).
CursorOnGrid == mode # "none" => pos \in Starts \cup {FileLength}

\* The audio handed to the recogniser, and then merged at the cursor, was cut
\* at that cursor: no check_seek between the extraction and the merge may move
\* the cursor and let the routine go on (plugin.rs 797-883).
AudioAtCursor ==
  pc \in {"extracted", "transcribed"} =>
    /\ wav \in [file : 0 .. Files, start : {pos}]
    /\ mode = "local" => wav.file = source

\* A chunk counts as processed when its speech has an entry, in memory and in
\* what a restart would load, where the manifest speaks of one file and the list
\* is another.  A chunk marked without an entry would never be recognised again;
\* only an entry that a failed or interrupted write has cut off from the list,
\* or that stood in a list nobody could read, may be missing so
\* (plugin.rs 864, 882-883, 991-1001, 1140-1151).
ProcessedIsHeard ==
  /\ Entries(subs) \subseteq processed
  /\ \A p \in processed \cap Speech : subs[p] # "none" \/ p \in lost[source]
  /\ \A f \in 1 .. Files : manifest[f] # Nil =>
       manifest[f].processed \cap Speech \subseteq Listed(disk[f]) \cup lost[f]

\* Unless a save fails, the speech of every chunk that counts as processed is on
\* disk already: between two steps of the thread a process may die and lose no
\* more than the chunk at hand.  This holds also of the process that follows one
\* that died while it wrote; what that write has cut off is not marked, unless
\* a manifest says so (plugin.rs 870-908, 962-1001).
ProcessedIsSaved ==
  \A p \in processed \cap Speech : p \in Listed(disk[source]) \cup lost[source]

\* Without a session the plugin holds nothing of the last one: no list, chunk or
\* translation that a session of another file would take for its own, no task
\* whose answer would come to it, and the thread is in no routine of a session,
\* wherever the session has ended (plugin.rs 1024-1047 and its five callers).
NothingIsLeft ==
  mode = "none" =>
    /\ pc \in {"attach", "wait", "tick", "exited"} /\ wav = Nil /\ batch = {}
    /\ processed = {} /\ subs = NoSubs /\ transCache = {} /\ ~subsLoaded
    /\ inflight = {} /\ late = {} /\ answers = {}

\* To the plugin thread the translation queue is the abstract service which
\* TranslationQueue is shown to implement: what this module assumes of the
\* worker after a cancel, a shutdown and a restart is what the worker promises
\* (plugin.rs 212-272, 962-984, 1024-1032).
Queue == INSTANCE TranslationService WITH
  Tasks <- Starts, live <- inflight, open <- ~shutting
UsesQueueAsPromised == Queue!Spec

\* A chunk is handled as ChunkRoutine promises: between the extraction and the
\* merge no check_seek moves the cursor and lets the routine go on, and what is
\* marked is the chunk whose audio was cut (plugin.rs 588-657, 797-908).
Work == INSTANCE ChunkRoutine WITH
  cursor <- pos, done <- processed,
  hand <- IF pc \in {"extracted", "transcribed"} THEN wav.start ELSE NoTime
WorksByChunks == Work!Spec

\* Without seeks, restarts and failing saves or translations, an entry that
\* lacks its translation is still in the queue or waits among its answers
\* (plugin.rs 909-921 and 962-984).
PlainIsQueued ==
  \A p \in Starts : subs[p] = "plain" => p \in inflight \cup answers \cup batch

\* When check_seek reports a seek, the user has moved since the last reading
\* of the position or no reading has set a time yet: playback that merely
\* went on during extraction or recognition is not a seek (plugin.rs 688-705).
\* The exception is real: the first check of a session allows for no time.  So
\* is the assumption that mpv plays no faster than the clock goes.
OnlySeeksAreSeeks == AtCheck /\ IsSeek => sought \/ elapsed = NoTime

-----------------------------------------------------------------------------
(* Action properties                                                       *)

\* The cursor passes a chunk only when the chunk has been recognised; any
\* other move is a seek, a start or the end of the session.
NoChunkSkipped ==
  [][mode # "none" /\ mode' = mode /\ pos' # pos =>
       \/ pos \in processed' /\ pos' = pos + ChunkDur
       \/ AtCheck /\ IsSeek]_vars

-----------------------------------------------------------------------------
(* Liveness.  The event loop always takes its next step, mpv plays on, and  *)
(* extractions, lists and saves that keep being retried work in the end.    *)

Fairness ==
  /\ WF_vars(Plugin) /\ WF_vars(Play) /\ WF_vars(PlayFile) /\ WF_vars(LoadFile)
  /\ SF_vars(LoopExtracts /\ pc' = "extracted")
  /\ SF_vars(MergeSpeech /\ disk' # disk)

FairSpec == Spec /\ Fairness

\* A session of a local file comes to its end: look-ahead limits, retried
\* extractions and the shorter last chunk never leave it waiting.
LocalSessionFinishes == mode = "local" ~> shutting

\* The speech of a chunk the cursor has come to ends up on disk, although its
\* extraction may fail and the last chunk of a file is shorter.
EverythingIsRecognised ==
  \A p \in Speech :
    mode = "local" /\ pos = p ~> disk[1] # Nil /\ disk[1][p] # "none"

\* With auto_start a session runs once the plugin has handled the event of a
\* file that was loaded (the comments at plugin.rs 1318 and 1412).
EveryFileIsStarted == [][AutoStart /\ Take("loaded") => running']_vars
=============================================================================
