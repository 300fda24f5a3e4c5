----------------------------- MODULE Recognition -----------------------------
(***************************************************************************)
(* How the chunks of a local file become subtitles: the routines of        *)
(* crates/mpv-stt-plugin/src/plugin.rs for one chunk (process_chunk_local, *)
(* transcribe_and_update, show_device_notice) with all that they call: the *)
(* extraction of the audio, its recognition by the plugin itself or by a   *)
(* server, and the attempts at sending it there.  A worker of the server   *)
(* is the same LocalWhisperBackend, which nobody takes the notice from.    *)
(*                                                                         *)
(* One frame is the unit of time.  Only the audio's way is here: playback, *)
(* look-ahead, saving and translating are in PluginSession and in          *)
(* SubtitleCache, attempts that overlap at the server in RemoteStt.  The   *)
(* user seeks anywhere at any of the checks.                               *)
(*                                                                         *)
(* A definition named X_Something is a deliberately wrong form of the X    *)
(* that follows it; the wrong forms are not part of the specification.     *)
(***************************************************************************)
EXTENDS AudioSegment, LocalWhisper, Transfer

CONSTANTS
  ChunkSize, \* playback.local_chunk_size_ms, in frames
  MaxRetry,  \* stt.remote_http.max_retry
  Keys, Secrets

ASSUME RecognitionAssumption ==
  ChunkSize \in Nat \ {0} /\ MaxRetry \in Nat \ {0} /\ Zero \notin Voiced

VARIABLES
  setup,   \* the build and the settings of both sides; never changes
  phase,   \* where the plugin is in its handling of a chunk
  pos,     \* current_pos_ms
  attempt, \* counted from 1
  entries, \* subtitle_manager: at which time which frame is shown
  done,    \* processed_chunks
  shown,   \* the device named by the last notice on the screen
  made     \* auxiliary: the device the last chunk was recognised on

sessionVars == <<setup, phase, pos, attempt, entries, done, shown, made>>
vars == <<audioVars, whisperVars, sessionVars>>

Grid == {p \in 0 .. Frames - 1 : p % ChunkSize = 0}

\* A build uses either backend; the settings of the other one do not exist.
NoSide == [key |-> Nil, secret |-> Nil, opus |-> FALSE]

Setups ==
  {[remote |-> FALSE, plugin |-> NoSide, server |-> NoSide]} \cup
  {[remote |-> TRUE,
    plugin |-> [key |-> k, secret |-> s, opus |-> o],
    server |-> [key |-> l, secret |-> u, opus |-> FALSE]] :
     k, l \in Keys \cup {Nil}, s, u \in Secrets \cup {Nil}, o \in BOOLEAN}

Init ==
  /\ AudioInit /\ WhisperInit
  /\ setup \in Setups
  /\ phase = "idle" /\ pos \in Grid /\ attempt = 1
  /\ entries = {} /\ done = {} /\ shown = NoDevice /\ made = NoDevice

-----------------------------------------------------------------------------
(* The user and the loop over the chunks                                   *)

\* check_seek; a seek into the chunk at hand is ignored.
Cursor(p) == p \in Grid /\ p # pos /\ pos' = p

Seek ==
  /\ phase = "idle" /\ \E p \in Grid : Cursor(p)
  /\ UNCHANGED <<setup, phase, attempt, entries, done, shown, made>>
  /\ UNCHANGED <<audioVars, whisperVars>>

SkipProcessed ==
  /\ phase = "idle" /\ pos \in done /\ pos' = pos + ChunkSize
  /\ UNCHANGED <<setup, phase, attempt, entries, done, shown, made>>
  /\ UNCHANGED <<audioVars, whisperVars>>

\* The end of the file, a toggle, and what a failed recognition leads to: the
\* session is cleared, and no other one begins (PluginSession).
Cleared ==
  /\ phase' = "off" /\ pos' = 0 /\ entries' = {} /\ done' = {}
  /\ attempt' = 1
  /\ UNCHANGED <<setup, shown, made>>

StopSession ==
  /\ phase = "idle" /\ Cleared /\ UNCHANGED <<audioVars, whisperVars>>

-----------------------------------------------------------------------------
(* process_chunk_local                                                     *)

\* A chunk is asked for in full, even where the file ends before.
BeginChunk ==
  /\ phase = "idle" /\ pos < Frames /\ pos \notin done
  /\ phase' = "extracting" /\ Extract(pos, ChunkSize)
  /\ UNCHANGED <<setup, pos, attempt, entries, done, shown, made>>
  /\ UNCHANGED whisperVars

ExtractStep == phase = "extracting" /\ AudioStep
               /\ UNCHANGED <<whisperVars, sessionVars>>

\* Without audio the chunk is tried again at the next tick.
NoSegment ==
  /\ phase = "extracting" /\ cut = "failed" /\ phase' = "idle"
  /\ SegmentUsed
  /\ UNCHANGED <<setup, pos, attempt, entries, done, shown, made>>
  /\ UNCHANGED whisperVars

\* The user has sought meanwhile, and the audio is left.
SeekBeforeTranscribing ==
  /\ phase = "extracting" /\ cut = "done"
  /\ \E p \in Grid : Cursor(p)
  /\ phase' = "idle" /\ SegmentUsed
  /\ UNCHANGED <<setup, attempt, entries, done, shown, made>>
  /\ UNCHANGED whisperVars

TranscribeHere ==
  /\ phase = "extracting" /\ cut = "done" /\ ~setup.remote
  /\ phase' = "recognising" /\ Transcribe(out, target)
  /\ UNCHANGED <<setup, pos, attempt, entries, done, shown, made>>
  /\ UNCHANGED audioVars

TranscribeThere ==
  /\ phase = "extracting" /\ cut = "done" /\ setup.remote
  /\ phase' = "sending" /\ attempt' = 1
  /\ UNCHANGED <<setup, pos, entries, done, shown, made>>
  /\ UNCHANGED <<audioVars, whisperVars>>

RecogniserStep == phase = "recognising" /\ WhisperStep
                  /\ UNCHANGED <<audioVars, sessionVars>>

-----------------------------------------------------------------------------
(* send_request_with_retry                                                 *)

\* An attempt has failed: there is another one, or the plugin stops.
MayRetry_OneMore == attempt <= MaxRetry

MayRetry == attempt < MaxRetry

AttemptFails ==
  IF MayRetry
    THEN /\ phase' = "sending" /\ attempt' = attempt + 1
         /\ UNCHANGED <<setup, pos, entries, done, shown, made>>
         /\ UNCHANGED audioVars
    ELSE Cleared /\ SegmentUsed

\* The request arrives: it is refused, or a worker transcribes what it carries.
Send ==
  /\ phase = "sending" /\ Encodes(setup.plugin, out)
  /\ Admitted(setup.server, Request(setup.plugin, out))
  /\ phase' = "recognising"
  /\ Transcribe(AudioOf(Request(setup.plugin, out)), target)
  /\ UNCHANGED <<setup, pos, attempt, entries, done, shown, made>>
  /\ UNCHANGED audioVars

Refused ==
  /\ phase = "sending" /\ Encodes(setup.plugin, out)
  /\ ~Admitted(setup.server, Request(setup.plugin, out))
  /\ AttemptFails /\ UNCHANGED whisperVars

CannotSend ==
  phase = "sending" /\ AttemptFails /\ UNCHANGED whisperVars

\* The server reports an error, or the subtitles do not arrive.
NoAnswer ==
  /\ phase = "recognising" /\ setup.remote /\ stt \in {"heard", "error"}
  /\ AttemptFails /\ Return /\ UNCHANGED notice

-----------------------------------------------------------------------------
(* transcribe_and_update after the recognition                             *)

RecognitionFails ==
  /\ phase = "recognising" /\ ~setup.remote /\ stt = "error"
  /\ Cleared /\ SegmentUsed /\ Return /\ UNCHANGED notice

\* The subtitles are there; a response opens.
Received ==
  /\ phase = "recognising" /\ stt = "heard"
  /\ setup.remote =>
       Opens(setup.plugin.key,
             Response(setup.server, Request(setup.plugin, out), heard))

\* The remote backend has no notices; the one of the worker stays.
ShowNotice ==
  IF setup.remote \/ notice = NoDevice
    THEN UNCHANGED <<shown, notice>>
    ELSE shown' = notice /\ notice' = NoDevice

\* offset_srt_file, add_from_srt: an entry replaces one at the same time.
Offset(srt, by) == {[at |-> e.at + by, what |-> e.what] : e \in srt}

Added(old, new) == {e \in old : \A n \in new : n.at # e.at} \cup new

\* Whatever becomes of the subtitles, the notice is shown first.
Use ==
  /\ Received /\ ShowNotice /\ Return
  /\ made' = ctx /\ attempt' = 1
  /\ UNCHANGED setup

\* The user has sought during the recognition.
SeekWhileTranscribing_Ignored ==
  /\ Use /\ \E p \in Grid : Cursor(p)
  /\ entries' = Added(entries, Offset(heard, pos')) /\ done' = done \cup {pos'}
  /\ phase' = "idle" /\ SegmentUsed

SeekWhileTranscribing ==
  /\ Use /\ \E p \in Grid : Cursor(p)
  /\ phase' = "idle" /\ SegmentUsed
  /\ UNCHANGED <<entries, done>>

\* The subtitles are merged, whether or not they can be saved; if they cannot,
\* the cursor stays.
Merge_MarkedLate ==
  /\ Use /\ entries' = Added(entries, Offset(heard, pos))
  /\ pos' = pos + ChunkSize /\ done' = done \cup {pos'}
  /\ phase' = "idle" /\ SegmentUsed

Merge ==
  /\ Use /\ entries' = Added(entries, Offset(heard, pos))
  /\ done' = done \cup {pos}
  /\ \/ pos' = pos + ChunkSize
     \/ heard # {} /\ UNCHANGED pos
  /\ phase' = "idle" /\ SegmentUsed

\* The list of the chunk cannot be shifted or parsed.
MergeFails ==
  /\ Use /\ heard # {}
  /\ phase' = "idle" /\ SegmentUsed
  /\ UNCHANGED <<pos, entries, done>>

Next ==
  \/ Seek \/ SkipProcessed \/ StopSession
  \/ BeginChunk \/ ExtractStep \/ NoSegment \/ SeekBeforeTranscribing
  \/ TranscribeHere \/ TranscribeThere \/ RecogniserStep
  \/ Send \/ Refused \/ CannotSend \/ NoAnswer \/ RecognitionFails
  \/ SeekWhileTranscribing \/ Merge \/ MergeFails

Spec == Init /\ [][Next]_vars

-----------------------------------------------------------------------------
(* What must hold                                                          *)

\* The types; an attempt is never one more than max_retry.
TypeOK ==
  /\ AudioTypeOK /\ WhisperTypeOK
  /\ setup \in Setups
  /\ phase \in {"off", "idle", "extracting", "sending", "recognising"}
  /\ pos \in Grid \cup {p + ChunkSize : p \in Grid}
  /\ attempt \in 1 .. MaxRetry
  /\ entries \subseteq [at : 0 .. Frames + ChunkSize + Lag, what : Voiced]
  /\ done \subseteq Grid
  /\ shown \in Devices \cup {NoDevice} /\ made \in Devices \cup {NoDevice}

\* How late a subtitle is.
Lateness == IF setup.remote THEN Late(setup.plugin) ELSE 0

\* No subtitle is shown before what it says is spoken, and where the file can
\* be entered at every chunk each one is shown just when it is, or as late as
\* Opus makes it: whatever seeks come between the steps, a chunk is merged at the
\* place its audio was cut from (plugin.rs 818-820, 848-852, 870-883).
EntriesInTime ==
  \A e \in entries :
    /\ e.what <= e.at
    /\ Grid \subseteq seekable => e.at = e.what + Lateness

\* A chunk counts as processed only if all that is spoken in it has its
\* subtitle, but for what Opus keeps back at the end of a chunk or of the file,
\* unless a seek could not enter the file where the chunk begins (plugin.rs
\* 882-883, audio.rs 144-151).
ProcessedIsComplete ==
  Grid \subseteq seekable =>
    \A p \in done, f \in Voiced :
      p <= f /\ f + Lateness < p + ChunkSize /\ f + Lateness < Frames =>
        [at |-> f + Lateness, what |-> f] \in entries

\* A server hears what the plugin would have heard itself, and nothing else:
\* without Opus exactly that; with Opus as much later as the codec is late, and
\* no more of it is missing than that, at the end of the segment, whether or not
\* the last packet had to be filled up (remote_http.rs 308-323, server.rs
\* 379-421).
HeardAsHere ==
  phase = "recognising" /\ stt = "heard" =>
    LET here == Offset(Segments(out, target), Lateness)
    IN  heard \subseteq here /\ \A e \in here : e.at < Len(out) => e \in heard

\* A server works only for those who have its secret, and whom it works for can
\* read the answer: an attempt that is let in never fails at its end for want of
\* a key, whichever keys the two sides have (server.rs 186-229, 272-284,
\* remote_http.rs 225-243).
AnswersOpen ==
  phase = "recognising" /\ setup.remote =>
    /\ setup.server.secret \in {Nil, setup.plugin.secret}
    /\ Opens(setup.plugin.key,
             Response(setup.server, Request(setup.plugin, out), heard))

\* However the audio is cut, recognised and sent, a chunk is handled as
\* ChunkRoutine promises, which PluginSession is shown to keep to as well
\* (plugin.rs 797-908).
Work == INSTANCE ChunkRoutine WITH
  cursor <- pos,
  hand <- IF phase \in {"extracting", "sending", "recognising"} THEN start ELSE -1
WorksByChunks == Work!Spec

\* The device that was named last on the screen is the one the last chunk was
\* recognised on, whether it had to fall back at the start or in the middle, and
\* also where a seek has dropped the chunk (local_whisper.rs 160-165, plugin.rs
\* 847).
NoticeTellsDevice ==
  ~setup.remote /\ made # NoDevice => shown = made
===============================================================================
