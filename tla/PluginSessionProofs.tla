------------------------- MODULE PluginSessionProofs -------------------------
(***************************************************************************)
(* What holds of the plugin thread for files of every length, every chunk  *)
(* length and look-ahead, any number of files and every environment: the   *)
(* cursor, the audio cut at it and the seeks seen along the way agree, and *)
(* a session that is over leaves nothing behind.                           *)
(***************************************************************************)
EXTENDS PluginSession, TLAPS

-----------------------------------------------------------------------------
(* Arithmetic of the grid of chunks.                                       *)

\* A multiple of c leaves no remainder.
LEMMA Multiple ==
  ASSUME NEW q \in Nat, NEW c \in Nat \ {0}
  PROVE  (c * q) % c = 0
  OBVIOUS

\* Division with remainder, as Align uses it (plugin.rs 707).
LEMMA Division ==
  ASSUME NEW t \in Nat, NEW c \in Nat \ {0}
  PROVE  /\ t % c \in 0 .. c - 1 /\ t % c <= t /\ (t - (t % c)) % c = 0
         /\ t \div c \in Nat /\ t = (c * (t \div c)) + (t % c)
<1>1. t % c \in 0 .. c - 1
  OBVIOUS
<1>2. t % c <= t
  OBVIOUS
<1>3. t \div c \in Nat /\ t = (c * (t \div c)) + (t % c)
  OBVIOUS
<1>4. (t - (t % c)) % c = 0
  <2>1. t - (t % c) = c * (t \div c)
    BY <1>1, <1>3
  <2> QED
    BY <1>3, <2>1, Multiple
<1> QED
  BY <1>1, <1>2, <1>3, <1>4

\* The next multiple of c is c further.
LEMMA GridStep ==
  ASSUME NEW p \in Nat, NEW c \in Nat \ {0}, p % c = 0
  PROVE  (p + c) % c = 0
<1> DEFINE q == p \div c
<1>1. q \in Nat /\ p = c * q
  BY Division
<1>2. q + 1 \in Nat /\ p + c = c * (q + 1)
  BY <1>1
<1>3. (c * (q + 1)) % c = 0
  BY <1>2, Multiple
<1> QED
  BY <1>2, <1>3

\* i chunks are no shorter than one, unless there are none.
LEMMA Product ==
  ASSUME NEW i \in Nat, NEW c \in Nat
  PROVE  i * c \in Nat /\ (i # 0 => i * c >= c)
  OBVIOUS

\* Aligning a position of the file gives the start of a chunk
\* (plugin.rs 316, 376, 707).
LEMMA AlignFacts ==
  ASSUME NEW t \in 0 .. FileLength
  PROVE  Align(t) \in Starts
<1>1. Chunk \in Nat \ {0} /\ FileLength \in Nat /\ t \in Nat /\ t <= FileLength
  BY SizesAssumption
<1>2. /\ t % Chunk \in 0 .. Chunk - 1 /\ t % Chunk <= t
      /\ (t - (t % Chunk)) % Chunk = 0
  BY <1>1, Division
<1> QED
  BY <1>1, <1>2 DEF Align, Starts

\* One chunk after a start there is a start, or the file is over.
LEMMA NextStart ==
  ASSUME NEW p \in Starts, p + Chunk <= FileLength
  PROVE  p + Chunk \in Starts
<1>1. /\ Chunk \in Nat \ {0} /\ FileLength \in Nat
      /\ p \in Nat /\ p % Chunk = 0
  BY SizesAssumption DEF Starts
<1>2. (p + Chunk) % Chunk = 0
  BY <1>1, GridStep
<1> QED
  BY <1>1, <1>2 DEF Starts

-----------------------------------------------------------------------------
(* What the code as it is does after cleanup.                              *)

\* shutting_down is never reset, so that nothing starts a second session.  The
\* plugin does not promise this (the comments at plugin.rs 1318 and 1412 say the
\* opposite); it is a fact the invariant of the cursor rests on.
Stopped ==
  shutting => ~running /\ mode = "none" /\ pc \in {"wait", "tick", "exited"}

\* Each action of the plugin thread: it either finds the session not stopped,
\* or stops it, or changes only what a stopped session may still change.
LEMMA StoppedHandlers ==
  ASSUME Stopped, Attach \/ HandleEvent
  PROVE  Stopped'
<1> USE DEF Stopped, flags, cursor, clock, memory, locals, queue,
            files, player
<1>1. CASE Attach
  BY <1>1 DEF Attach, StartTranscription
<1>2. CASE HandleToggle
  BY <1>2 DEF HandleToggle, Take, FlagsOnly, Stop, Cleanup, Return,
              StartTranscription
<1>3. CASE HandleStartFile
  BY <1>3 DEF HandleStartFile, Take, FlagsOnly
<1>4. CASE HandleFileLoaded
  BY <1>4 DEF HandleFileLoaded, Take, FlagsOnly, StartTranscription
<1>5. CASE HandlePlaybackRestart
  BY <1>5 DEF HandlePlaybackRestart, Take, FlagsOnly, StartTranscription
<1>6. CASE HandleEndFile
  BY <1>6 DEF HandleEndFile, Take, FlagsOnly, Stop, Cleanup, Return
<1>7. CASE HandleShutdown
  BY <1>7 DEF HandleShutdown, Take, Stop, Cleanup, Return
<1>8. CASE HandleOther
  BY <1>8 DEF HandleOther, Take, FlagsOnly
<1>9. CASE HandleTimeout
  BY <1>9 DEF HandleTimeout, FlagsOnly
<1> QED
  BY <1>1, <1>2, <1>3, <1>4, <1>5, <1>6, <1>7, <1>8, <1>9 DEF HandleEvent

\* The same for the steps of a tick.
LEMMA StoppedTick ==
  ASSUME Stopped,
         \/ SeekSeen \/ TickIdle \/ TakeResults \/ SaveResult
         \/ PlanLocal \/ PlanNetwork \/ LoopStops \/ LoopSkips \/ LoopExtracts
         \/ Recognised \/ RecognitionFails
         \/ MergeSilent \/ MergeFails \/ MergeSpeech
  PROVE  Stopped'
<1> USE DEF Stopped, flags, cursor, clock, memory, locals, queue,
            files, player, Return
<1>1. CASE SeekSeen
  BY <1>1 DEF SeekSeen, AtCheck
<1>2. CASE TickIdle
  BY <1>2 DEF TickIdle
<1>3. CASE TakeResults \/ SaveResult
  BY <1>3 DEF TakeResults, SaveResult, AtCheck
<1>4. CASE PlanLocal
  BY <1>4 DEF PlanLocal, Stop, Cleanup
<1>5. CASE PlanNetwork
  BY <1>5 DEF PlanNetwork
<1>6. CASE LoopStops \/ LoopSkips \/ LoopExtracts
  BY <1>6 DEF LoopStops, LoopSkips, LoopExtracts
<1>7. CASE Recognised \/ MergeSilent \/ MergeFails \/ MergeSpeech
  BY <1>7 DEF Recognised, MergeSilent, MergeFails, MergeSpeech
<1>8. CASE RecognitionFails
  BY <1>8 DEF RecognitionFails, Cleanup, LeaveChunk
<1> QED
  BY <1>1, <1>2, <1>3, <1>4, <1>5, <1>6, <1>7, <1>8

\* And for the steps of the translator, of mpv and of the user.
LEMMA StoppedOthers ==
  ASSUME Stopped, Translator \/ Player
  PROVE  Stopped'
<1> USE DEF Stopped, flags, cursor, clock, memory, locals, queue,
            files, player
<1>1. CASE Translator
  BY <1>1 DEF Translator, Answer, GiveUp
<1>2. CASE Kill
  BY <1>2 DEF Kill
<1>3. CASE Player /\ ~Kill
  BY <1>3 DEF Player, UnchangedPlugin, PlayFile, LoadFile, Play, Pause, Seek,
              EndFile, Toggle, Quit
<1> QED
  BY <1>1, <1>2, <1>3

\* Whatever the user, mpv and the translator do, the flag stays and the thread
\* waits for events (plugin.rs 1024-1047).
LEMMA StopIsFinal == Spec => []Stopped
<1>1. Init => Stopped
  BY DEF Init, FreshPlugin, Stopped
<1>2. Stopped /\ [Next]_vars => Stopped'
  <2> SUFFICES ASSUME Stopped, [Next]_vars
               PROVE  Stopped'
    OBVIOUS
  <2>1. CASE Plugin
    BY <2>1, StoppedHandlers, StoppedTick DEF Plugin
  <2>2. CASE Translator \/ Player
    BY <2>2, StoppedOthers
  <2>3. CASE UNCHANGED vars
    BY <2>3 DEF vars, Stopped
  <2> QED
    BY <2>1, <2>2, <2>3 DEF Next
<1> QED
  BY <1>1, <1>2, PTL DEF Spec

-----------------------------------------------------------------------------
(* The inductive invariant of the cursor.                                  *)

\* A session begins once, and the routines of a tick belong to a session.
Routine ==
  /\ ~running /\ ~shutting =>
       mode = "none" /\ pc \in {"attach", "wait", "tick"}
  /\ pc = "attach" => ~running /\ ~shutting
  /\ pc \in {"results", "plan", "loop", "extracted", "transcribed"} =>
       ~shutting /\ mode # "none"
  /\ pc = "loop" => ret = "loop"
  /\ mode = "local" => ~Network
  /\ mode = "network" => Network
  /\ mode # "none" => source \in 1 .. Files /\ ~shutting
  /\ media # "none" => file \in 1 .. Files

\* The chunk at the cursor fits into the file whenever the loop may pass it,
\* and a shorter chunk is the last one.
Window ==
  /\ pc \in {"extracted", "transcribed"} => pos < FileLength
  /\ pc \in {"extracted", "transcribed"} /\ ret = "loop" =>
       pos + ChunkDur <= FileLength
  /\ pc = "loop" /\ mode = "local" /\ iter = 0 => pos + chunkDur <= FileLength
  /\ ret = "loop" /\ mode = "local" =>
       \/ chunkDur = Chunk \/ pos + chunkDur = FileLength \/ pos = FileLength

\* Inductive together with Stopped.
CursorInv ==
  CursorTypes /\ Routine /\ Window /\ CursorOnGrid /\ AudioAtCursor

\* The invariant holds of a fresh plugin (plugin.rs 117-185).
LEMMA CursorInit == Init => CursorInv
<1>1. 0 \in Starts
  BY SizesAssumption DEF Starts
<1> QED
  BY <1>1, SizesAssumption
  DEF Init, FreshPlugin, CursorInv, CursorTypes, Routine, Window, CursorOnGrid,
      AudioAtCursor, NoTime

\* A step that leaves the cursor and the thread alone keeps it.
LEMMA CursorSteady ==
  ASSUME CursorInv,
         UNCHANGED <<running, shutting, mode, source, pos, chunkDur, last,
                     pc, ret, iter, snap, cacheSnap, wav>>,
         elapsed' \in {NoTime} \cup 0 .. FileLength,
         playback' \in 0 .. FileLength,
         media' \in {"none", "started", "loaded"},
         file' \in 0 .. Files, media' # "none" => file' \in 1 .. Files
  PROVE  CursorInv'
  BY SizesAssumption
  DEF CursorInv, CursorTypes, Routine, Window, CursorOnGrid, AudioAtCursor,
      ChunkDur

\* What mpv and its user do keeps the invariant.
LEMMA CursorPlayer ==
  ASSUME CursorInv, Player /\ ~Kill
  PROVE  CursorInv'
<1> USE SizesAssumption DEF flags, cursor, clock, memory, locals, queue, files,
        player, UnchangedPlugin, NoTime, Older
<1>2. UNCHANGED <<running, shutting, mode, source, pos, chunkDur, last,
                  pc, ret, iter, snap, cacheSnap, wav>>
  BY DEF Player, PlayFile, LoadFile, Play, Pause, Seek, EndFile, Toggle, Quit
<1>0. /\ elapsed \in {NoTime} \cup 0 .. FileLength
      /\ playback \in 0 .. FileLength
      /\ media \in {"none", "started", "loaded"}
      /\ file \in 0 .. Files /\ (media # "none" => file \in 1 .. Files)
  BY DEF CursorInv, CursorTypes, Routine
<1>3. elapsed' \in {NoTime} \cup 0 .. FileLength
  <2>1. elapsed' \in {elapsed, Older}
    BY DEF Player, PlayFile, LoadFile, Play, Pause, Seek, EndFile, Toggle, Quit
  <2> QED
    BY <1>0, <2>1
<1>7. playback' \in 0 .. FileLength
  <2>1. CASE Play
    BY <1>0, <2>1 DEF Play
  <2>2. CASE PlayFile \/ Seek
    BY <1>0, <2>2 DEF PlayFile, Seek
  <2>3. CASE LoadFile \/ Pause \/ EndFile \/ Toggle \/ Quit
    BY <1>0, <2>3 DEF LoadFile, Pause, EndFile, Toggle, Quit
  <2> QED
    BY <2>1, <2>2, <2>3 DEF Player
<1>8. \/ PlayFile /\ media' = "started" /\ file' = file + 1 /\ file < Files
      \/ media' \in {media, "none"} /\ file' = file
      \/ media' = "loaded" /\ media # "none" /\ file' = file
  BY DEF Player, PlayFile, LoadFile, Play, Pause, Seek, EndFile, Toggle, Quit
<1>4. media' \in {"none", "started", "loaded"}
  BY <1>0, <1>8
<1>5. file' \in 0 .. Files
  BY <1>0, <1>8
<1>6. media' # "none" => file' \in 1 .. Files
  BY <1>0, <1>8
<1> QED
  BY <1>2, <1>3, <1>4, <1>5, <1>6, <1>7, CursorSteady

\* A restart of the process keeps it.
LEMMA CursorKill ==
  ASSUME CursorInv, Kill
  PROVE  CursorInv'
<1> QED
  BY SizesAssumption
  DEF Kill, Return, CursorInv, CursorTypes, Routine, Window, CursorOnGrid,
      AudioAtCursor, ChunkDur, NoTime

\* The translation worker keeps it.
LEMMA CursorTranslator ==
  ASSUME CursorInv, Translator
  PROVE  CursorInv'
<1> QED
  BY CursorSteady
  DEF Translator, Answer, GiveUp, flags, cursor, clock, memory, locals, files,
      player, CursorInv, CursorTypes, Routine

\* A seek lands on the grid and ends the routine under way
\* (plugin.rs 707-758).
LEMMA CursorSeek ==
  ASSUME CursorInv, SeekSeen
  PROVE  CursorInv'
<1>1. Align(playback) \in Starts
  BY AlignFacts DEF CursorInv, CursorTypes
<1> QED
  BY <1>1, SizesAssumption
  DEF SeekSeen, IsSeek, PositionKnown, LeaveChunk, Return, flags, files,
      player, CursorInv, CursorTypes, Routine, Window, CursorOnGrid,
      AudioAtCursor, ChunkDur, NoTime, Starts

\* cleanup resets the cursor (plugin.rs 1024-1047).
LEMMA CursorCleanup ==
  ASSUME CursorInv, Cleanup,
         pc' \in {"wait", "tick", "exited"}, ret' = "wait", iter' = 0,
         snap' = NoTime, cacheSnap' = 0, wav' = Nil,
         chunkDur' \in {chunkDur, Chunk}, UNCHANGED <<file, playback, media>>
  PROVE  CursorInv'
  BY SizesAssumption
  DEF Cleanup, CursorInv, CursorTypes, Routine, Window, CursorOnGrid,
      AudioAtCursor, NoTime

\* The steps of a tick that leave the cursor where it is.
LEMMA CursorTick ==
  ASSUME CursorInv,
         \/ TickIdle \/ TakeResults \/ SaveResult \/ LoopStops \/ Recognised
         \/ MergeFails
  PROVE CursorInv'
<1> USE SizesAssumption DEF flags, cursor, clock, memory, locals, queue, files,
        player,
        CursorInv, CursorTypes, Routine, Window, CursorOnGrid, AudioAtCursor,
        ChunkDur, NoTime, NoSeek, PositionKnown
<1>1. CASE TickIdle
  BY <1>1 DEF TickIdle
<1>2. CASE TakeResults \/ SaveResult
  BY <1>2 DEF TakeResults, SaveResult, AtCheck
<1>3. CASE LoopStops
  BY <1>3 DEF LoopStops, Return
<1>4. CASE Recognised
  BY <1>4 DEF Recognised
<1>5. CASE MergeFails
  BY <1>5 DEF MergeFails, LeaveChunk, Return
<1> QED
  BY <1>1, <1>2, <1>3, <1>4, <1>5

\* A loop begins with a window that fits, or the file is finished
\* (plugin.rs 588-600, 661-669).
LEMMA CursorPlan ==
  ASSUME CursorInv, PlanLocal \/ PlanNetwork
  PROVE CursorInv'
<1> USE SizesAssumption DEF flags, cursor, clock, memory, locals, queue, files,
        player,
        CursorInv, CursorTypes, Routine, Window, CursorOnGrid, AudioAtCursor,
        ChunkDur, NoTime
<1>1. CASE PlanNetwork
  BY <1>1 DEF PlanNetwork
<1>2. CASE PlanLocal /\ TimeLeft > 0
  BY <1>2 DEF PlanLocal, TimeLeft
<1>3. CASE PlanLocal /\ TimeLeft = 0
  BY <1>3, CursorCleanup DEF PlanLocal, TimeLeft, Stop, Return
<1> QED
  BY <1>1, <1>2, <1>3 DEF TimeLeft

\* In the loop, a chunk the window admits fits into the file, and behind it
\* the cursor is on the grid or at the end.
LEMMA WindowFits ==
  ASSUME CursorInv, pc = "loop", NoSeek, ~WindowClosed
  PROVE  pos + ChunkDur <= FileLength /\ pos < FileLength
<1> USE SizesAssumption DEF CursorInv, CursorTypes, Routine, Window
<1>1. /\ pos \in Nat /\ iter \in Nat /\ FileLength \in Nat
      /\ ChunkDur \in Nat /\ ChunkDur > 0
  BY DEF ChunkDur
<1>2. iter * ChunkDur \in Nat /\ (iter # 0 => iter * ChunkDur >= ChunkDur)
  BY <1>1, Product
<1>3. CASE mode = "network"
  <2>1. /\ pos + (iter * ChunkDur) + ChunkDur <= cacheSnap
        /\ cacheSnap <= FileLength
    BY <1>1, <1>2, <1>3 DEF WindowClosed, WindowStart
  <2> QED
    BY <1>1, <1>2, <2>1
<1>4. CASE mode = "local" /\ iter = 0
  BY <1>1, <1>4 DEF ChunkDur
<1>5. CASE mode = "local" /\ iter # 0
  <2>1. pos + (iter * ChunkDur) < FileLength
    BY <1>1, <1>2, <1>5 DEF WindowClosed, WindowStart
  <2> QED
    BY <1>1, <1>2, <1>5, <2>1
<1> QED
  BY <1>3, <1>4, <1>5

\* Behind a chunk that fits, the cursor is on the grid or at the end of the
\* file.
LEMMA Advance ==
  ASSUME CursorInv, mode # "none", ret = "loop",
         pos < FileLength, pos + ChunkDur <= FileLength
  PROVE  /\ pos + ChunkDur \in 0 .. FileLength
         /\ pos + ChunkDur \in Starts \cup {FileLength}
         /\ mode = "local" => chunkDur = Chunk \/ pos + ChunkDur = FileLength
<1> USE SizesAssumption DEF CursorInv, CursorTypes, Window, ChunkDur
<1>1. pos + ChunkDur \in 0 .. FileLength
  OBVIOUS
<1>2. mode = "local" => chunkDur = Chunk \/ pos + ChunkDur = FileLength
  OBVIOUS
<1>3. CASE ChunkDur = Chunk
  <2>1. pos \in Starts
    BY DEF CursorOnGrid
  <2> QED
    BY <1>1, <1>2, <1>3, <2>1, NextStart
<1>4. CASE ChunkDur # Chunk
  BY <1>1, <1>2, <1>4
<1> QED
  BY <1>3, <1>4

\* One iteration of the look-ahead loop (plugin.rs 482-563, 602-660).
LEMMA CursorLoop ==
  ASSUME CursorInv, LoopSkips \/ LoopExtracts
  PROVE  CursorInv'
<1>1. pc = "loop" /\ ret = "loop" /\ mode # "none" /\ NoSeek /\ ~WindowClosed
  BY DEF LoopSkips, LoopExtracts, CursorInv, Routine
<1>2. pos + ChunkDur <= FileLength /\ pos < FileLength
  BY <1>1, WindowFits
<1> USE <1>1, <1>2, SizesAssumption
    DEF flags, cursor, clock, memory, locals, queue, files, player,
        CursorInv, CursorTypes, Routine, Window, AudioAtCursor,
        NoTime, NoSeek, PositionKnown
<1>3. CASE LoopSkips
  <2>1. /\ pos' \in 0 .. FileLength /\ pos' \in Starts \cup {FileLength}
        /\ mode = "local" => chunkDur = Chunk \/ pos' = FileLength
    BY <1>3, Advance DEF LoopSkips
  <2>2. /\ iter' \in 0 .. Lookahead - 1
        /\ \/ /\ iter' # 0 /\ pc' = "loop" /\ ret' = "loop" /\ wav' = Nil
              /\ snap' = snap /\ cacheSnap' = cacheSnap
           \/ Return("wait")
    BY <1>3 DEF LoopSkips, NextIteration, Return
  <2> QED
    BY <1>3, <2>1, <2>2 DEF LoopSkips, Return, CursorOnGrid, ChunkDur
<1>4. CASE LoopExtracts
  <2>1. wav' \in {Nil} \cup [file : 0 .. Files, start : 0 .. FileLength]
    BY <1>4 DEF LoopExtracts, ExtractedFrom, Return
  <2>2. AudioAtCursor'
    BY <1>4 DEF LoopExtracts, ExtractedFrom, Return
  <2> QED
    BY <1>4, <2>1, <2>2 DEF LoopExtracts, Return, CursorOnGrid, ChunkDur
<1> QED
  BY <1>3, <1>4

\* Merging a chunk leaves the cursor or moves it by the chunk
\* (plugin.rs 858-923).
LEMMA CursorMerge ==
  ASSUME CursorInv, MergeSilent \/ MergeSpeech
  PROVE  CursorInv'
<1>1. /\ pc = "transcribed" /\ mode # "none" /\ pos < FileLength
      /\ ret = "loop" => pos + ChunkDur <= FileLength
  BY DEF MergeSilent, MergeSpeech, CursorInv, Routine, Window
<1> USE <1>1, SizesAssumption
    DEF flags, cursor, clock, memory, locals, queue, files, player,
        CursorInv, CursorTypes, Routine, Window, AudioAtCursor,
        NoTime, NoSeek, PositionKnown
<1>2. /\ UNCHANGED <<running, shutting, mode, source, chunkDur, media, file,
                     playback>>
      /\ last' = playback \/ last' = last
      /\ elapsed' = 0 \/ elapsed' = elapsed
  BY DEF MergeSilent, MergeSpeech
<1>3. \/ /\ ret = "loop" /\ pos' = pos + ChunkDur
         /\ NextIteration(mode = "local" /\ pos' >= FileLength)
      \/ (Return("wait") \/ Return("tick")) /\ pos' = pos
  BY DEF MergeSilent, MergeSpeech, ChunkDone, LeaveChunk
<1>4. CASE /\ ret = "loop" /\ pos' = pos + ChunkDur
           /\ NextIteration(mode = "local" /\ pos' >= FileLength)
  <2>1. /\ pos' \in 0 .. FileLength /\ pos' \in Starts \cup {FileLength}
        /\ mode = "local" => chunkDur = Chunk \/ pos' = FileLength
    BY <1>4, Advance
  <2>2. /\ iter' \in 0 .. Lookahead - 1
        /\ \/ /\ iter' # 0 /\ pc' = "loop" /\ ret' = "loop" /\ wav' = Nil
              /\ snap' = snap /\ cacheSnap' = cacheSnap
           \/ Return("wait")
    BY <1>4 DEF NextIteration, Return
  <2>3. CASE Return("wait")
    BY <1>2, <2>1, <2>3 DEF Return, CursorOnGrid, ChunkDur
  <2>4. CASE /\ iter' # 0 /\ pc' = "loop" /\ ret' = "loop" /\ wav' = Nil
             /\ snap' = snap /\ cacheSnap' = cacheSnap
    <3>1. CursorTypes'
      BY <1>2, <2>1, <2>2, <2>4
    <3>2. Routine'
      BY <1>2, <2>4
    <3>3. Window' /\ CursorOnGrid' /\ AudioAtCursor'
      BY <1>2, <2>1, <2>4 DEF CursorOnGrid, ChunkDur
    <3> QED
      BY <3>1, <3>2, <3>3
  <2> QED
    BY <2>2, <2>3, <2>4
<1>5. CASE (Return("wait") \/ Return("tick")) /\ pos' = pos
  BY <1>2, <1>5 DEF Return, CursorOnGrid, ChunkDur
<1> QED
  BY <1>3, <1>4, <1>5

\* A failing recogniser ends the session (plugin.rs 838-844).
LEMMA CursorFailure ==
  ASSUME CursorInv, RecognitionFails
  PROVE  CursorInv'
  BY CursorCleanup DEF RecognitionFails, LeaveChunk, Return, player

\* start_transcription puts the cursor on the grid (plugin.rs 288-411).
LEMMA CursorStart ==
  ASSUME CursorInv, NEW next \in {"wait", "tick"}, StartTranscription(next),
         ~running, running', ~shutting
  PROVE  CursorInv'
<1> DEFINE now == IF PositionKnown THEN playback ELSE 0
<1> USE SizesAssumption, ConfigAssumption
    DEF queue, files, CursorInv, CursorTypes, Routine, Window, AudioAtCursor,
        NoTime, CursorOnGrid, ChunkDur
<1>1. now \in 0 .. FileLength /\ Align(now) \in Starts
  BY AlignFacts
<1>2. Align(now) \in 0 .. FileLength
  BY <1>1 DEF Starts
<1>3. /\ UNCHANGED <<shutting, chunkDur, elapsed, media, file, playback>>
      /\ last' = now
  BY DEF StartTranscription
<1>4. \/ /\ file \in 1 .. Files /\ source' = file /\ pos' = Align(now)
         /\ mode' = IF Network THEN "network" ELSE "local"
         /\ \/ /\ ~Network /\ pos' < FileLength
               /\ pc' = "extracted" /\ ret' = next
               /\ wav' = [file |-> file, start |-> pos']
               /\ UNCHANGED <<iter, snap, cacheSnap>>
            \/ Return(next)
      \/ /\ pos' = 0 /\ mode' = "none" /\ source' = source /\ Return(next)
  BY DEF StartTranscription, PositionKnown
<1> HIDE DEF now
<1>5. CASE Return(next) /\ pos' = 0 /\ mode' = "none" /\ source' = source
  BY <1>1, <1>3, <1>5 DEF Return
<1>6. CASE /\ file \in 1 .. Files /\ source' = file /\ pos' = Align(now)
           /\ mode' = IF Network THEN "network" ELSE "local"
           /\ Return(next)
  BY <1>1, <1>2, <1>3, <1>6 DEF Return
<1>7. CASE /\ file \in 1 .. Files /\ source' = file /\ pos' = Align(now)
           /\ mode' = IF Network THEN "network" ELSE "local"
           /\ ~Network /\ pos' < FileLength
           /\ pc' = "extracted" /\ ret' = next
           /\ wav' = [file |-> file, start |-> pos']
           /\ UNCHANGED <<iter, snap, cacheSnap>>
  <2>1. CursorTypes'
    BY <1>1, <1>2, <1>3, <1>7
  <2>2. Routine'
    BY <1>1, <1>2, <1>3, <1>7
  <2>3. Window' /\ CursorOnGrid'
    BY <1>1, <1>2, <1>3, <1>7
  <2>4. AudioAtCursor'
    BY <1>1, <1>2, <1>3, <1>7
  <2> QED
    BY <2>1, <2>2, <2>3, <2>4
<1> QED
  BY <1>4, <1>5, <1>6, <1>7

\* The handlers of the event loop (plugin.rs 1318-1427).
LEMMA CursorHandlers ==
  ASSUME CursorInv, Attach \/ HandleEvent, Stopped
  PROVE  CursorInv'
<1> USE DEF flags, cursor, clock, memory, locals, queue, files, player
<1>1. ASSUME pc' \in {"wait", "tick"},
             UNCHANGED <<running, shutting, cursor, clock, locals, media,
                         file, playback>>,
             pc \in {"attach", "wait"}
      PROVE CursorInv'
  BY <1>1
  DEF CursorInv, CursorTypes, Routine, Window, CursorOnGrid, AudioAtCursor
<1>2. CASE Attach
  <2>1. ~running /\ ~shutting
    BY <1>2 DEF Attach, CursorInv, Routine
  <2> QED
    BY <1>1, <1>2, <2>1, CursorStart DEF Attach
<1>3. CASE HandleToggle
  BY <1>1, <1>3, CursorStart, CursorCleanup
  DEF HandleToggle, Take, FlagsOnly, Stop, Return
<1>4. CASE HandleStartFile \/ HandleOther \/ HandleTimeout
  BY <1>1, <1>4
  DEF HandleStartFile, HandleOther, HandleTimeout, Take, FlagsOnly
<1>5. CASE HandleFileLoaded \/ HandlePlaybackRestart
  BY <1>1, <1>5, CursorStart
  DEF HandleFileLoaded, HandlePlaybackRestart, Take, FlagsOnly
<1>6. CASE HandleEndFile \/ HandleShutdown
  BY <1>1, <1>6, CursorCleanup
  DEF HandleEndFile, HandleShutdown, Take, FlagsOnly, Stop, Return
<1> QED
  BY <1>2, <1>3, <1>4, <1>5, <1>6 DEF HandleEvent

\* Every step keeps the invariant.
LEMMA CursorStep ==
  ASSUME CursorInv, Stopped, Next
  PROVE  CursorInv'
  BY CursorHandlers, CursorSeek, CursorTick, CursorPlan, CursorLoop,
         CursorFailure, CursorMerge,
     CursorTranslator, CursorKill, CursorPlayer
  DEF Next, Plugin

\* The cursor, the window, the audio and the routine under way agree in every
\* state the plugin reaches (plugin.rs 288-939).
THEOREM CursorCorrect == Spec => []CursorInv
<1>1. CursorInv /\ Stopped /\ [Next]_vars => CursorInv'
  <2> SUFFICES ASSUME CursorInv, Stopped, [Next]_vars
               PROVE  CursorInv'
    OBVIOUS
  <2>1. CASE Next
    BY <2>1, CursorStep
  <2>2. CASE UNCHANGED vars
    BY <2>2
    DEF vars, CursorInv, CursorTypes, Routine, Window, CursorOnGrid,
        AudioAtCursor, ChunkDur
  <2> QED
    BY <2>1, <2>2
<1> QED
  BY <1>1, CursorInit, StopIsFinal, PTL DEF Spec

\* What is merged at the cursor was recognised in audio cut at the cursor and,
\* for local files, cut from the session's file (plugin.rs 797-883).
THEOREM AudioIsCutAtCursor == Spec => []AudioAtCursor
<1>1. CursorInv => AudioAtCursor
  BY DEF CursorInv
<1> QED
  BY <1>1, CursorCorrect, PTL

\* The shorter last chunk and seeks in the middle of a loop never take the
\* cursor off the grid of chunks (plugin.rs 588-657).
THEOREM CursorStaysOnGrid == Spec => []CursorOnGrid
<1>1. CursorInv => CursorOnGrid
  BY DEF CursorInv
<1> QED
  BY <1>1, CursorCorrect, PTL

-----------------------------------------------------------------------------
(* Nothing is left of a session that is over.                              *)

\* cleanup empties everything, and its callers leave the routine they are in
\* (plugin.rs 1024-1047).
LEMMA CleanupLeavesNothing ==
  ASSUME Cleanup, NEW next \in {"wait", "tick", "exited"}, Return(next)
  PROVE  NothingIsLeft'
  BY DEF Cleanup, Return, NothingIsLeft

\* A step within a session, or one that touches nothing of it.
LEMMA NothingAdded ==
  ASSUME NothingIsLeft,
         \/ mode' # "none"
         \/ /\ pc' \in {"attach", "wait", "tick", "exited"}
            /\ UNCHANGED <<mode, memory, locals, queue>>
  PROVE  NothingIsLeft'
  BY DEF NothingIsLeft, memory, locals, queue

\* The handlers of the event loop: a start that finds no file adds nothing.
LEMMA HandlersLeaveNothing ==
  ASSUME NothingIsLeft, CursorInv, Attach \/ HandleEvent
  PROVE  NothingIsLeft'
<1> USE DEF flags, cursor, clock
<1>1. ASSUME NEW next \in {"wait", "tick"}, FlagsOnly(next)
      PROVE  NothingIsLeft'
  BY <1>1, NothingAdded DEF FlagsOnly
<1>2. ASSUME NEW next \in {"wait", "exited"}, Stop(next)
      PROVE  NothingIsLeft'
  BY <1>2, CleanupLeavesNothing DEF Stop
<1>3. ASSUME NEW next \in {"wait", "tick"}, StartTranscription(next)
      PROVE  NothingIsLeft'
  <2>1. CASE mode' # "none"
    BY <2>1, NothingAdded
  <2>2. CASE mode' = "none"
    <3>1. UNCHANGED <<mode, memory, queue>> /\ Return(next)
      BY <1>3, <2>2 DEF StartTranscription
    <3> QED
      BY <3>1 DEF NothingIsLeft, Return, memory, queue
  <2> QED
    BY <2>1, <2>2
<1>4. CASE Attach
  BY <1>3, <1>4, NothingAdded DEF Attach
<1>5. CASE HandleToggle \/ HandleEndFile \/ HandleShutdown
  BY <1>1, <1>2, <1>3, <1>5 DEF HandleToggle, HandleEndFile, HandleShutdown
<1>6. CASE HandleFileLoaded \/ HandlePlaybackRestart
  BY <1>1, <1>3, <1>6 DEF HandleFileLoaded, HandlePlaybackRestart
<1>7. CASE HandleStartFile \/ HandleOther \/ HandleTimeout
  BY <1>1, <1>7 DEF HandleStartFile, HandleOther, HandleTimeout
<1> QED
  BY <1>4, <1>5, <1>6, <1>7 DEF HandleEvent

\* A tick works only within a session, or ends it.
LEMMA TickLeavesNothing ==
  ASSUME NothingIsLeft, CursorInv, Plugin, ~Attach, ~HandleEvent
  PROVE  NothingIsLeft'
<1> USE DEF flags, cursor, clock
<1>1. CASE TickIdle
  BY <1>1, NothingAdded DEF TickIdle
<1>2. CASE PlanLocal
  BY <1>2, NothingAdded, CleanupLeavesNothing DEF PlanLocal, Stop
<1>3. CASE RecognitionFails
  BY <1>3, CleanupLeavesNothing DEF RecognitionFails, LeaveChunk
<1>4. CASE \/ TakeResults \/ SaveResult \/ PlanNetwork \/ SeekSeen \/ LoopStops
           \/ LoopSkips \/ LoopExtracts \/ Recognised \/ MergeSilent
           \/ MergeFails \/ MergeSpeech
  <2>1. mode # "none"
    BY <1>4
    DEF CursorInv, Routine, TakeResults, SaveResult, PlanNetwork, SeekSeen, AtCheck,
        LoopStops, LoopSkips, LoopExtracts, Recognised, MergeSilent, MergeFails,
        MergeSpeech
  <2>2. mode' = mode
    BY <1>4
    DEF TakeResults, SaveResult, PlanNetwork, SeekSeen, LoopStops, LoopSkips,
        LoopExtracts, Recognised, MergeSilent, MergeFails, MergeSpeech
  <2> QED
    BY <2>1, <2>2, NothingAdded
<1> QED
  BY <1>1, <1>2, <1>3, <1>4 DEF Plugin

\* Wherever a session ends, its list, its chunks, its translations and its tasks go
\* with it, so that none of them meets the next (plugin.rs 1024-1047).
THEOREM SessionsLeaveNothing == Spec => []NothingIsLeft
<1>1. Init => NothingIsLeft
  BY DEF Init, FreshPlugin, NothingIsLeft
<1>2. NothingIsLeft /\ CursorInv /\ [Next]_vars => NothingIsLeft'
  <2> SUFFICES ASSUME NothingIsLeft, CursorInv, [Next]_vars
               PROVE  NothingIsLeft'
    OBVIOUS
  <2>1. CASE Plugin
    BY <2>1, HandlersLeaveNothing, TickLeavesNothing
  <2>2. CASE Translator
    BY <2>2
    DEF Translator, Answer, GiveUp, cursor, memory, locals, NothingIsLeft
  <2>3. CASE Kill
    BY <2>3 DEF Kill, Return, NothingIsLeft
  <2>4. CASE Player /\ ~Kill
    BY <2>4
    DEF Player, UnchangedPlugin, PlayFile, LoadFile, Play, Pause, Seek, EndFile,
        Toggle, Quit, cursor, memory, locals, queue, NothingIsLeft
  <2>5. CASE UNCHANGED vars
    BY <2>5 DEF vars, NothingIsLeft
  <2> QED
    BY <2>1, <2>2, <2>3, <2>4, <2>5 DEF Next
<1> QED
  BY <1>1, <1>2, CursorCorrect, PTL DEF Spec

-----------------------------------------------------------------------------
(* No chunk is passed over, and playback that goes on is no seek.          *)

\* A step that moves the cursor of a session passes a recognised chunk or is
\* a seek.
LEMMA SkipStep ==
  ASSUME CursorInv, Next, mode # "none", mode' = mode, pos' # pos
  PROVE  (pos \in processed' /\ pos' = pos + ChunkDur) \/ (AtCheck /\ IsSeek)
<1> USE DEF flags, cursor, clock, memory, locals, queue, files, player
<1>1. CASE Attach \/ HandleEvent
  <2>1. ~Cleanup
    BY DEF Cleanup
  <2>2. running \/ shutting
    BY DEF CursorInv, Routine
  <2>3. pc # "attach"
    BY <2>2 DEF CursorInv, Routine
  <2> QED
    BY <1>1, <2>1, <2>2, <2>3
    DEF CursorInv, Routine, Attach, HandleEvent, HandleToggle, HandleStartFile,
        HandleFileLoaded,
       HandlePlaybackRestart, HandleEndFile, HandleShutdown, HandleOther,
       HandleTimeout, FlagsOnly, Stop
<1>2. CASE SeekSeen
  BY <1>2 DEF SeekSeen
<1>3. CASE \/ TickIdle \/ TakeResults \/ SaveResult \/ PlanNetwork
           \/ LoopStops \/ LoopExtracts \/ Recognised \/ MergeFails
  BY <1>3
  DEF TickIdle, TakeResults, SaveResult, PlanNetwork, LoopStops, LoopExtracts, Recognised,
      MergeFails
<1>4. CASE PlanLocal \/ RecognitionFails
  BY <1>4 DEF PlanLocal, RecognitionFails, Stop, Cleanup
<1>5. CASE LoopSkips
  BY <1>5 DEF LoopSkips
<1>6. CASE MergeSilent \/ MergeSpeech
  BY <1>6 DEF MergeSilent, MergeSpeech, ChunkDone
<1>7. CASE Translator
  BY <1>7 DEF Translator, Answer, GiveUp
<1>8. CASE Player
  BY <1>8
  DEF Player, UnchangedPlugin, PlayFile, LoadFile, Play, Pause, Seek, EndFile,
      Toggle, Quit, Kill
<1> QED
  BY <1>1, <1>2, <1>3, <1>4, <1>5, <1>6, <1>7, <1>8 DEF Next, Plugin

\* Within a session the cursor moves past recognised chunks only, unless the
\* user seeks (plugin.rs 602-657 and 707-716).
THEOREM ChunksAreNotSkipped == Spec => NoChunkSkipped
<1>1. CursorInv /\ [Next]_vars =>
        [mode # "none" /\ mode' = mode /\ pos' # pos =>
           \/ pos \in processed' /\ pos' = pos + ChunkDur
           \/ AtCheck /\ IsSeek]_vars
  BY SkipStep
<1> QED
  BY <1>1, CursorCorrect, PTL DEF Spec, NoChunkSkipped

\* Since the last reading of the position playback has advanced by no more than
\* the time that has passed, unless somebody sought or mpv plays faster.
Drift ==
  /\ mode = "none" => elapsed = NoTime
  /\ ~sought /\ media = "loaded" /\ last # NoTime /\ elapsed # NoTime =>
       last <= playback /\ playback - last <= elapsed

\* Every step keeps the bound on the drift.
LEMMA DriftStep ==
  ASSUME CursorInv, Drift, "fast" \notin Env, Next
  PROVE  Drift'
<1> USE SizesAssumption DEF flags, cursor, clock, memory, locals, queue, files,
        player, Drift, NoTime
<1>0. /\ last \in {-1} \cup 0 .. FileLength /\ playback \in 0 .. FileLength
      /\ elapsed \in {-1} \cup 0 .. FileLength
  BY DEF CursorInv, CursorTypes
<1>1. ASSUME UNCHANGED <<mode, elapsed, sought, media, last, playback>>
      PROVE  Drift'
  BY <1>1
<1>2. CASE Cleanup
  BY <1>2 DEF Cleanup
<1>3. ASSUME NEW next, StartTranscription(next), ~running, ~shutting
      PROVE  Drift'
  BY <1>3 DEF StartTranscription, CursorInv, Routine
<1>4. CASE Attach \/ HandleEvent
  <2>1. pc = "attach" => ~running /\ ~shutting
    BY DEF CursorInv, Routine
  <2> QED
    BY <1>1, <1>2, <1>3, <1>4, <2>1
    DEF Attach, HandleEvent, HandleToggle, HandleStartFile, HandleFileLoaded,
       HandlePlaybackRestart, HandleEndFile, HandleShutdown, HandleOther,
       HandleTimeout, FlagsOnly, Stop
<1>5. ASSUME NoSeek, AtCheck, UNCHANGED <<mode, media, playback>>
      PROVE  Drift'
  <2>1. mode # "none"
    BY <1>5 DEF AtCheck, CursorInv, Routine
  <2> QED
    BY <1>0, <1>5, <2>1 DEF NoSeek
<1>6. CASE SeekSeen
  <2>1. mode # "none"
    BY <1>6 DEF SeekSeen, AtCheck, CursorInv, Routine
  <2> QED
    BY <1>0, <1>6, <2>1 DEF SeekSeen
<1>7. CASE \/ TakeResults \/ LoopStops \/ LoopSkips \/ LoopExtracts
           \/ Recognised \/ MergeFails \/ MergeSilent \/ MergeSpeech
  BY <1>5, <1>7
  DEF TakeResults, LoopStops, LoopSkips, LoopExtracts, Recognised, MergeFails,
      MergeSilent, MergeSpeech, AtCheck
<1>8. CASE TickIdle \/ SaveResult \/ PlanNetwork
  BY <1>1, <1>8 DEF TickIdle, SaveResult, PlanNetwork
<1>9. CASE PlanLocal \/ RecognitionFails
  BY <1>1, <1>2, <1>9 DEF PlanLocal, RecognitionFails, Stop
<1>10. CASE Translator
  BY <1>1, <1>10 DEF Translator, Answer, GiveUp
<1>11. CASE Player
  BY <1>0, <1>11
  DEF Player, UnchangedPlugin, PlayFile, LoadFile, Play, Pause, Seek, EndFile,
      Toggle, Quit, Kill, Older
<1> QED
  BY <1>4, <1>6, <1>7, <1>8, <1>9, <1>10, <1>11 DEF Next, Plugin

\* A jump beyond the threshold and the time passed exceeds the bound.
LEMMA DriftSuffices ==
  ASSUME CursorInv, Drift
  PROVE  OnlySeeksAreSeeks
<1> USE SizesAssumption DEF OnlySeeksAreSeeks, CursorInv, CursorTypes, Drift,
        NoTime
<1>1. Threshold \in Nat /\ Threshold > 0
  BY DEF Threshold
<1>2. CASE AtCheck /\ IsSeek /\ ~sought /\ elapsed # NoTime
  <2>1. /\ last \in Nat /\ playback \in Nat /\ elapsed \in Nat
        /\ last <= playback /\ playback - last <= elapsed
    BY <1>2 DEF IsSeek, PositionKnown
  <2>2. AbsDiff(playback, last) = playback - last
    BY <2>1 DEF AbsDiff
  <2> QED
    BY <1>1, <1>2, <2>1, <2>2 DEF IsSeek
<1> QED
  BY <1>2

\* As long as mpv plays no faster than the clock goes, only the user makes
\* check_seek report a seek after the first reading of the position
\* (plugin.rs 688-705).
THEOREM SeeksAreReal ==
  ASSUME "fast" \notin Env
  PROVE  Spec => []OnlySeeksAreSeeks
<1>1. Init => Drift
  BY DEF Init, FreshPlugin, Drift
<1>2. CursorInv /\ Drift /\ [Next]_vars => Drift'
  <2>1. ASSUME CursorInv, Drift, UNCHANGED vars
        PROVE  Drift'
    BY <2>1 DEF vars, Drift
  <2> QED
    BY <2>1, DriftStep
<1> QED
  BY <1>1, <1>2, CursorCorrect, DriftSuffices, PTL DEF Spec
==============================================================================
