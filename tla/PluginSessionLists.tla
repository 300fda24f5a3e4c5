-------------------------- MODULE PluginSessionLists --------------------------
(***************************************************************************)
(* The plugin's list and what a restart makes of its file: chunks count as *)
(* processed when their speech has entries, unless a write that failed or  *)
(* was interrupted has lost them, and no entry waits for a translation     *)
(* nobody was asked for.                                                   *)
(***************************************************************************)
EXTENDS PluginSessionTypes

-----------------------------------------------------------------------------
(* The invariants                                                          *)

\* Only a plugin with a manifest has written one, and the chunks it tells of are
\* in the list or known to be lost.
ManifestIsTold ==
  \A f \in 1 .. Files : manifest[f] # Nil =>
    /\ KeepsManifest
    /\ manifest[f].processed \cap Speech \subseteq Listed(disk[f]) \cup lost[f]

\* Whatever a session's next save leaves out of the file is known to be lost.
FileIsInMemory ==
  mode # "none" => Listed(disk[source]) \subseteq Entries(subs) \cup lost[source]

\* Inductive together with SessionInv and NothingIsLeft.
HeardInv == ProcessedIsHeard /\ ManifestIsTold /\ FileIsInMemory

\* Only a session has entries, and the list on disk has every one of them.
ListIsSaved ==
  \A p \in Entries(subs) : mode # "none" /\ p \in Listed(disk[source])

\* Before the session there is no list.
NoListYet ==
  mode = "none" /\ ~shutting => \A f \in 1 .. Files : disk[f] = Nil

\* Results are at hand only while they are saved one by one.
BatchAtResults == batch # {} => pc = "results"

QueuedInv == PlainIsQueued /\ NoListYet /\ BatchAtResults

-----------------------------------------------------------------------------
(* What every step does to the lists                                       *)

\* Everything but start_transcription, cleanup, the results of the translator, the
\* merge, a seek and a kill leaves the lists and the files alone, and the queue
\* to the worker.
Quiet ==
  /\ UNCHANGED <<processed, subs, transCache, subsLoaded, files>>
  /\ UNCHANGED <<source, mode, shutting>>
  /\ batch' \in {batch, {}} /\ (pc = "results" => UNCHANGED <<pc, batch>>)
  /\ pc' # "results" \/ UNCHANGED pc
  /\ UNCHANGED <<inflight, answers>> \/ Translator

Begins ==
  /\ ~running /\ ~shutting /\ pc \in {"attach", "wait"}
  /\ \E next \in {"wait", "tick"} : StartTranscription(next)

Ends == Cleanup /\ batch' = {} /\ pc' # "results"

LEMMA HandlerKinds ==
  ASSUME SessionInv, Attach \/ HandleEvent
  PROVE  Quiet \/ Begins \/ Ends
<1> USE DEF flags, cursor, clock, memory, locals, queue, files, player
<1>0. pc \in {"attach", "wait"}
  BY DEF Attach, HandleEvent, Take, HandleToggle, HandleStartFile, HandleFileLoaded,
         HandlePlaybackRestart, HandleEndFile, HandleShutdown, HandleOther,
         HandleTimeout
<1>1. ASSUME NEW next \in {"wait", "tick"}, FlagsOnly(next) PROVE Quiet
  BY <1>0, <1>1 DEF FlagsOnly, Quiet
<1>2. ASSUME NEW next \in {"wait", "exited"}, Stop(next) PROVE Ends
  BY <1>2 DEF Stop, Ends, Return
<1>3. CASE Attach
  <2>1. ~running /\ ~shutting
    BY <1>3 DEF Attach, SessionInv, CursorInv, Routine
  <2>2. CASE StartTranscription("wait")
    BY <1>0, <2>1, <2>2 DEF Begins
  <2>3. CASE ~StartTranscription("wait")
    BY <1>3, <2>3 DEF Attach, Quiet
  <2> QED
    BY <2>2, <2>3
<1>4. CASE HandleToggle
  BY <1>0, <1>1, <1>2, <1>4 DEF HandleToggle, Begins
<1>5. CASE HandleStartFile \/ HandleOther \/ HandleTimeout
  BY <1>1, <1>5 DEF HandleStartFile, HandleOther, HandleTimeout
<1>6. CASE HandleFileLoaded \/ HandlePlaybackRestart
  BY <1>0, <1>1, <1>6 DEF HandleFileLoaded, HandlePlaybackRestart, Begins
<1>7. CASE HandleEndFile \/ HandleShutdown
  BY <1>1, <1>2, <1>7 DEF HandleEndFile, HandleShutdown
<1> QED
  BY <1>3, <1>4, <1>5, <1>6, <1>7 DEF HandleEvent

LEMMA Kinds ==
  ASSUME SessionInv, [Next]_vars
  PROVE  \/ Quiet \/ Begins \/ Ends
         \/ SeekSeen \/ TakeResults \/ SaveResult \/ MergeSilent \/ MergeSpeech
         \/ Kill
<1> USE DEF flags, cursor, clock, memory, locals, queue, files, player
<1>1. CASE UNCHANGED vars
  BY <1>1 DEF vars, Quiet
<1>2. CASE \/ TickIdle \/ PlanNetwork \/ LoopStops \/ LoopSkips \/ LoopExtracts
           \/ Recognised \/ MergeFails
  BY <1>2
  DEF TickIdle, PlanNetwork, LoopStops, LoopSkips, LoopExtracts, Recognised,
      MergeFails, NextIteration, LeaveChunk, Return, Quiet
<1>3. CASE PlanLocal \/ RecognitionFails
  BY <1>3 DEF PlanLocal, RecognitionFails, Stop, LeaveChunk, Return, Quiet, Ends
<1>4. CASE Translator
  BY <1>4 DEF Translator, Answer, GiveUp, Quiet
<1>5. CASE Player /\ ~Kill
  BY <1>5
  DEF Player, UnchangedPlugin, PlayFile, LoadFile, Play, Pause, Seek, EndFile,
      Toggle, Quit, Quiet
<1> QED
  BY <1>1, <1>2, <1>3, <1>4, <1>5, HandlerKinds DEF Next, Plugin, Player

\* What a start does to the lists (plugin.rs 288-411, 1118-1151).
LEMMA BeginFacts ==
  ASSUME SessionInv, Begins
  PROVE  /\ UNCHANGED <<disk, manifest, shutting>>
         /\ mode = "none" /\ pc \in {"attach", "wait"} /\ pc' # "results"
         /\ \/ UNCHANGED <<mode, source, processed, subs, lost>>
            \/ /\ file \in 1 .. Files /\ source' = file /\ mode' # "none"
               /\ Loaded(file) \/ NotLoaded(file)
<1>1. PICK next \in {"wait", "tick"} : StartTranscription(next)
  BY DEF Begins
<1>2. media # "none" => file \in 1 .. Files
  BY DEF SessionInv, CursorInv, Routine
<1>3. mode = "none" /\ pc \in {"attach", "wait"}
  BY DEF Begins, SessionInv, CursorInv, Routine
<1> QED
  BY <1>1, <1>2, <1>3 DEF StartTranscription, Return, PositionKnown, memory

\* The lists that are saved have their types.
LEMMA ListTypes ==
  ASSUME SessionInv
  PROVE  /\ \A A \in SUBSET Starts : /\ Translated(subs, A) \in Subs
                                     /\ Entries(Translated(subs, A)) = Entries(subs)
         /\ \A s \in Subs : Readable(s) /\ Listed(s) = Entries(s)
         /\ pc = "transcribed" =>
              /\ pos \in Starts /\ pos < FileLength /\ wav.start = pos /\ mode # "none"
              /\ source \in 1 .. Files /\ ~shutting
              /\ [subs EXCEPT ![pos] = "plain"] \in Subs
              /\ Entries([subs EXCEPT ![pos] = "plain"]) = Entries(subs) \cup {pos}
         /\ pc = "results" => mode # "none" /\ batch \in SUBSET Starts
<1>1. subs \in Subs
  BY DEF SessionInv, DataTypes
<1>2. ASSUME NEW A \in SUBSET Starts
      PROVE  /\ Translated(subs, A) \in Subs
             /\ Entries(Translated(subs, A)) = Entries(subs)
  BY <1>1 DEF Translated, Subs, Entries
<1>3. ASSUME pc = "transcribed"
      PROVE  /\ pos \in Starts /\ pos < FileLength /\ mode # "none"
             /\ source \in 1 .. Files /\ ~shutting
  BY <1>3, SizesAssumption
  DEF SessionInv, CursorInv, CursorTypes, Routine, Window, CursorOnGrid
<1>4. ASSUME pc = "transcribed" PROVE wav.start = pos
  BY <1>4 DEF SessionInv, CursorInv, AudioAtCursor
<1>5. ASSUME pc = "transcribed"
      PROVE  /\ [subs EXCEPT ![pos] = "plain"] \in Subs
             /\ Entries([subs EXCEPT ![pos] = "plain"]) = Entries(subs) \cup {pos}
  BY <1>1, <1>3, <1>5 DEF Subs, Entries
<1>6. \A s \in Subs : Readable(s) /\ Listed(s) = Entries(s)
  BY NilAssumption DEF Readable, Listed, Subs
<1>7. pc = "results" => mode # "none" /\ batch \in SUBSET Starts
  BY DEF SessionInv, CursorInv, Routine, DataTypes
<1> QED
  BY <1>2, <1>3, <1>4, <1>5, <1>6, <1>7

-----------------------------------------------------------------------------
(* One chunk at a time                                                     *)

\* Handlers run between two chunks; a start may take up the first one at once.
LEMMA HandlersWork ==
  ASSUME SessionInv, NothingIsLeft, Attach \/ HandleEvent
  PROVE  [Work!Next]_(Work!vars)
<1> USE DEF Work!Nothing, NoTime, flags, cursor, clock, memory, locals, queue, files,
        player
<1>1. pc \in {"attach", "wait"}
  BY DEF Attach, HandleEvent, Take, HandleToggle, HandleStartFile, HandleFileLoaded,
         HandlePlaybackRestart, HandleEndFile, HandleShutdown, HandleOther,
         HandleTimeout
<1>2. ASSUME NEW next \in {"wait", "tick"}, FlagsOnly(next)
      PROVE  [Work!Next]_(Work!vars)
  BY <1>1, <1>2 DEF FlagsOnly, Work!vars
<1>3. ASSUME NEW next \in {"wait", "exited"}, Stop(next)
      PROVE  [Work!Next]_(Work!vars)
  BY <1>3 DEF Stop, Cleanup, Return, Work!Next, Work!Close
<1>4. ASSUME NEW next \in {"wait", "tick"}, StartTranscription(next), mode = "none"
      PROVE  [Work!Next]_(Work!vars)
  <2>1. processed = {}
    BY <1>4 DEF NothingIsLeft
  <2>2. \/ pc' = next
        \/ pc' = "extracted" /\ wav'.start = pos' /\ pos' \notin processed'
    BY <1>4 DEF StartTranscription, Return
  <2> QED
    BY <1>1, <2>1, <2>2 DEF Work!Next, Work!Open
<1>5. CASE Attach
  <2>1. mode = "none"
    BY <1>5 DEF Attach, SessionInv, CursorInv, Routine
  <2>2. CASE StartTranscription("wait")
    BY <1>4, <2>1, <2>2
  <2>3. CASE ~StartTranscription("wait")
    BY <1>1, <1>5, <2>3 DEF Attach, Work!vars
  <2> QED
    BY <2>2, <2>3
<1>6. ~running /\ ~shutting => mode = "none"
  BY DEF SessionInv, CursorInv, Routine
<1>7. CASE HandleToggle \/ HandleFileLoaded \/ HandlePlaybackRestart
  BY <1>2, <1>3, <1>4, <1>6, <1>7
  DEF HandleToggle, HandleFileLoaded, HandlePlaybackRestart
<1>8. CASE HandleStartFile \/ HandleOther \/ HandleTimeout
  BY <1>2, <1>8 DEF HandleStartFile, HandleOther, HandleTimeout
<1>9. CASE HandleEndFile \/ HandleShutdown
  BY <1>2, <1>3, <1>9 DEF HandleEndFile, HandleShutdown
<1> QED
  BY <1>5, <1>7, <1>8, <1>9 DEF HandleEvent

\* A chunk is at hand from its extraction to its merge.
LEMMA TicksWork ==
  ASSUME SessionInv, Plugin, ~Attach, ~HandleEvent
  PROVE  [Work!Next]_(Work!vars)
<1> USE DEF Work!Nothing, NoTime, flags, cursor, clock, memory, locals, queue, files,
        player
<1>1. /\ pos \in Nat /\ ChunkDur \in Nat
      /\ pc \in {"extracted", "transcribed"} => wav.start = pos
  BY SizesAssumption
  DEF SessionInv, CursorInv, CursorTypes, AudioAtCursor, ChunkDur
<1>2. CASE TickIdle \/ TakeResults \/ SaveResult \/ PlanNetwork \/ LoopStops \/ LoopSkips
  <2>1. /\ pc \notin {"extracted", "transcribed"} /\ processed' = processed
        /\ pc' \notin {"extracted", "transcribed"}
    BY <1>2
    DEF TickIdle, TakeResults, SaveResult, PlanNetwork, LoopStops, LoopSkips,
        NextIteration, Return
  <2> QED
    BY <2>1 DEF Work!Next, Work!Move
<1>3. CASE PlanLocal \/ RecognitionFails
  <2>1. ASSUME Cleanup, pc' \in {"wait", "tick"} PROVE [Work!Next]_(Work!vars)
    BY <2>1 DEF Cleanup, Work!Next, Work!Close
  <2>2. CASE pc = "plan" /\ pc' = "loop" /\ processed' = processed
    BY <2>2 DEF Work!Next, Work!Move
  <2> QED
    BY <1>3, <2>1, <2>2 DEF PlanLocal, RecognitionFails, Stop, LeaveChunk, Return
<1>4. CASE LoopExtracts
  BY <1>4 DEF LoopExtracts, Return, Work!Next, Work!Begin, Work!Move
<1>5. CASE Recognised
  BY <1>5 DEF Recognised, Work!vars
<1>6. CASE SeekSeen \/ MergeFails
  BY <1>1, <1>6
  DEF SeekSeen, MergeFails, AtCheck, LeaveChunk, Return,
      Work!Next, Work!Move, Work!Leave
<1>7. ASSUME ChunkDone
      PROVE  pc' \notin {"extracted", "transcribed"} /\ pos' >= pos
  <2>1. ret \in {"wait", "tick", "loop"}
    BY DEF SessionInv, CursorInv, CursorTypes
  <2> QED
    BY <1>1, <1>7, <2>1 DEF ChunkDone, NextIteration, Return
<1>8. ASSUME pc = "transcribed", processed' = processed \cup {pos},
             pc' \notin {"extracted", "transcribed"}, pos' >= pos
      PROVE  [Work!Next]_(Work!vars)
  <2>1. wav.start = pos /\ pos # -1
    BY <1>1, <1>8
  <2> QED
    BY <1>8, <2>1 DEF Work!Next, Work!Finish
<1>9. CASE MergeSilent
  BY <1>7, <1>8, <1>9 DEF MergeSilent
<1>10. CASE MergeSpeech
  <2>1. CASE ChunkDone
    BY <1>7, <1>8, <1>10, <2>1 DEF MergeSpeech
  <2>2. CASE LeaveChunk /\ UNCHANGED pos
    BY <1>1, <1>8, <1>10, <2>2 DEF MergeSpeech, LeaveChunk, Return
  <2> QED
    BY <1>10, <2>1, <2>2 DEF MergeSpeech
<1> QED
  BY <1>2, <1>3, <1>4, <1>5, <1>6, <1>9, <1>10 DEF Plugin

\* PluginSession implements ChunkRoutine: whatever seeks, failures and kills come
\* in between, the chunk at hand is the one that is marked or left (plugin.rs
\* 588-657, 797-908).
THEOREM SessionWorksByChunks == Spec => WorksByChunks
<1>1. Init => Work!Init
  BY DEF Init, FreshPlugin, Work!Init, Work!Nothing, NoTime
<1>3. SessionInv /\ NothingIsLeft /\ [Next]_vars => [Work!Next]_(Work!vars)
  <2> SUFFICES ASSUME SessionInv, NothingIsLeft, [Next]_vars
               PROVE  [Work!Next]_(Work!vars)
    OBVIOUS
  <2>1. CASE Plugin
    BY <2>1, HandlersWork, TicksWork
  <2>2. CASE Translator \/ (Player /\ ~Kill)
    BY <2>2
    DEF Translator, Answer, GiveUp, Player, UnchangedPlugin, PlayFile, LoadFile, Play,
        Pause, Seek, EndFile, Toggle, Quit, cursor, memory, locals, Work!vars
  <2>3. CASE Kill
    BY <2>3 DEF Kill, Return, Work!Next, Work!Close, Work!Nothing, NoTime
  <2>4. CASE UNCHANGED vars
    BY <2>4 DEF vars, Work!vars
  <2> QED
    BY <2>1, <2>2, <2>3, <2>4 DEF Next, Player
<1> QED
  BY <1>1, <1>3, SessionCorrect, SessionsLeaveNothing, PTL
  DEF Spec, WorksByChunks, Work!Spec

-----------------------------------------------------------------------------
(* What counts as processed                                                *)

\* A save, whether it succeeds, fails or is interrupted, of a list s that has all
\* the entries of the list in memory and the speech of the chunks `done` keeps the
\* file and the manifest in step (plugin.rs 991-1001).
LEMMA SaveKeepsTold ==
  ASSUME SessionInv, HeardInv, mode # "none", NEW s \in Subs,
         NEW done \in SUBSET Starts, NEW cache \in SUBSET Starts,
         SaveSubs(s, done, cache) \/ SaveFails(s) \/ DiesSaving(s),
         Entries(subs) \subseteq Entries(s),
         done \cap Speech \subseteq Entries(s) \cup lost[source]
  PROVE  /\ ManifestIsTold'
         /\ Listed(disk'[source]) \subseteq Entries(s) \cup lost'[source]
         /\ lost[source] \subseteq Entries(s) \cup lost'[source]
<1>1. /\ source \in 1 .. Files
      /\ \A f \in 1 .. Files : manifest[f] # Nil =>
           /\ KeepsManifest
           /\ manifest[f].processed \cap Speech \subseteq Listed(disk[f]) \cup lost[f]
      /\ Listed(disk[source]) \subseteq Entries(subs) \cup lost[source]
  BY DEF HeardInv, ManifestIsTold, FileIsInMemory, SessionInv, CursorInv, Routine
<1>2. CASE UNCHANGED <<disk, lost, manifest>>
  BY <1>1, <1>2 DEF ManifestIsTold, Listed, Readable, Entries, KeepsManifest
<1>3. CASE \E d \in {Unreadable} \cup Subs :
              Listed(d) \subseteq Entries(s) /\ WritesList(s, d)
  <2>1. PICK d \in {Unreadable} \cup Subs :
               Listed(d) \subseteq Entries(s) /\ WritesList(s, d)
    BY <1>3
  <2>2. /\ disk'[source] = d /\ lost'[source] = (lost[source] \cup Entries(s)) \ Listed(d)
        /\ \A f \in 1 .. Files : f # source => disk'[f] = disk[f] /\ lost'[f] = lost[f]
    BY <1>1, <2>1, ListWritten
  <2>3. /\ Listed(disk'[source]) = Listed(d)
        /\ lost[source] \cup Entries(s) \subseteq Listed(d) \cup lost'[source]
    BY <2>2
  <2>4. manifest \in [1 .. Files -> {Nil} \cup Manifests]
    BY DEF SessionInv, DataTypes, Manifests
  <2>5. /\ \A f \in 1 .. Files : f # source => manifest'[f] = manifest[f]
        /\ \/ manifest'[source] = manifest[source] \/ manifest'[source] = Nil
           \/ manifest'[source].processed = done
        /\ ~UNCHANGED manifest => KeepsManifest
    <3>1. /\ \/ UNCHANGED manifest \/ TearsManifest
             \/ WritesManifest(done, cache)
          /\ ~UNCHANGED manifest => KeepsManifest
      BY SaveFacts
    <3>2. CASE UNCHANGED manifest
      BY <3>2
    <3>3. CASE TearsManifest
      BY <1>1, <2>4, <3>1, <3>3 DEF TearsManifest
    <3>4. CASE WritesManifest(done, cache)
      BY <1>1, <2>4, <3>1, <3>4 DEF WritesManifest
    <3> QED
      BY <3>1, <3>2, <3>3, <3>4
  <2>6. ASSUME NEW f \in 1 .. Files, manifest'[f] # Nil
        PROVE  /\ KeepsManifest
               /\ manifest'[f].processed \cap Speech
                    \subseteq Listed(disk'[f]) \cup lost'[f]
    <3>1. CASE f # source
      BY <1>1, <2>2, <2>5, <2>6, <3>1
    <3>2. CASE f = source
      BY <1>1, <2>3, <2>5, <2>6, <3>2
    <3> QED
      BY <3>1, <3>2
  <2>7. ManifestIsTold'
    BY <2>6 DEF ManifestIsTold, Listed, Readable, Entries, KeepsManifest
  <2> QED
    BY <2>1, <2>2, <2>3, <2>7
<1> QED
  BY <1>2, <1>3, SaveFacts

\* The list in memory is s afterwards.
LEMMA HeardSave ==
  ASSUME SessionInv, HeardInv, mode # "none", UNCHANGED <<mode, source>>,
         subs' \in Subs, processed' \in SUBSET Starts, NEW cache \in SUBSET Starts,
         SaveSubs(subs', processed', cache) \/ SaveFails(subs'),
         Entries(subs) \subseteq Entries(subs'), Entries(subs') \subseteq processed',
         processed' \cap Speech \subseteq Entries(subs') \cup lost[source]
  PROVE  HeardInv'
<1>1. /\ ManifestIsTold'
      /\ Listed(disk'[source]) \subseteq Entries(subs') \cup lost'[source]
      /\ lost[source] \subseteq Entries(subs') \cup lost'[source]
  BY SaveKeepsTold
<1>2. processed' \cap Speech \subseteq Entries(subs') \cup lost'[source']
  BY <1>1
<1> QED
  BY <1>1, <1>2
  DEF HeardInv, ProcessedIsHeard, ManifestIsTold, FileIsInMemory, Entries, Listed,
      Readable

\* The files stay, and the list in memory loses nothing.
LEMMA HeardKept ==
  ASSUME HeardInv, UNCHANGED <<mode, source, disk, manifest, lost>>,
         Entries(subs) \subseteq Entries(subs'), Entries(subs') \subseteq processed',
         processed' \cap Speech \subseteq Entries(subs') \cup lost[source]
  PROVE  HeardInv'
  BY DEF HeardInv, ProcessedIsHeard, ManifestIsTold, FileIsInMemory, Entries, Listed,
         Readable, KeepsManifest

\* Chunks that are processed keep their entries when the list is only changed.
LEMMA HeardMemory ==
  ASSUME SessionInv, HeardInv
  PROVE  /\ processed \in SUBSET Starts /\ transCache \in SUBSET Starts
         /\ Entries(subs) \subseteq processed
         /\ processed \cap Speech \subseteq Entries(subs) \cup lost[source]
<1>1. processed \in SUBSET Starts /\ transCache \in SUBSET Starts
  BY DEF SessionInv, DataTypes
<1> QED
  BY <1>1 DEF HeardInv, ProcessedIsHeard, Entries

\* The list in memory is emptied, and with it the temporary directory.
LEMMA HeardEmpty ==
  ASSUME HeardInv, mode' = "none", subs' = NoSubs, processed' = {}, TempFilesGone
  PROVE  HeardInv'
<1>1. \A f \in 1 .. Files : manifest[f] # Nil => disk' = disk
  BY DEF HeardInv, ManifestIsTold, KeepsManifest, TempFilesGone
<1>2. Entries(NoSubs) = {}
  BY DEF Entries, NoSubs
<1> QED
  BY <1>1, <1>2
  DEF HeardInv, ProcessedIsHeard, ManifestIsTold, FileIsInMemory, TempFilesGone,
      Entries, Listed, Readable, KeepsManifest

\* The process dies between two steps or in a save (plugin.rs 991-1001).
LEMMA HeardKill ==
  ASSUME SessionInv, HeardInv, Kill
  PROVE  HeardInv'
<1>1. CASE TempFilesGone
  BY <1>1, HeardEmpty DEF Kill
<1>2. ASSUME NEW s \in BeingSaved, DiesSaving(s)
      PROVE  HeardInv'
  <2>1. mode # "none" /\ s \in Subs /\ Entries(subs) \subseteq Entries(s)
    <3>1. CASE pc = "transcribed"
      BY <1>2, <3>1, ListTypes DEF BeingSaved
    <3>2. CASE pc = "results"
      BY <1>2, <3>2, ListTypes DEF BeingSaved
    <3> QED
      BY <1>2, <3>1, <3>2 DEF BeingSaved
  <2>2. /\ processed \in SUBSET Starts /\ transCache \in SUBSET Starts
        /\ processed \cap Speech \subseteq Entries(s) \cup lost[source]
    BY <2>1, HeardMemory
  <2>3. ManifestIsTold'
    BY <1>2, <2>1, <2>2, SaveKeepsTold
  <2>4. /\ mode' = "none" /\ processed' = {} /\ Entries(subs)' = {}
    BY DEF Kill, Entries, NoSubs
  <2> QED
    BY <2>3, <2>4 DEF HeardInv, ProcessedIsHeard, ManifestIsTold, FileIsInMemory
<1> QED
  BY <1>1, <1>2 DEF Kill

\* A session begins with the chunks its file and its manifest tell of; a list that
\* is there but not read is lost (plugin.rs 1119-1151).
LEMMA HeardBegin ==
  ASSUME SessionInv, NothingIsLeft, HeardInv, Begins
  PROVE  HeardInv'
<1>1. /\ Entries(subs) = {} /\ processed = {}
      /\ UNCHANGED <<disk, manifest>>
  BY BeginFacts DEF NothingIsLeft, Entries, NoSubs
<1>2. CASE UNCHANGED <<mode, source, processed, subs, lost>>
  <2>1. Entries(subs') = Entries(subs)
    BY <1>2 DEF Entries
  <2> QED
    BY <1>1, <1>2, <2>1, HeardKept
<1>3. ASSUME file \in 1 .. Files, source' = file,
             \A f \in 1 .. Files : lost[f] \subseteq lost'[f],
             Entries(subs') \subseteq processed',
             processed' \cap Speech \subseteq Entries(subs') \cup lost'[file],
             Listed(disk[file]) \subseteq Entries(subs') \cup lost'[file]
      PROVE  HeardInv'
  <2>1. ManifestIsTold'
    <3>1. \A f \in 1 .. Files : manifest'[f] # Nil =>
            /\ KeepsManifest
            /\ manifest'[f].processed \cap Speech \subseteq Listed(disk'[f]) \cup lost'[f]
      BY <1>1, <1>3 DEF HeardInv, ManifestIsTold
    <3> QED
      BY <3>1 DEF ManifestIsTold, Listed, Readable, Entries, KeepsManifest
  <2>2. Listed(disk'[source']) \subseteq Entries(subs') \cup lost'[source']
    BY <1>1, <1>3
  <2> QED
    BY <1>3, <2>1, <2>2
    DEF HeardInv, ProcessedIsHeard, ManifestIsTold, FileIsInMemory, Entries, Listed,
        Readable
<1>4. CASE file \in 1 .. Files /\ source' = file /\ Loaded(file)
  <2>1. /\ subs' = disk[file] /\ lost' = lost /\ Readable(disk[file])
        /\ \/ processed' = Entries(disk[file])
           \/ /\ manifest[file] # Nil
              /\ processed' = Entries(disk[file]) \cup manifest[file].processed
    BY <1>4 DEF Loaded
  <2>2. Entries(subs') = Entries(disk[file]) /\ Listed(disk[file]) = Entries(disk[file])
    BY <2>1 DEF Listed
  <2>3. processed' \cap Speech \subseteq Entries(subs') \cup lost'[file]
    BY <1>4, <2>1, <2>2 DEF HeardInv, ManifestIsTold
  <2> QED
    BY <1>3, <1>4, <2>1, <2>2, <2>3
<1>5. CASE file \in 1 .. Files /\ source' = file /\ NotLoaded(file)
  <2>1. lost \in [1 .. Files -> SUBSET Starts]
    BY DEF SessionInv, DataTypes
  <2>2. /\ \A f \in 1 .. Files : lost[f] \subseteq lost'[f]
        /\ Listed(disk[file]) \subseteq lost'[file]
        /\ processed' = {} /\ Entries(subs') = {}
    BY <1>1, <1>5, <2>1 DEF NotLoaded, memory, Entries
  <2> QED
    BY <1>3, <1>5, <2>2
<1> QED
  BY <1>2, <1>4, <1>5, BeginFacts

LEMMA HeardStep ==
  ASSUME SessionInv, NothingIsLeft, HeardInv, [Next]_vars
  PROVE  HeardInv'
<1>0. /\ Entries(subs) \subseteq processed
      /\ processed \cap Speech \subseteq Entries(subs) \cup lost[source]
      /\ processed \in SUBSET Starts /\ transCache \in SUBSET Starts
  BY HeardMemory
<1>1. ASSUME UNCHANGED <<mode, source, files, processed>>,
             Entries(subs') = Entries(subs)
      PROVE  HeardInv'
  BY <1>0, <1>1, HeardKept DEF files
<1>2. CASE Quiet \/ TakeResults
  <2>1. UNCHANGED <<mode, source, files, subs, processed>>
    BY <1>2 DEF Quiet, TakeResults, cursor, memory
  <2>2. Entries(subs') = Entries(subs)
    BY <2>1 DEF Entries
  <2> QED
    BY <1>1, <2>1, <2>2
<1>3. CASE Ends
  BY <1>3, HeardEmpty DEF Ends, Cleanup
<1>4. CASE SeekSeen
  <2>1. UNCHANGED <<mode, source, files, processed>>
    BY <1>4 DEF SeekSeen
  <2>2. Entries(subs') = Entries(subs)
    BY <1>4 DEF SeekSeen, Entries, SessionInv, DataTypes, Subs
  <2> QED
    BY <1>1, <2>1, <2>2
<1>5. CASE SaveResult
  <2>1. PICK t \in batch : subs' = Translated(subs, {t}) /\ transCache' = transCache \cup {t}
    BY <1>5 DEF SaveResult
  <2>2. /\ pc = "results" /\ UNCHANGED <<mode, source, processed>>
        /\ SaveSubs(subs', processed', transCache') \/ SaveFails(subs')
    BY <1>5 DEF SaveResult, cursor
  <2>3. /\ mode # "none" /\ subs' \in Subs /\ Entries(subs') = Entries(subs)
        /\ transCache' \in SUBSET Starts
    BY <1>0, <2>1, <2>2, ListTypes
  <2> QED
    BY <1>0, <2>2, <2>3, HeardSave
<1>6. CASE MergeSilent
  <2>1. /\ processed' = processed \cup {wav.start} /\ wav.start \notin Speech
        /\ UNCHANGED <<mode, source, subs, disk, manifest, lost>>
    BY <1>6, ListTypes DEF MergeSilent, files
  <2>2. Entries(subs') = Entries(subs)
    BY <2>1 DEF Entries
  <2> QED
    BY <1>0, <2>1, <2>2, HeardKept
<1>7. CASE MergeSpeech
  <2>1. /\ pc = "transcribed" /\ UNCHANGED <<mode, source>>
        /\ processed' = processed \cup {pos} /\ subs' = [subs EXCEPT ![pos] = "plain"]
        /\ SaveSubs(subs', processed', transCache) \/ SaveFails(subs')
    BY <1>7 DEF MergeSpeech
  <2>2. /\ mode # "none" /\ pos \in Starts
        /\ subs' \in Subs /\ Entries(subs') = Entries(subs) \cup {pos}
    BY <2>1, ListTypes
  <2> QED
    BY <1>0, <2>1, <2>2, HeardSave
<1> QED
  BY <1>2, <1>3, <1>4, <1>5, <1>6, <1>7, HeardBegin, HeardKill, Kinds

\* Whatever fails or dies, in a write or between two, chunks count as processed when
\* their speech has entries, in memory and after a restart; the exceptions are the
\* entries that such a write has cut off (plugin.rs 864, 882-883, 991-1001,
\* 1140-1151).
THEOREM ProcessedChunksAreHeard == Spec => []ProcessedIsHeard
<1>1. Init => HeardInv
  BY DEF Init, FreshPlugin, HeardInv, ProcessedIsHeard, ManifestIsTold,
     FileIsInMemory, Entries, NoSubs
<1>2. SessionInv /\ NothingIsLeft /\ HeardInv /\ [Next]_vars => HeardInv'
  BY HeardStep
<1>3. HeardInv => ProcessedIsHeard
  BY DEF HeardInv
<1> QED
  BY <1>1, <1>2, <1>3, SessionCorrect, SessionsLeaveNothing, PTL DEF Spec

-----------------------------------------------------------------------------
(* What a process that dies would leave                                    *)

LEMMA SavedStep ==
  ASSUME SessionInv, NothingIsLeft, ListIsSaved, "saveError" \notin Env, [Next]_vars
  PROVE  ListIsSaved'
<1>1. ASSUME subs' = NoSubs
      PROVE  ListIsSaved'
  BY <1>1 DEF ListIsSaved, Entries, NoSubs
<1>2. ASSUME mode # "none", UNCHANGED <<mode, source>>, subs' \in Subs, NEW done,
             NEW cache, SaveSubs(subs', done, cache)
      PROVE  ListIsSaved'
  <2>1. source \in 1 .. Files /\ WritesList(subs', subs')
    BY <1>2 DEF SaveSubs, SessionInv, CursorInv, Routine
  <2>2. disk'[source'] = subs'
    BY <1>2, <2>1, ListWritten
  <2>3. Readable(subs')
    BY <1>2, ListTypes
  <2> QED
    BY <1>2, <2>2, <2>3 DEF ListIsSaved, Entries, Listed, Readable
<1>3. ASSUME UNCHANGED <<mode, source, disk>>, Entries(subs') = Entries(subs)
      PROVE  ListIsSaved'
  BY <1>3 DEF ListIsSaved, Listed, Readable, Entries
<1>4. CASE Quiet \/ TakeResults \/ MergeSilent
  <2>1. UNCHANGED <<mode, source, disk, subs>>
    BY <1>4 DEF Quiet, TakeResults, MergeSilent, files, cursor, memory
  <2> QED
    BY <1>3, <2>1 DEF Entries
<1>5. CASE Begins
  <2>1. Entries(subs) = {} /\ UNCHANGED disk
    BY <1>5, BeginFacts DEF NothingIsLeft, Entries, NoSubs
  <2>2. CASE subs' = subs
    BY <2>1, <2>2 DEF ListIsSaved, Entries
  <2>3. CASE mode' # "none" /\ source' = file /\ Loaded(file)
    BY <2>1, <2>3 DEF Loaded, ListIsSaved, Listed, Readable, Entries
  <2> QED
    BY <1>5, <2>2, <2>3, BeginFacts DEF NotLoaded, memory
<1>6. CASE Ends \/ Kill
  BY <1>1, <1>6 DEF Ends, Cleanup, Kill
<1>7. CASE SeekSeen
  <2>1. UNCHANGED <<mode, source, disk>>
    BY <1>7 DEF SeekSeen, files
  <2>2. Entries(subs') = Entries(subs)
    BY <1>7 DEF SeekSeen, Entries, SessionInv, DataTypes, Subs
  <2> QED
    BY <1>3, <2>1, <2>2
<1>8. CASE SaveResult
  <2>1. PICK t \in batch : subs' = Translated(subs, {t})
    BY <1>8 DEF SaveResult
  <2>2. /\ pc = "results" /\ UNCHANGED <<mode, source>>
        /\ SaveSubs(subs', processed, transCache')
    BY <1>8 DEF SaveResult, cursor
  <2>3. mode # "none" /\ subs' \in Subs
    BY <2>1, <2>2, ListTypes
  <2> QED
    BY <1>2, <2>2, <2>3
<1>9. CASE MergeSpeech
  <2>1. /\ pc = "transcribed" /\ UNCHANGED <<mode, source>>
        /\ subs' = [subs EXCEPT ![pos] = "plain"]
        /\ SaveSubs(subs', processed', transCache)
    BY <1>9 DEF MergeSpeech
  <2>2. mode # "none" /\ subs' \in Subs
    BY <2>1, ListTypes
  <2> QED
    BY <1>2, <2>1, <2>2
<1> QED
  BY <1>4, <1>5, <1>6, <1>7, <1>8, <1>9, Kinds

\* Unless a save fails, what counts as processed is on disk between any two steps,
\* also in a process that follows one that died while it wrote, except for what
\* that write has cut off although the manifest tells of it (plugin.rs 870-908,
\* 962-1001).
THEOREM ProcessedChunksAreSaved ==
  ASSUME "saveError" \notin Env
  PROVE  Spec => []ProcessedIsSaved
<1>1. Init => ListIsSaved
  BY DEF Init, FreshPlugin, ListIsSaved, Entries, NoSubs
<1>2. SessionInv /\ NothingIsLeft /\ ListIsSaved /\ [Next]_vars => ListIsSaved'
  BY SavedStep
<1>3. SessionInv /\ ProcessedIsHeard /\ ListIsSaved => ProcessedIsSaved
  BY DEF ProcessedIsHeard, ListIsSaved, ProcessedIsSaved, Entries, SessionInv,
     DataTypes
<1> QED
  BY <1>1, <1>2, <1>3, ProcessedChunksAreHeard, SessionCorrect, SessionsLeaveNothing,
     PTL DEF Spec

-----------------------------------------------------------------------------
(* Translations                                                            *)

\* No jump is long enough for check_seek.
LEMMA NoJump ==
  ASSUME SessionInv, MinJump > FileLength
  PROVE  ~SeekSeen
<1>1. /\ playback \in 0 .. FileLength /\ last \in {NoTime} \cup 0 .. FileLength
      /\ FileLength \in Nat /\ MinJump \in Nat /\ Chunk \in Nat
  BY SizesAssumption DEF SessionInv, CursorInv, CursorTypes
<1> SUFFICES ASSUME last \in 0 .. FileLength, AbsDiff(playback, last) >= Threshold
             PROVE  FALSE
  BY <1>1 DEF SeekSeen, IsSeek
<1>2. AbsDiff(playback, last) <= FileLength
  BY <1>1 DEF AbsDiff
<1>3. Threshold >= MinJump
  BY <1>1 DEF Threshold
<1> QED
  BY <1>1, <1>2, <1>3 DEF AbsDiff, Threshold

LEMMA BatchStep ==
  ASSUME SessionInv, BatchAtResults, [Next]_vars
  PROVE  BatchAtResults'
<1>1. CASE Quiet
  BY <1>1 DEF Quiet, BatchAtResults
<1>2. CASE Begins
  <2>1. batch = {} /\ batch' \in {batch, {}}
    BY <1>2, BeginFacts DEF Begins, StartTranscription, Return, BatchAtResults
  <2> QED
    BY <2>1 DEF BatchAtResults
<1>3. CASE Ends \/ Kill
  BY <1>3 DEF Ends, Kill, Return, BatchAtResults
<1>4. CASE TakeResults \/ SaveResult
  BY <1>4 DEF TakeResults, SaveResult, BatchAtResults
<1>5. CASE SeekSeen \/ MergeSilent \/ MergeSpeech
  BY <1>5
  DEF SeekSeen, MergeSilent, MergeSpeech, AtCheck, ChunkDone, NextIteration,
      LeaveChunk, Return, BatchAtResults
<1> QED
  BY <1>1, <1>2, <1>3, <1>4, <1>5, Kinds

LEMMA QueuedStep ==
  ASSUME SessionInv, QueuedInv, MinJump > FileLength,
         Env \cap {"kill", "saveError", "giveUp"} = {}, [Next]_vars
  PROVE  PlainIsQueued' /\ NoListYet'
<1> USE DEF flags, cursor, clock, memory, locals, queue, files, player
<1>1. "kill" \notin Env /\ "saveError" \notin Env /\ "giveUp" \notin Env
  OBVIOUS
<1>2. ~SeekSeen /\ ~Kill
  BY <1>1, NoJump DEF Kill
<1>3. CASE Ends
  BY <1>3 DEF Ends, Cleanup, TempFilesGone, PlainIsQueued, NoListYet, NoSubs
<1>4. CASE Begins
  <2>1. mode = "none" /\ ~shutting /\ batch = {}
    BY <1>4, BeginFacts DEF Begins, QueuedInv, BatchAtResults
  <2>2. UNCHANGED <<disk, shutting, inflight, answers>>
    BY <1>4 DEF Begins, StartTranscription
  <2>3. file \in 1 .. Files => ~Loaded(file)
    BY <2>1 DEF QueuedInv, NoListYet, Loaded, Readable
  <2>4. subs' = subs
    BY <1>4, <2>3, BeginFacts DEF NotLoaded
  <2> QED
    BY <2>1, <2>2, <2>4 DEF QueuedInv, PlainIsQueued, NoListYet
<1>5. CASE TakeResults
  <2>1. /\ mode # "none" /\ UNCHANGED <<mode, inflight, subs>>
        /\ batch' = answers /\ batch = {}
    BY <1>5 DEF TakeResults, AtCheck, QueuedInv, BatchAtResults
  <2> QED
    BY <2>1 DEF QueuedInv, PlainIsQueued, NoListYet
<1>6. CASE SaveResult
  <2>1. PICK t \in batch : subs' = Translated(subs, {t}) /\ batch' = batch \ {t}
    BY <1>6 DEF SaveResult
  <2>2. mode # "none" /\ mode' = mode /\ UNCHANGED <<inflight, answers>>
    BY <1>6, ListTypes DEF SaveResult
  <2>3. \A p \in Starts : subs'[p] = "plain" => subs[p] = "plain" /\ p # t
    BY <2>1 DEF Translated
  <2> QED
    BY <2>1, <2>2, <2>3 DEF QueuedInv, PlainIsQueued, NoListYet
<1>7. CASE MergeSpeech
  <2>1. /\ inflight' = inflight \cup {pos} /\ subs' = [subs EXCEPT ![pos] = "plain"]
        /\ UNCHANGED <<answers, mode>> /\ batch = {}
    BY <1>1, <1>7 DEF MergeSpeech, QueuedInv, BatchAtResults
  <2>2. subs \in Subs /\ mode # "none"
    BY <1>7, ListTypes DEF MergeSpeech, SessionInv, DataTypes
  <2>3. \A p \in Starts : subs'[p] = "plain" => subs[p] = "plain" \/ p = pos
    BY <2>1, <2>2 DEF Subs
  <2> QED
    BY <2>1, <2>2, <2>3 DEF QueuedInv, PlainIsQueued, NoListYet
<1>8. CASE MergeSilent
  <2>1. batch = {}
    BY <1>8 DEF MergeSilent, QueuedInv, BatchAtResults
  <2> QED
    BY <1>8, <2>1, ListTypes DEF MergeSilent, QueuedInv, PlainIsQueued, NoListYet
<1>9. CASE Quiet
  <2>1. \A p \in inflight \cup answers : p \in inflight' \cup answers'
    <3>1. UNCHANGED <<inflight, answers>> \/ Translator
      BY <1>9 DEF Quiet
    <3>2. ASSUME NEW t \in Starts, Answer(t)
          PROVE  \A p \in inflight \cup answers : p \in inflight' \cup answers'
      BY <3>2 DEF Answer
    <3>3. \A t \in Starts : ~GiveUp(t)
      BY <1>1 DEF GiveUp
    <3> QED
      BY <3>1, <3>2, <3>3 DEF Translator
  <2>2. UNCHANGED <<subs, disk, mode, shutting>> /\ batch \subseteq batch'
    BY <1>9 DEF Quiet, QueuedInv, BatchAtResults
  <2> QED
    BY <2>1, <2>2 DEF QueuedInv, PlainIsQueued, NoListYet
<1> QED
  BY <1>2, <1>3, <1>4, <1>5, <1>6, <1>7, <1>8, <1>9, Kinds

\* Where no jump is a seek, nothing is killed, every save succeeds and the translator
\* never gives up, an entry without its translation is still asked for
\* (plugin.rs 909-921, 962-984).
THEOREM PlainStaysQueued ==
  ASSUME MinJump > FileLength, Env \cap {"kill", "saveError", "giveUp"} = {}
  PROVE  Spec => []PlainIsQueued
<1>1. Init => QueuedInv
  BY DEF Init, FreshPlugin, QueuedInv, PlainIsQueued, NoListYet, NoSubs,
     BatchAtResults
<1>2. SessionInv /\ QueuedInv /\ [Next]_vars => QueuedInv'
  BY QueuedStep, BatchStep DEF QueuedInv
<1>3. QueuedInv => PlainIsQueued
  BY DEF QueuedInv
<1> QED
  BY <1>1, <1>2, <1>3, SessionCorrect, PTL DEF Spec
===============================================================================
