------------------------- MODULE PluginSessionTypes -------------------------
(***************************************************************************)
(* Type correctness of the plugin thread, and the proof that it uses the   *)
(* translation queue as the abstract TranslationService: the half of the   *)
(* composition which TranslationQueue answers from the other side.         *)
(***************************************************************************)
EXTENDS PluginSessionProofs

-----------------------------------------------------------------------------
(* The subtitle lists and the files.                                       *)

SessionInv == CursorInv /\ DataTypes

Manifests == [processed : SUBSET Starts, translations : SUBSET Starts]

\* The data of a fresh plugin have their types.
LEMMA DataInit == Init => DataTypes
  BY DEF Init, FreshPlugin, DataTypes, Subs, NoSubs

\* What is left of a list that is cut off has some of its entries, or none.
LEMMA TornFacts ==
  ASSUME NEW s \in Subs, NEW d \in Torn(s)
  PROVE  /\ d \in {Unreadable} \cup Subs /\ d # Nil
         /\ Listed(d) \subseteq Entries(s)
<1>1. CASE d = Unreadable
  BY <1>1, NilAssumption DEF Listed, Readable
<1>2. ASSUME NEW c \in Starts, NEW e \in {"none", "plain"}, d = CutAt(s, c, e),
             e = "plain" => c \in Entries(s)
      PROVE  d \in Subs /\ Entries(d) \subseteq Entries(s)
  BY <1>2 DEF CutAt, Subs, Entries
<1>3. CASE \E c \in Starts : d = CutAt(s, c, "none")
  BY <1>2, <1>3, NilAssumption DEF Subs, Listed
<1>4. CASE \E c \in Entries(s) : d = CutAt(s, c, "plain")
  BY <1>2, <1>4, NilAssumption DEF Subs, Listed, Entries
<1> QED
  BY <1>1, <1>3, <1>4 DEF Torn

\* A write of a list, whole or torn, keeps the types.
LEMMA ListWritten ==
  ASSUME SessionInv, source \in 1 .. Files, NEW s \in Subs,
         NEW d \in {Unreadable} \cup Subs, WritesList(s, d)
  PROVE  /\ disk' \in [1 .. Files -> {Nil, Unreadable} \cup Subs]
         /\ disk'[source] = d
         /\ \A f \in 1 .. Files : f # source => disk'[f] = disk[f]
         /\ lost' \in [1 .. Files -> SUBSET Starts]
         /\ lost'[source] = (lost[source] \cup Entries(s)) \ Listed(d)
         /\ \A f \in 1 .. Files : f # source => lost'[f] = lost[f]
<1>1. /\ disk \in [1 .. Files -> {Nil, Unreadable} \cup Subs]
      /\ lost \in [1 .. Files -> SUBSET Starts]
  BY DEF SessionInv, DataTypes
<1>2. Entries(s) \subseteq Starts
  BY DEF Entries
<1> QED
  BY <1>1, <1>2 DEF WritesList

\* save_subs, whether it succeeds or fails, and a death in it, write one list and
\* at most its manifest (plugin.rs 991-1001, 1171-1210).
LEMMA SaveFacts ==
  ASSUME SessionInv, mode # "none", NEW s \in Subs,
         NEW done \in SUBSET Starts, NEW cache \in SUBSET Starts,
         SaveSubs(s, done, cache) \/ SaveFails(s) \/ DiesSaving(s)
  PROVE  /\ source \in 1 .. Files
         /\ \/ UNCHANGED <<disk, lost>> /\ UNCHANGED manifest
            \/ /\ \E d \in {Unreadable} \cup Subs :
                    /\ Listed(d) \subseteq Entries(s)
                    /\ WritesList(s, d)
               /\ \/ UNCHANGED manifest \/ TearsManifest
                  \/ SaveSubs(s, done, cache) /\ WritesManifest(done, cache)
         /\ SaveSubs(s, done, cache) => WritesList(s, s)
         /\ ~UNCHANGED manifest => KeepsManifest
<1>1. source \in 1 .. Files
  BY DEF SessionInv, CursorInv, Routine
<1>2. Listed(s) = Entries(s) /\ Listed(s) \subseteq Entries(s)
  BY NilAssumption DEF Listed, Readable, Subs
<1>3. CASE SaveSubs(s, done, cache)
  BY <1>1, <1>2, <1>3 DEF SaveSubs
<1>4. ASSUME NEW d \in Torn(s), WritesList(s, d)
      PROVE  \E e \in {Unreadable} \cup Subs :
               Listed(e) \subseteq Entries(s) /\ WritesList(s, e)
  BY <1>4, TornFacts
<1>5. CASE SaveFails(s) /\ ~SaveSubs(s, done, cache)
  BY <1>1, <1>4, <1>5 DEF SaveFails
<1>6. CASE DiesSaving(s) /\ ~SaveSubs(s, done, cache)
  BY <1>1, <1>2, <1>4, <1>6 DEF DiesSaving
<1> QED
  BY <1>3, <1>5, <1>6

\* Saving keeps the types.
LEMMA SavedTypes ==
  ASSUME SessionInv, mode # "none", NEW s \in Subs,
         NEW done \in SUBSET Starts, NEW cache \in SUBSET Starts,
         SaveSubs(s, done, cache) \/ SaveFails(s) \/ DiesSaving(s)
  PROVE  /\ disk' \in [1 .. Files -> {Nil, Unreadable} \cup Subs]
         /\ lost' \in [1 .. Files -> SUBSET Starts]
         /\ manifest' \in [1 .. Files -> {Nil} \cup Manifests]
<1>1. /\ disk \in [1 .. Files -> {Nil, Unreadable} \cup Subs]
      /\ lost \in [1 .. Files -> SUBSET Starts]
      /\ manifest \in [1 .. Files -> {Nil} \cup Manifests]
  BY DEF SessionInv, DataTypes, Manifests
<1>2. source \in 1 .. Files
  BY DEF SessionInv, CursorInv, Routine
<1>3. manifest' \in [1 .. Files -> {Nil} \cup Manifests]
  <2>1. [processed |-> done, translations |-> cache] \in Manifests
    BY DEF Manifests
  <2>2. \/ UNCHANGED manifest \/ TearsManifest \/ WritesManifest(done, cache)
    BY SaveFacts
  <2> QED
    BY <1>1, <1>2, <2>1, <2>2 DEF TearsManifest, WritesManifest
<1>4. CASE UNCHANGED <<disk, lost>>
  BY <1>1, <1>3, <1>4
<1>5. CASE \E d \in {Unreadable} \cup Subs : WritesList(s, d)
  BY <1>2, <1>3, <1>5, ListWritten
<1> QED
  BY <1>4, <1>5, SaveFacts

\* A step that leaves the lists and the files alone keeps the types.
LEMMA DataSteady ==
  ASSUME SessionInv,
         UNCHANGED <<processed, subs, transCache, files>>,
         inflight' \subseteq Starts, late' \subseteq Starts,
         answers' \subseteq Starts, batch' \subseteq Starts
  PROVE  DataTypes'
  BY DEF SessionInv, DataTypes, files

\* cleanup keeps the types.
LEMMA DataCleanup ==
  ASSUME SessionInv, Cleanup, batch' = {}
  PROVE  DataTypes'
  BY DEF SessionInv, DataTypes, Cleanup, TempFilesGone, Subs, NoSubs

\* What mpv and its user do keeps the types.
LEMMA DataPlayer ==
  ASSUME SessionInv, Player
  PROVE  DataTypes'
<1> USE DEF flags, cursor, clock, memory, locals, queue, files, player
<1>1. CASE Kill
  <2>1. /\ disk' \in [1 .. Files -> {Nil, Unreadable} \cup Subs]
        /\ lost' \in [1 .. Files -> SUBSET Starts]
        /\ manifest' \in [1 .. Files -> {Nil} \cup Manifests]
    <3>1. CASE TempFilesGone
      BY <3>1 DEF TempFilesGone, SessionInv, DataTypes, Manifests
    <3>2. ASSUME NEW s \in BeingSaved, DiesSaving(s)
          PROVE  s \in Subs /\ mode # "none"
      BY <3>2 DEF BeingSaved, Translated, Subs, SessionInv, CursorInv, Routine, DataTypes
    <3> QED
      BY <1>1, <3>1, <3>2, SavedTypes DEF Kill
  <2> QED
    BY <1>1, <2>1 DEF Kill, Return, DataTypes, Manifests, Subs, NoSubs
<1>2. CASE Player /\ ~Kill
  BY <1>2, DataSteady
  DEF Player, UnchangedPlugin, PlayFile, LoadFile, Play, Pause, Seek, EndFile,
     Toggle, Quit, SessionInv, DataTypes
<1> QED
  BY <1>1, <1>2

\* The translation worker keeps the types.
LEMMA DataTranslator ==
  ASSUME SessionInv, Translator
  PROVE  DataTypes'
<1> USE DEF flags, cursor, clock, memory, locals, queue, files, player
<1> QED
  BY DataSteady DEF Translator, Answer, GiveUp, SessionInv, DataTypes

\* A seek queues translations of starts only (plugin.rs 716-758).
LEMMA DataSeek ==
  ASSUME SessionInv, SeekSeen
  PROVE  DataTypes'
<1> USE DEF flags, cursor, clock, memory, locals, queue, files, player
<1>1. Align(playback) \in Starts
  BY AlignFacts DEF SessionInv, CursorInv, CursorTypes
<1>2. inflight' \subseteq Starts /\ subs' \in Subs
  BY <1>1 DEF SeekSeen, SessionInv, DataTypes, Subs
<1>3. late' \subseteq Starts
  BY DEF SeekSeen, Survivors, SessionInv, DataTypes
<1> QED
  BY <1>2, <1>3 DEF SeekSeen, LeaveChunk, Return, SessionInv, DataTypes

\* The steps of a tick keep the types.
LEMMA DataTick ==
  ASSUME SessionInv, TickIdle \/ TakeResults \/ SaveResult \/ PlanLocal
         \/ PlanNetwork \/ LoopStops \/ LoopSkips \/ LoopExtracts
         \/ Recognised \/ RecognitionFails \/ MergeFails
  PROVE  DataTypes'
<1> USE DEF flags, cursor, clock, memory, locals, queue, files, player
<1>1. CASE TakeResults
  BY <1>1 DEF TakeResults, SessionInv, DataTypes
<1>2. CASE SaveResult
  <2>1. mode # "none"
    BY <1>2 DEF SaveResult, SessionInv, CursorInv, Routine
  <2>2. PICK t \in batch : /\ batch' = batch \ {t}
                           /\ transCache' = transCache \cup {t}
                           /\ subs' = Translated(subs, {t})
    BY <1>2 DEF SaveResult
  <2>3. /\ subs' \in Subs /\ batch' \subseteq Starts
        /\ transCache' \in SUBSET Starts /\ processed \in SUBSET Starts
    BY <2>2 DEF Translated, Subs, SessionInv, DataTypes
  <2>4. SaveSubs(subs', processed, transCache') \/ SaveFails(subs')
    BY <1>2 DEF SaveResult
  <2>5. /\ disk' \in [1 .. Files -> {Nil, Unreadable} \cup Subs]
        /\ lost' \in [1 .. Files -> SUBSET Starts]
        /\ manifest' \in [1 .. Files -> {Nil} \cup Manifests]
    BY <2>1, <2>3, <2>4, SavedTypes
  <2> QED
    BY <1>2, <2>3, <2>5 DEF SaveResult, SessionInv, DataTypes, Manifests
<1>3. CASE PlanLocal \/ RecognitionFails
  <2>1. CASE Cleanup /\ batch' = {}
    BY <2>1, DataCleanup
  <2>2. CASE UNCHANGED <<memory, batch, queue, files>>
    BY <2>2, DataSteady DEF SessionInv, DataTypes
  <2> QED
    BY <1>3, <2>1, <2>2
    DEF PlanLocal, RecognitionFails, Stop, LeaveChunk, Return
<1>4. CASE \/ TickIdle \/ PlanNetwork \/ LoopStops \/ LoopSkips \/ LoopExtracts
           \/ Recognised \/ MergeFails
  <2>1. UNCHANGED <<memory, queue, files>> /\ batch' \in {batch, {}}
    BY <1>4
    DEF TickIdle, PlanNetwork, LoopStops, LoopSkips, LoopExtracts, Recognised,
        MergeFails, NextIteration, LeaveChunk, Return
  <2> QED
    BY <2>1, DataSteady DEF SessionInv, DataTypes
<1> QED
  BY <1>1, <1>2, <1>3, <1>4

\* Merging a chunk keeps the types (plugin.rs 858-923).
LEMMA DataMerge ==
  ASSUME SessionInv, MergeSilent \/ MergeSpeech
  PROVE  DataTypes'
<1> USE DEF flags, cursor, clock, memory, locals, queue, files, player
<1>0. pc = "transcribed"
  BY DEF MergeSilent, MergeSpeech
<1>1. pos \in Starts /\ mode # "none"
  BY <1>0, SizesAssumption
  DEF SessionInv, CursorInv, CursorTypes, Routine, Window, CursorOnGrid
<1>2. batch' \in {batch, {}}
  BY DEF MergeSilent, MergeSpeech, ChunkDone, NextIteration, LeaveChunk, Return
<1>3. CASE MergeSilent
  BY <1>1, <1>2, <1>3 DEF MergeSilent, SessionInv, DataTypes
<1>4. CASE MergeSpeech
  <2>1. /\ subs' \in Subs /\ processed' \in SUBSET Starts
        /\ transCache \in SUBSET Starts /\ inflight' \subseteq Starts
    BY <1>1, <1>4 DEF MergeSpeech, SessionInv, DataTypes, Subs
  <2>2. SaveSubs(subs', processed', transCache) \/ SaveFails(subs')
    BY <1>4 DEF MergeSpeech
  <2>3. /\ disk' \in [1 .. Files -> {Nil, Unreadable} \cup Subs]
        /\ lost' \in [1 .. Files -> SUBSET Starts]
        /\ manifest' \in [1 .. Files -> {Nil} \cup Manifests]
    BY <1>1, <2>1, <2>2, SavedTypes
  <2> QED
    BY <1>2, <1>4, <2>1, <2>3 DEF MergeSpeech, SessionInv, DataTypes, Manifests
<1> QED
  BY <1>3, <1>4

\* A session begins with nothing or with what its own files hold
\* (plugin.rs 288-411).
LEMMA DataStart ==
  ASSUME SessionInv, NEW next \in {"wait", "tick"}, StartTranscription(next)
  PROVE  DataTypes'
<1> USE DEF queue, files, memory, SessionInv, DataTypes
<1>1. /\ UNCHANGED <<inflight, late, answers, disk, manifest>>
      /\ batch' \in {batch, {}}
  BY DEF StartTranscription, Return
<1>2. CASE UNCHANGED <<processed, subs, transCache, lost>>
  BY <1>1, <1>2
<1>3. CASE file \in 1 .. Files /\ NotLoaded(file)
  <2>1. Listed(disk[file]) \subseteq Starts
    BY DEF Listed, Entries
  <2>2. lost' \in [1 .. Files -> SUBSET Starts]
    BY <1>3, <2>1 DEF NotLoaded
  <2> QED
    BY <1>1, <1>3, <2>2 DEF NotLoaded
<1>4. CASE file \in 1 .. Files /\ Loaded(file)
  <2>1. disk[file] \in Subs
    BY <1>4 DEF Loaded, Readable
  <2>2. processed' \subseteq Starts /\ transCache' \subseteq Starts
    BY <1>4 DEF Loaded, Entries
  <2> QED
    BY <1>1, <1>4, <2>1, <2>2 DEF Loaded
<1> QED
  BY <1>2, <1>3, <1>4
  DEF StartTranscription, CursorInv, CursorTypes, Routine, PositionKnown

\* The handlers of the event loop keep the types.
LEMMA DataHandlers ==
  ASSUME SessionInv, Attach \/ HandleEvent
  PROVE  DataTypes'
<1> USE DEF flags, cursor, clock, memory, locals, queue, files, player
<1>1. ASSUME UNCHANGED <<memory, batch, queue, files>>
      PROVE  DataTypes'
  BY <1>1, DataSteady DEF SessionInv, DataTypes
<1>2. CASE Attach
  BY <1>1, <1>2, DataStart DEF Attach
<1>3. CASE HandleToggle
  BY <1>1, <1>3, DataStart, DataCleanup
  DEF HandleToggle, Take, FlagsOnly, Stop, Return
<1>4. CASE HandleStartFile \/ HandleOther \/ HandleTimeout
  BY <1>1, <1>4
  DEF HandleStartFile, HandleOther, HandleTimeout, Take, FlagsOnly
<1>5. CASE HandleFileLoaded \/ HandlePlaybackRestart
  BY <1>1, <1>5, DataStart
  DEF HandleFileLoaded, HandlePlaybackRestart, Take, FlagsOnly
<1>6. CASE HandleEndFile \/ HandleShutdown
  BY <1>1, <1>6, DataCleanup
  DEF HandleEndFile, HandleShutdown, Take, FlagsOnly, Stop, Return
<1> QED
  BY <1>2, <1>3, <1>4, <1>5, <1>6 DEF HandleEvent

\* Every step keeps the types of the data.
LEMMA DataStep ==
  ASSUME SessionInv, Next
  PROVE  DataTypes'
  BY DataHandlers, DataSeek, DataTick, DataMerge, DataTranslator, DataPlayer
  DEF Next, Plugin

-----------------------------------------------------------------------------
(* The flags and the events.                                               *)

\* Every step keeps the flags Boolean.
LEMMA FlagStep ==
  ASSUME FlagTypes, Next
  PROVE  FlagTypes'
<1> USE DEF flags, cursor, clock, memory, locals, queue, files, player,
        FlagTypes
<1>1. AutoStart \in BOOLEAN
  BY ConfigAssumption
<1>2. ASSUME NEW next, StartTranscription(next)
      PROVE  /\ shutting' \in BOOLEAN /\ subsLoaded' \in BOOLEAN
             /\ sought' \in BOOLEAN
  BY <1>2 DEF StartTranscription, Loaded, NotLoaded
<1>3. CASE Attach
  BY <1>1, <1>2, <1>3 DEF Attach
<1>4. CASE HandleToggle \/ HandleEndFile \/ HandleShutdown
  <2>1. CASE HandleToggle /\ ~Cleanup
    BY <1>2, <2>1 DEF HandleToggle, FlagsOnly, Stop
  <2>2. CASE HandleToggle /\ Cleanup
    BY <1>2, <2>2 DEF HandleToggle, FlagsOnly, Stop, Cleanup
  <2>3. CASE HandleEndFile
    BY <2>3 DEF HandleEndFile, FlagsOnly, Stop, Cleanup
  <2>4. CASE HandleShutdown
    BY <2>4 DEF HandleShutdown, Stop, Cleanup
  <2> QED
    BY <1>4, <2>1, <2>2, <2>3, <2>4
<1>5. CASE HandleStartFile \/ HandleFileLoaded \/ HandlePlaybackRestart
  <2>1. CASE HandleStartFile
    BY <1>1, <2>1 DEF HandleStartFile, FlagsOnly
  <2>2. CASE HandleFileLoaded
    BY <1>1, <1>2, <2>2 DEF HandleFileLoaded, FlagsOnly
  <2>3. CASE HandlePlaybackRestart
    BY <1>1, <1>2, <2>3 DEF HandlePlaybackRestart, FlagsOnly
  <2> QED
    BY <1>5, <2>1, <2>2, <2>3
<1>6. CASE HandleOther \/ HandleTimeout \/ TickIdle
  BY <1>6 DEF HandleOther, HandleTimeout, FlagsOnly, TickIdle
<1>7. CASE \/ SeekSeen \/ TakeResults \/ SaveResult \/ PlanNetwork \/ LoopStops
           \/ LoopSkips \/ LoopExtracts \/ Recognised \/ MergeFails
  <2>1. NoSeek => sought' \in BOOLEAN
    BY DEF NoSeek
  <2>2. CASE SeekSeen \/ TakeResults \/ SaveResult
    BY <2>1, <2>2 DEF SeekSeen, TakeResults, SaveResult
  <2>3. CASE PlanNetwork
    BY <2>3 DEF PlanNetwork
  <2>4. CASE LoopStops \/ LoopSkips \/ LoopExtracts
    BY <2>1, <2>4 DEF LoopStops, LoopSkips, LoopExtracts
  <2>5. CASE Recognised \/ MergeFails
    BY <2>1, <2>5 DEF Recognised, MergeFails
  <2> QED
    BY <1>7, <2>2, <2>3, <2>4, <2>5
<1>8. CASE PlanLocal \/ RecognitionFails
  <2>1. CASE PlanLocal
    BY <2>1 DEF PlanLocal, Stop, Cleanup
  <2>2. CASE RecognitionFails
    BY <2>2 DEF RecognitionFails, Cleanup
  <2> QED
    BY <1>8, <2>1, <2>2
<1>9. CASE MergeSilent \/ MergeSpeech
  BY <1>9 DEF MergeSilent, MergeSpeech, ChunkDone, NoSeek
<1>10. CASE Translator
  BY <1>10 DEF Translator, Answer, GiveUp
<1>11. CASE Player
  <2>1. CASE PlayFile \/ LoadFile \/ Play \/ Pause
    BY <2>1 DEF UnchangedPlugin, PlayFile, LoadFile, Play, Pause
  <2>2. CASE Seek \/ EndFile \/ Toggle \/ Quit
    BY <2>2 DEF UnchangedPlugin, Seek, EndFile, Toggle, Quit
  <2>3. CASE Kill
    BY <2>3 DEF Kill
  <2> QED
    BY <1>11, <2>1, <2>2, <2>3 DEF Player
<1> QED
  BY <1>3, <1>4, <1>5, <1>6, <1>7, <1>8, <1>9, <1>10, <1>11
  DEF Next, Plugin, HandleEvent

EventKinds ==
  {"toggle", "start", "loaded", "restart", "end", "shutdown", "other"}

\* Every step keeps the queue of events a sequence of the known kinds.
LEMMA EventStep ==
  ASSUME EventTypes, Next
  PROVE  EventTypes'
<1> USE DEF player, EventTypes
<1>1. CASE UNCHANGED events
  BY <1>1
<1>2. ASSUME NEW kind, Take(kind)
      PROVE  EventTypes'
  BY <1>2 DEF Take
<1>3. CASE HandleEvent
  BY <1>1, <1>2, <1>3
  DEF HandleEvent, HandleToggle, HandleStartFile, HandleFileLoaded,
     HandlePlaybackRestart, HandleEndFile, HandleShutdown, HandleOther,
     HandleTimeout
<1>4. CASE Plugin /\ ~HandleEvent
  BY <1>1, <1>4
  DEF Plugin, Attach, SeekSeen, TickIdle, TakeResults, SaveResult, PlanLocal,
     PlanNetwork, LoopStops, LoopSkips, LoopExtracts, Recognised, RecognitionFails,
     MergeSilent, MergeFails, MergeSpeech
<1>5. CASE Translator
  BY <1>1, <1>5 DEF Translator, Answer, GiveUp
<1>6. CASE Player
  <2>1. \/ UNCHANGED events
        \/ \E kind \in {"start", "end", "toggle", "shutdown"} :
             events' = Append(events, kind)
        \/ \E a, b \in {"loaded", "restart", "other"} :
             events' = events \o <<a, b>>
        \/ events' = <<"start">>
    BY <1>6
    DEF Player, PlayFile, LoadFile, Play, Pause, Seek, EndFile, Toggle, Quit,
        Kill
  <2>2. ASSUME NEW kind \in EventKinds, events' = Append(events, kind)
        PROVE  EventTypes'
    BY <2>2 DEF EventKinds
  <2>3. ASSUME NEW a \in EventKinds, NEW b \in EventKinds,
               events' = events \o <<a, b>>
        PROVE  EventTypes'
    <3>1. <<a, b>> \in Seq(EventKinds)
      OBVIOUS
    <3> QED
      BY <2>3, <3>1 DEF EventKinds
  <2>4. CASE events' = <<"start">>
    BY <2>4
  <2> QED
    BY <1>1, <2>1, <2>2, <2>3, <2>4 DEF EventKinds
<1> QED
  BY <1>3, <1>4, <1>5, <1>6 DEF Next

\* The cursor, the data, the flags and the events are right in every state.
LEMMA SessionCorrect == Spec => [](SessionInv /\ FlagTypes /\ EventTypes)
<1>1. Init => DataTypes /\ FlagTypes /\ EventTypes
  <2>1. Init => FlagTypes
    BY DEF Init, FreshPlugin, FlagTypes
  <2>2. Init => EventTypes
    BY DEF Init, EventTypes
  <2> QED
    BY <2>1, <2>2, DataInit
<1>2. CursorInv /\ DataTypes /\ [Next]_vars => DataTypes'
  <2>1. ASSUME CursorInv, DataTypes, UNCHANGED vars
        PROVE  DataTypes'
    BY <2>1 DEF vars, DataTypes
  <2> QED
    BY <2>1, DataStep DEF SessionInv
<1>3. FlagTypes /\ EventTypes /\ [Next]_vars => FlagTypes' /\ EventTypes'
  <2>1. ASSUME FlagTypes, EventTypes, UNCHANGED vars
        PROVE  FlagTypes' /\ EventTypes'
    BY <2>1 DEF vars, FlagTypes, EventTypes
  <2> QED
    BY <2>1, FlagStep, EventStep
<1>4. CursorInv /\ DataTypes => SessionInv
  BY DEF SessionInv
<1> QED
  BY <1>1, <1>2, <1>3, <1>4, CursorCorrect, PTL DEF Spec

\* Every variable keeps its type, for every environment (plugin.rs 93-114).
THEOREM TypesHold == Spec => []TypeOK
<1>1. SessionInv /\ FlagTypes /\ EventTypes => TypeOK
  BY DEF SessionInv, CursorInv, TypeOK
<1> QED
  BY <1>1, SessionCorrect, PTL

-----------------------------------------------------------------------------
(* The plugin's picture of the translation queue.                          *)

\* A fresh plugin has an empty queue.
LEMMA QueueInit == Init => Queue!Init
  BY DEF Init, FreshPlugin, Queue!Init

\* Every step is one of the abstract queue or leaves it alone.
LEMMA QueueStep ==
  ASSUME SessionInv, FlagTypes, [Next]_vars
  PROVE  [Queue!Next]_(Queue!vars)
<1> USE DEF flags, cursor, clock, memory, locals, queue, files, player,
        FlagTypes
<1>1. CASE UNCHANGED <<queue, shutting>>
  BY <1>1 DEF Queue!vars
<1>2. CASE Cleanup
  BY <1>2 DEF Cleanup, Queue!Next, Queue!Close
<1>3. CASE Attach
  BY <1>1, <1>3 DEF Attach, StartTranscription
<1>4. CASE HandleEvent
  BY <1>1, <1>2, <1>4
  DEF HandleEvent, HandleToggle, HandleStartFile, HandleFileLoaded,
     HandlePlaybackRestart, HandleEndFile, HandleShutdown, HandleOther,
     HandleTimeout,
     FlagsOnly, Stop, StartTranscription
<1>5. CASE SeekSeen
  <2>1. Align(playback) \in Starts
    BY AlignFacts DEF SessionInv, CursorInv, CursorTypes
  <2>2. /\ ~shutting /\ ~shutting' /\ answers' = answers
        /\ inflight' \in SUBSET Starts
    BY <1>5, <2>1 DEF SeekSeen, AtCheck, SessionInv, CursorInv, Routine
  <2>3. Queue!Cancel(inflight')
    <3>1. late' \in {{}} \cup {{t} : t \in inflight \cup late}
      BY <1>5 DEF SeekSeen, Survivors
    <3>2. (~shutting)' = ~shutting
      BY <2>2
    <3> QED
      BY <2>2, <3>1, <3>2, Zenon DEF Queue!Cancel
  <2> QED
    BY <2>2, <2>3 DEF Queue!Next
<1>6. CASE TakeResults
  BY <1>6 DEF TakeResults, Queue!Next, Queue!Receive
<1>7. CASE \/ TickIdle \/ SaveResult \/ PlanNetwork \/ LoopStops \/ LoopSkips \/ LoopExtracts
           \/ Recognised \/ MergeSilent \/ MergeFails
  BY <1>1, <1>7
  DEF TickIdle, SaveResult, PlanNetwork, LoopStops, LoopSkips, LoopExtracts,
      Recognised, MergeSilent, MergeFails
<1>8. CASE PlanLocal \/ RecognitionFails
  BY <1>1, <1>2, <1>8 DEF PlanLocal, RecognitionFails, Stop
<1>9. CASE MergeSpeech
  <2>1. pc = "transcribed"
    BY <1>9 DEF MergeSpeech
  <2>2. pos \in Starts /\ ~shutting
    BY <2>1, SizesAssumption
    DEF SessionInv, CursorInv, CursorTypes, Routine, Window, CursorOnGrid
  <2>3. CASE inflight' = inflight \cup {pos}
    <3>1. Queue!Submit(pos)
      BY <1>9, <2>2, <2>3 DEF MergeSpeech, Queue!Submit
    <3> QED
      BY <2>2, <3>1 DEF Queue!Next
  <2>4. CASE UNCHANGED inflight
    BY <1>1, <1>9, <2>4 DEF MergeSpeech
  <2> QED
    BY <1>9, <2>3, <2>4 DEF MergeSpeech
<1>10. CASE Translator
  <2>1. PICK t \in Starts : Answer(t) \/ GiveUp(t)
    BY <1>10 DEF Translator
  <2>2. Queue!Answer(t) \/ Queue!GiveUp(t)
    BY <2>1 DEF Answer, GiveUp, Queue!Answer, Queue!GiveUp
  <2> QED
    BY <2>2 DEF Queue!Next
<1>11. CASE Kill
  BY <1>11 DEF Kill, Queue!Next, Queue!Restart
<1>12. CASE Player /\ ~Kill
  BY <1>1, <1>12
  DEF Player, UnchangedPlugin, PlayFile, LoadFile, Play, Pause, Seek, EndFile,
      Toggle, Quit
<1>13. CASE UNCHANGED vars
  BY <1>1, <1>13 DEF vars
<1> QED
  BY <1>3, <1>4, <1>5, <1>6, <1>7, <1>8, <1>9, <1>10, <1>11, <1>12, <1>13
  DEF Next, Plugin

\* Every step of the plugin, of the worker as the plugin sees it, and of mpv is
\* a step of the abstract service or leaves it alone (translate.rs 204-221,
\* 334-345 and plugin.rs 212-272).
THEOREM QueueIsUsedAsPromised == Spec => UsesQueueAsPromised
<1>1. SessionInv /\ FlagTypes /\ [Next]_vars => [Queue!Next]_(Queue!vars)
  BY QueueStep
<1> QED
  BY <1>1, QueueInit, SessionCorrect, PTL
  DEF Spec, UsesQueueAsPromised, Queue!Spec
==============================================================================
