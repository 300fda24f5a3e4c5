---------------------------- MODULE SubtitleCache ----------------------------
(***************************************************************************)
(* The subtitle list and what survives a restart: subtitle_manager.rs, and *)
(* in plugin.rs the merge of a recognised chunk, save_subs,                *)
(* load_cached_subs and the manifest of a network stream.  PluginSession   *)
(* has one entry per chunk and one chunk size; here a chunk yields several *)
(* entries, what an entry says depends on where its chunk begins and ends, *)
(* processes with different chunk sizes follow each other on the same      *)
(* files, and a process may die between and within the writes of list and  *)
(* manifest.                                                               *)
(*                                                                         *)
(* Time is in units.  A word is a run of spoken units; the recogniser      *)
(* hears of it what lies in the chunk, so the text of an entry is the      *)
(* number of units heard, and the translation of a text is named by the    *)
(* text.  The medium may have had a list before, by somebody else, of      *)
(* whose texts nothing is known.  Where the cursor stands is PluginSession's matter: here a        *)
(* chunk of the grid may be recognised whenever it does not count as       *)
(* processed.                                                              *)
(*                                                                         *)
(* A definition named X_Something is a deliberately wrong form of the X    *)
(* that follows it; the wrong forms are not part of the specification.     *)
(***************************************************************************)
EXTENDS Integers

CONSTANTS
  End,       \* the length of the medium
  Spoken,    \* the units in which somebody speaks
  Others,    \* the units at which a list by somebody else may have entries
  Sizes,     \* the chunk sizes the processes may be configured with
  MaxStarts, \* bound: how many processes are started; one that reads a list
             \* which a write left half-done is the last one
  Absent,    \* there is no such file
  Garbled    \* there is one, and it cannot be read

ASSUME MediumAssumption ==
  /\ End \in Nat \ {0} /\ MaxStarts \in Nat
  /\ Sizes \subseteq Nat \ {0}
  /\ Spoken \subseteq 0 .. End - 1 /\ Others \subseteq 0 .. End - 1

VARIABLES
  kind,      \* "network": with a manifest; "local": without
  list,      \* the .srt of the medium
  manifest,  \* the manifest of the medium
  alive,     \* is a process running
  size,      \* its chunk size
  subs,      \* the subtitle list: entries by start
  processed, \* processed_chunks
  cache,     \* translation_cache: by start, the text that was translated
  pc,        \* "idle", or inside save_subs: "list", "manifest"
  tasks,     \* pending_tasks: to be submitted after save_subs
  asked      \* submitted translations that are not fetched yet

VARIABLES    \* auxiliary: what has happened
  starts,    \* how many processes have been started
  sizes,     \* the chunk sizes they had
  heard,     \* the units whose recognition is in memory or was saved
  kept,      \* the units heard when the list was saved last
  torn,      \* the list on disk is what a write left that did not end
  lost       \* a process has read such a list

diskVars  == <<list, manifest>>
ghostVars == <<starts, sizes, heard, kept, torn, lost>>
vars == <<kind, list, manifest, alive, size, subs, processed, cache, pc, tasks,
          asked, starts, sizes, heard, kept, torn, lost>>

-----------------------------------------------------------------------------
(* Chunks and entries                                                      *)

Units      == 0 .. End - 1
Least(a, b) == IF a <= b THEN a ELSE b

Chunk(c, s)      == c .. Least(c + s, End) - 1

ChunkStart_Next(t, s) == t - (t % s) + s

ChunkStart(t, s) == t - (t % s)

Grid(s) == {c \in Units : c % s = 0}

\* The text of somebody else says nothing of what was heard.
Foreign == 0

Entry == [text : 0 .. End, trans : SUBSET (0 .. End)]
IsList(f) == DOMAIN f \subseteq Units /\ f \in [DOMAIN f -> Entry]

ASSUME FilesAssumption ==
  \A D \in SUBSET Units : Absent \notin [D -> Entry] /\ Garbled \notin [D -> Entry]

\* The run of units of S that begins at b.
WordLength(b, S) ==
  CHOOSE n \in 1 .. End : b + n \notin S /\ \A k \in 0 .. n - 1 : b + k \in S

\* What the recogniser makes of chunk c, with the start times already moved to
\* the chunk's place in the medium.  A chunk without words gives an empty file.
Recognised(c) ==
  LET S == Chunk(c, size) \cap Spoken
  IN  [b \in {u \in S : u - 1 \notin S} |->
         [text |-> WordLength(b, S), trans |-> {}]]

\* BTreeMap::insert: what is added replaces what was there.
AddFromSrt_Only(old, new) == new

AddFromSrt(old, new) ==
  [b \in DOMAIN old \cup DOMAIN new |-> IF b \in DOMAIN new THEN new[b] ELSE old[b]]

\* A translation becomes a further line of the entry, once.
UpdateTranslation(entries, b, translation) ==
  IF b \in DOMAIN entries
    THEN [entries EXCEPT ![b].trans = @ \cup {translation}]
    ELSE entries

-----------------------------------------------------------------------------
(* Files.  fs::write empties the file and fills it from the front, so a    *)
(* write that does not end leaves some of the entries in time order, and    *)
(* maybe a piece of the next one.  JSON without its end is no JSON.        *)

Readable(file) == file \notin {Absent, Garbled}

Front(entries, b) == [k \in {x \in DOMAIN entries : x < b} |-> entries[k]]

Pieces(entry) ==
  {[text |-> n, trans |-> {}] : n \in 1 .. entry.text \cup {entry.text}} \ {entry}

Cut(entries) ==
  {Garbled} \cup UNION
    {{Front(entries, b)} \cup
     {[Front(entries, b + 1) EXCEPT ![b] = e] : e \in Pieces(entries[b])} :
       b \in DOMAIN entries}

CutManifest == {manifest, Garbled}

-----------------------------------------------------------------------------
(* load_cached_subs, at the start of a session                             *)

Inferred_UpToLast(entries, s) ==
  {c \in Grid(s) : \E b \in DOMAIN entries : c <= b}

Inferred(entries, s) == {ChunkStart(b, s) : b \in DOMAIN entries}

\* The manifest's chunks count only if they are of this process's size; its
\* translations count in any case.
LoadedChunks_AnySize(s) ==
  Inferred(list, s) \cup
  (IF Readable(manifest) THEN manifest.processed ELSE {})

LoadedChunks_Manifest(s) ==
  IF Readable(manifest) /\ manifest.size = s THEN manifest.processed ELSE {}

LoadedChunks(s) ==
  Inferred(list, s) \cup
  (IF Readable(manifest) /\ manifest.size = s THEN manifest.processed ELSE {})

LoadedEntries_None == <<>>

LoadedEntries == IF Readable(list) THEN list ELSE <<>>

Start(s) ==
  /\ ~alive /\ starts < MaxStarts
  /\ alive' = TRUE /\ size' = s /\ pc' = "idle"
  /\ subs' = LoadedEntries
  /\ processed' = IF Readable(list) THEN LoadedChunks(s) ELSE {}
  /\ cache' = IF Readable(list) /\ Readable(manifest)
                THEN manifest.translations ELSE <<>>
  /\ tasks' = {} /\ asked' = {}
  /\ starts' = IF torn THEN MaxStarts ELSE starts + 1
  /\ sizes' = sizes \cup {s}
  /\ lost' = (lost \/ torn) /\ torn' = FALSE
  /\ UNCHANGED <<kind, list, manifest, heard, kept>>

-----------------------------------------------------------------------------
(* transcribe_and_update                                                   *)

Idle == alive /\ pc = "idle"

\* A chunk in which nothing is said counts as processed and saves nothing.
RecogniseSilence(c) ==
  /\ Idle /\ c \in Grid(size) \ processed
  /\ DOMAIN Recognised(c) = {}
  /\ processed' = processed \cup {c} /\ heard' = heard \cup Chunk(c, size)
  /\ UNCHANGED <<kind, list, manifest, alive, size, subs, cache, pc, tasks,
                 asked, starts, sizes, kept, torn, lost>>

\* The entries are added and the chunk is marked before anything is saved.
RecogniseSpeech(c) ==
  /\ Idle /\ c \in Grid(size) \ processed
  /\ DOMAIN Recognised(c) # {}
  /\ subs' = AddFromSrt(subs, Recognised(c))
  /\ processed' = processed \cup {c} /\ heard' = heard \cup Chunk(c, size)
  /\ tasks' = {<<b, Recognised(c)[b].text>> : b \in DOMAIN Recognised(c)}
  /\ pc' = "list"
  /\ UNCHANGED <<kind, list, manifest, alive, size, cache, asked,
                 starts, sizes, kept, torn, lost>>

-----------------------------------------------------------------------------
(* save_subs: the list, then the manifest; then the tasks are submitted.   *)

Submit == asked' = asked \cup tasks /\ tasks' = {}

WriteList ==
  /\ alive /\ pc = "list"
  /\ list' = subs /\ kept' = heard /\ torn' = FALSE
  /\ IF kind = "network"
       THEN pc' = "manifest" /\ UNCHANGED <<asked, tasks>>
       ELSE pc' = "idle" /\ Submit
  /\ UNCHANGED <<kind, manifest, alive, size, subs, processed, cache,
                 starts, sizes, heard, lost>>

\* The write fails: at once, which leaves the file as it was, or on the way.
\* There is no manifest then, and the tasks are dropped.
WriteListFails ==
  /\ alive /\ pc = "list"
  /\ \/ UNCHANGED <<list, torn>>
     \/ list' \in Cut(subs) /\ torn' = TRUE
  /\ pc' = "idle" /\ tasks' = {}
  /\ UNCHANGED <<kind, manifest, alive, size, subs, processed, cache, asked,
                 starts, sizes, heard, kept, lost>>

WriteManifest ==
  /\ alive /\ pc = "manifest"
  /\ manifest' =
       [size |-> size, processed |-> processed, translations |-> cache]
  /\ pc' = "idle" /\ Submit
  /\ UNCHANGED <<kind, list, alive, size, subs, processed, cache,
                 starts, sizes, heard, kept, torn, lost>>

\* A manifest that cannot be written is logged and forgotten.
WriteManifestFails ==
  /\ alive /\ pc = "manifest"
  /\ manifest' \in CutManifest
  /\ pc' = "idle" /\ Submit
  /\ UNCHANGED <<kind, list, alive, size, subs, processed, cache,
                 starts, sizes, heard, kept, torn, lost>>

-----------------------------------------------------------------------------
(* process_translation_results, one result after the other                 *)

Remembered(b, text) ==
  [x \in DOMAIN cache \cup {b} |-> IF x = b THEN text ELSE cache[x]]

ResultArrives(t) ==
  /\ Idle /\ t \in asked
  /\ asked' = asked \ {t}
  /\ cache' = Remembered(t[1], t[2])
  /\ subs' = UpdateTranslation(subs, t[1], t[2])
  /\ pc' = "list" /\ tasks' = {}
  /\ UNCHANGED <<kind, list, manifest, alive, size, processed, ghostVars>>

\* The translator has given up, after its retries.
GivenUp(t) ==
  /\ alive /\ t \in asked
  /\ asked' = asked \ {t}
  /\ UNCHANGED <<kind, list, manifest, alive, size, subs, processed, cache,
                 pc, tasks, ghostVars>>

\* A seek to chunk c cancels what is asked for, except for answers that wait to
\* be fetched; in a processed chunk it applies the translations already known,
\* without a look at the text they were made from, and asks for the rest.
Untranslated(b) == b \notin DOMAIN cache /\ subs[b].trans = {}

Seek(c) ==
  /\ Idle /\ c \in Grid(size)
  /\ \E late \in SUBSET asked :
       LET here == {b \in DOMAIN subs : c \in processed /\ b \in c .. c + size - 1}
       IN  /\ asked' = late \cup
                       {<<b, subs[b].text>> : b \in {x \in here : Untranslated(x)}}
           /\ subs' = [b \in DOMAIN subs |->
                         IF b \in here /\ b \in DOMAIN cache
                           THEN [subs[b] EXCEPT !.trans = @ \cup {cache[b]}]
                           ELSE subs[b]]
  /\ UNCHANGED <<kind, list, manifest, alive, size, processed, cache, pc, tasks,
                 ghostVars>>

-----------------------------------------------------------------------------
\* The process ends: everything it had in memory is gone, and a write that was
\* under way stays as far as it came.
Kill ==
  /\ alive
  /\ alive' = FALSE /\ heard' = kept
  /\ subs' = <<>> /\ processed' = {} /\ cache' = <<>>
  /\ pc' = "idle" /\ tasks' = {} /\ asked' = {}
  /\ \/ UNCHANGED <<list, torn, manifest>>
     \/ /\ pc = "list" /\ list' \in Cut(subs) /\ torn' = TRUE
        /\ UNCHANGED manifest
     \/ /\ pc = "manifest" /\ manifest' = Garbled
        /\ UNCHANGED <<list, torn>>
  /\ UNCHANGED <<kind, size, starts, sizes, kept, lost>>

\* Beside a local medium there may be subtitles by somebody else, with a second
\* line or without; the files of a stream have names of the plugin's own.
ForeignLists ==
  UNION {[D -> {[text |-> Foreign, trans |-> x] : x \in {{}, {Foreign}}}] :
           D \in SUBSET Others}

Init ==
  /\ kind \in {"network", "local"} /\ manifest = Absent
  /\ list \in {Absent, Garbled} \cup (IF kind = "local" THEN ForeignLists ELSE {})
  /\ alive = FALSE /\ size \in Sizes
  /\ subs = <<>> /\ processed = {} /\ cache = <<>>
  /\ pc = "idle" /\ tasks = {} /\ asked = {}
  /\ starts = 0 /\ sizes = {} /\ heard = {} /\ kept = {}
  /\ torn = FALSE /\ lost = FALSE

Next ==
  \/ \E s \in Sizes : Start(s)
  \/ \E c \in Units : RecogniseSilence(c) \/ RecogniseSpeech(c) \/ Seek(c)
  \/ WriteList \/ WriteListFails \/ WriteManifest \/ WriteManifestFails
  \/ \E t \in asked : ResultArrives(t) \/ GivenUp(t)
  \/ Kill

Spec == Init /\ [][Next]_vars

-----------------------------------------------------------------------------
(* What must hold                                                          *)

IsCache(f) == DOMAIN f \subseteq Units /\ f \in [DOMAIN f -> 0 .. End]

IsManifest(m) ==
  /\ m = [size |-> m.size, processed |-> m.processed,
           translations |-> m.translations]
  /\ m.size \in Sizes /\ m.processed \subseteq Units
  /\ IsCache(m.translations)

TypeOK ==
  /\ kind \in {"network", "local"} /\ alive \in BOOLEAN /\ size \in Sizes
  /\ Readable(list) => IsList(list)
  /\ Readable(manifest) => IsManifest(manifest)
  /\ IsList(subs) /\ processed \subseteq Units
  /\ IsCache(cache)
  /\ pc \in {"idle", "list", "manifest"}
  /\ tasks \subseteq Units \X (0 .. End) /\ asked \subseteq Units \X (0 .. End)
  /\ starts \in 0 .. MaxStarts /\ sizes \subseteq Sizes
  /\ heard \subseteq Units /\ kept \subseteq Units
  /\ torn \in BOOLEAN /\ lost \in BOOLEAN

Covers(entries, u) ==
  \E b \in DOMAIN entries : b <= u /\ u < b + entries[b].text

\* Of every word that has been heard, by this process or by one before it that
\* saved its list, the list has an entry over the units heard, whatever the chunk
\* sizes were (plugin.rs 883, 983-988, 1134-1144), unless a list was read that a
\* write had left half-done.
HeardIsListed ==
  alive /\ ~lost => \A u \in heard \cap Spoken : Covers(subs, u)

\* A chunk that counts as processed although the list has nothing of it has been
\* heard from end to end, and nobody spoke: that is what the size in the manifest
\* is for, since the chunks of another size do not say so (plugin.rs 1146-1151).
SilentWasHeard ==
  alive /\ ~lost => \A c \in processed :
    \/ Chunk(c, size) \subseteq heard
    \/ \E b \in DOMAIN subs : b \in Chunk(c, size)

\* While all processes use one chunk size, what counts as processed has been
\* heard from end to end, also where it is inferred from the entries of a list
\* without manifest; what is not counts only because of an entry by somebody else
\* (plugin.rs 1139-1144).
OneSizeIsExact ==
  alive /\ ~lost /\ sizes = {size} =>
    \A c \in processed :
      \/ Chunk(c, size) \subseteq heard
      \/ \E b \in DOMAIN subs : b \in Chunk(c, size) /\ subs[b].text = Foreign

\* A translation stands under the text it was made from, in the list and in what
\* the cache would put there, although nothing compares the two when a seek
\* applies the cache (plugin.rs 242-250, 972-980).
TranslationsFit ==
  alive /\ ~lost => \A b \in DOMAIN subs :
    /\ subs[b].trans \subseteq {subs[b].text}
    /\ b \in DOMAIN cache => cache[b] = subs[b].text

Keeps(old, new) ==
  \A b \in DOMAIN old : /\ b \in DOMAIN new
                        /\ new[b].text = old[b].text
                        /\ old[b].trans \subseteq new[b].trans

\* While a process runs, no entry changes what it says or loses a translation:
\* recognition adds to what was loaded and never replaces it
\* (subtitle_manager.rs 29-32, plugin.rs 1139-1144).
RecognitionOnlyAdds == [][alive /\ alive' => Keeps(subs, subs')]_vars

\* A list on disk loses nothing by being written again, by whichever process and
\* whoever wrote it first, except by a write that does not end (plugin.rs 385-390,
\* 983, 1120-1137).
ListOnlyGrows ==
  [][~torn /\ ~torn' /\ Readable(list)
       => Readable(list') /\ Keeps(list, list')]_vars
===============================================================================
