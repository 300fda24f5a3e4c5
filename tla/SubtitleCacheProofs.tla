-------------------------- MODULE SubtitleCacheProofs --------------------------
(***************************************************************************)
(* What is in memory and what is on disk say the same of what was heard,   *)
(* for media of any length, words and chunk sizes, any number of processes *)
(* and a failure or death at every point of every write.                   *)
(***************************************************************************)
EXTENDS SubtitleCache, TLAPS, WellFoundedInduction

-----------------------------------------------------------------------------
(* The invariant                                                           *)

\* The translations known in c were made from the texts of list L.
Fits(L, c) ==
  DOMAIN c \subseteq DOMAIN L /\ \A b \in DOMAIN c : c[b] = L[b].text

\* The chunks P, of size s, have been heard, or list L has something of them.
Vouches(L, H, s, P) ==
  \A c \in P :
    /\ c \in Grid(s)
    /\ Chunk(c, s) \subseteq H \/ \E b \in DOMAIN L : b \in Chunk(c, s)

\* While there has been one size only, an entry tells that its chunk was heard,
\* unless it is by somebody else.
Exact(L, H, used) ==
  \A s \in Sizes : used \subseteq {s} =>
    \A b \in DOMAIN L :
      L[b].text # Foreign => Chunk(ChunkStart(b, s), s) \subseteq H

\* What list L and manifest m say is true of the units H that have been heard.
Sound(L, H, m, used) ==
  /\ \A b \in DOMAIN L : L[b].trans \subseteq {L[b].text}
  /\ \A u \in H \cap Spoken : Covers(L, u)
  /\ Exact(L, H, used)
  /\ Readable(m) => Fits(L, m.translations) /\ Vouches(L, H, m.size, m.processed)

OnDisk == ~torn /\ ~lost => Sound(LoadedEntries, kept, manifest, sizes)

InMemory ==
  alive /\ ~lost =>
    /\ Sound(subs, heard, manifest, sizes)
    /\ Fits(subs, cache) /\ Vouches(subs, heard, size, processed)
    /\ \A t \in asked \cup tasks : t[1] \in DOMAIN subs /\ t[2] = subs[t[1]].text

\* Where save_subs is, and what a process starts from.
Points ==
  /\ pc = "manifest" => list = subs /\ kept = heard /\ ~torn
  /\ ~alive => heard = kept /\ pc = "idle"
  /\ alive => size \in sizes

\* Entries belong to processed chunks, and the list on disk is an earlier one.
Grown ==
  alive =>
    /\ \A b \in DOMAIN subs : ChunkStart(b, size) \in processed
    /\ ~torn /\ Readable(list) => Keeps(list, subs)

CacheInv == TypeOK /\ Points /\ Grown /\ OnDisk /\ InMemory

-----------------------------------------------------------------------------
(* The grid                                                                *)

LEMMA Multiple ==
  ASSUME NEW q \in Nat, NEW s \in Nat \ {0}
  PROVE  (s * q) % s = 0
  OBVIOUS

LEMMA Division ==
  ASSUME NEW t \in Nat, NEW s \in Nat \ {0}
  PROVE  /\ t % s \in 0 .. s - 1 /\ t % s <= t
         /\ t \div s \in Nat /\ t = (s * (t \div s)) + (t % s)
  OBVIOUS

\* Between two neighbouring multiples there is no other.
LEMMA Gap ==
  ASSUME NEW p \in Nat, NEW q \in Nat, NEW s \in Nat \ {0},
         s * p < (s * q) + s, s * q < (s * p) + s
  PROVE  p = q
<1>1. CASE p > q
  <2>1. p >= q + 1
    BY <1>1
  <2>2. s * p >= s * (q + 1)
    BY <2>1
  <2> QED
    BY <2>2
<1>2. CASE q > p
  <2>1. q >= p + 1
    BY <1>2
  <2>2. s * q >= s * (p + 1)
    BY <2>1
  <2> QED
    BY <2>2
<1> QED
  BY <1>1, <1>2

\* Every position lies in the chunk that ChunkStart names, and in no other one of
\* the grid (plugin.rs 1140).
LEMMA ChunkFacts ==
  ASSUME NEW b \in Units, NEW s \in Nat \ {0}
  PROVE  /\ ChunkStart(b, s) \in Grid(s) /\ b \in Chunk(ChunkStart(b, s), s)
         /\ \A c \in Grid(s) : b \in Chunk(c, s) => ChunkStart(b, s) = c
<1> DEFINE r == b % s  q == b \div s
<1>1. End \in Nat /\ b \in Nat /\ b < End
  BY MediumAssumption DEF Units
<1>2. r \in 0 .. s - 1 /\ r <= b /\ q \in Nat /\ b = (s * q) + r
  BY <1>1, Division
<1>3. b - r = s * q
  BY <1>1, <1>2
<1>4. (b - r) % s = 0
  BY <1>2, <1>3, Multiple
<1>5. ChunkStart(b, s) = b - r
  BY DEF ChunkStart
<1> HIDE DEF r, q
<1>6. b - r \in 0 .. End - 1 /\ b < (b - r) + s
  BY <1>1, <1>2
<1>7. ChunkStart(b, s) \in Grid(s) /\ b \in Chunk(ChunkStart(b, s), s)
  BY <1>1, <1>2, <1>4, <1>5, <1>6 DEF Grid, Units, Chunk, Least
<1>8. ASSUME NEW c \in Grid(s), b \in Chunk(c, s) PROVE ChunkStart(b, s) = c
  <2> DEFINE p == c \div s
  <2>1. c \in Nat /\ c % s = 0 /\ c <= b /\ b < c + s
    BY <1>1, <1>8 DEF Grid, Units, Chunk, Least
  <2>2. p \in Nat /\ c = (s * p) + (c % s)
    BY <2>1, Division
  <2>3. c = s * p
    BY <2>1, <2>2
  <2> HIDE DEF p
  <2>4. s * q \in Nat /\ s * p \in Nat
    BY <1>2, <2>2
  <2>5. s * p < (s * q) + s /\ s * q < (s * p) + s
    BY <1>1, <1>2, <2>1, <2>3, <2>4
  <2>6. p = q
    BY <1>2, <2>2, <2>5, Gap
  <2> QED
    BY <1>3, <1>5, <2>3, <2>6
<1> QED
  BY <1>7, <1>8

-----------------------------------------------------------------------------
(* What is recognised in a chunk                                           *)

\* A set of natural numbers that is not empty has a least one.
LEMMA LeastOf ==
  ASSUME NEW T \in SUBSET Nat, T # {}
  PROVE  \E m \in T : \A k \in T : m <= k
<1>1. PICK m \in T : \A k \in T : <<k, m>> \notin OpToRel(<, Nat)
  BY WFMin, NatLessThanWellFounded, Zenon
<1>2. \A k \in T : ~ (k < m)
  BY <1>1, Zenon DEF OpToRel
<1> QED
  BY <1>2

\* A word ends where the first unit follows that is not spoken or not heard.
LEMMA WordFacts ==
  ASSUME NEW S \in SUBSET Units, NEW b \in S
  PROVE  /\ WordLength(b, S) \in 1 .. End /\ b + WordLength(b, S) \notin S
         /\ \A k \in 0 .. WordLength(b, S) - 1 : b + k \in S
<1>1. End \in Nat /\ b \in Nat /\ b < End /\ \A u \in S : u \in Nat /\ u < End
  BY MediumAssumption DEF Units
<1> DEFINE T == {n \in Nat : b + n \notin S}
<1>2. End - b \in T
  BY <1>1
<1>3. PICK n \in T : \A k \in T : n <= k
  BY <1>2, LeastOf
<1>4. n \in 1 .. End /\ b + n \notin S
  <2>1. n # 0 /\ n <= End - b
    BY <1>1, <1>2, <1>3
  <2> QED
    BY <1>1, <1>3, <2>1
<1>5. \A k \in 0 .. n - 1 : b + k \in S
  BY <1>3, <1>4
<1>6. \E m \in 1 .. End : b + m \notin S /\ \A k \in 0 .. m - 1 : b + k \in S
  BY <1>4, <1>5
<1> QED
  BY <1>6, Zenon DEF WordLength

\* Of every unit of S the word that it belongs to has a beginning.
LEMMA WordBegins ==
  ASSUME NEW S \in SUBSET Units, NEW u \in S
  PROVE  \E b \in S : b - 1 \notin S /\ b <= u /\ u < b + WordLength(b, S)
<1>1. End \in Nat /\ u \in Nat /\ \A x \in S : x \in Nat /\ x < End
  BY MediumAssumption DEF Units
<1> DEFINE T == {b \in Nat : b <= u /\ \A j \in b .. u : j \in S}
<1>2. u \in T
  BY <1>1
<1>3. PICK b \in T : \A k \in T : b <= k
  BY <1>2, LeastOf
<1>4. b \in Nat /\ b <= u /\ b \in S /\ \A j \in b .. u : j \in S
  BY <1>1, <1>3
<1>5. b - 1 \notin S
  <2> SUFFICES ASSUME b - 1 \in S PROVE FALSE
    OBVIOUS
  <2>1. b - 1 \in Nat /\ \A j \in b - 1 .. u : j = b - 1 \/ j \in b .. u
    BY <1>1, <1>4
  <2>2. b - 1 \in T
    BY <1>1, <1>4, <2>1
  <2> QED
    BY <1>3, <1>4, <2>1, <2>2
<1>6. WordLength(b, S) \in Nat /\ b + WordLength(b, S) \notin S
  BY <1>1, <1>4, WordFacts
<1>7. u < b + WordLength(b, S)
  BY <1>1, <1>4, <1>6
<1> QED
  BY <1>4, <1>5, <1>7

LEMMA RecognisedFacts ==
  ASSUME size \in Sizes, NEW c \in Grid(size)
  PROVE  /\ IsList(Recognised(c))
         /\ DOMAIN Recognised(c) \subseteq Chunk(c, size)
         /\ \A b \in DOMAIN Recognised(c) : Recognised(c)[b].trans = {}
         /\ \A u \in Chunk(c, size) \cap Spoken : Covers(Recognised(c), u)
<1> DEFINE S == Chunk(c, size) \cap Spoken  R == Recognised(c)
<1>1. S \in SUBSET Units
  BY MediumAssumption DEF Units
<1>2. R = [b \in {u \in S : u - 1 \notin S} |->
             [text |-> WordLength(b, S), trans |-> {}]]
  BY DEF Recognised
<1> HIDE DEF S
<1>3. \A b \in S : WordLength(b, S) \in 1 .. End
  BY <1>1, WordFacts
<1>4. \A b \in DOMAIN R : /\ b \in S /\ R[b].trans = {}
                          /\ R[b].text = WordLength(b, S) /\ R[b] \in Entry
  BY <1>2, <1>3 DEF Entry
<1>5. ASSUME NEW u \in S PROVE Covers(R, u)
  <2>1. PICK b \in S : b - 1 \notin S /\ b <= u /\ u < b + WordLength(b, S)
    BY <1>1, WordBegins
  <2>2. b \in DOMAIN R
    BY <1>2, <2>1
  <2> QED
    BY <1>4, <2>1, <2>2 DEF Covers
<1>6. IsList(R)
  BY <1>1, <1>2, <1>4 DEF IsList
<1> QED
  BY <1>4, <1>5, <1>6 DEF S

-----------------------------------------------------------------------------
(* Lists                                                                   *)

LEMMA Nothing == IsList(<<>>) /\ IsCache(<<>>) /\ DOMAIN <<>> = {}
BY DEF IsList, IsCache

LEMMA ListFacts ==
  ASSUME NEW L, IsList(L)
  PROVE  /\ DOMAIN L \subseteq Units /\ Readable(L)
         /\ \A b \in DOMAIN L : /\ L[b] \in Entry
                                /\ L[b] = [text |-> L[b].text, trans |-> L[b].trans]
                                /\ L[b].text \in 0 .. End /\ L[b].trans \subseteq 0 .. End
<1>1. DOMAIN L \subseteq Units /\ L \in [DOMAIN L -> Entry]
  BY DEF IsList
<1>2. L # Absent /\ L # Garbled
  BY <1>1, FilesAssumption, Zenon
<1>3. \A b \in DOMAIN L : L[b] \in Entry
  BY <1>1
<1> QED
  BY <1>1, <1>2, <1>3 DEF Readable, Entry

LEMMA KeepsSame ==
  ASSUME NEW L, IsList(L)
  PROVE  Keeps(L, L)
BY DEF Keeps

LEMMA KeepsOn ==
  ASSUME NEW L, NEW M, NEW N, Keeps(L, M), Keeps(M, N)
  PROVE  Keeps(L, N)
<1> SUFFICES ASSUME NEW b \in DOMAIN L
             PROVE  /\ b \in DOMAIN N /\ N[b].text = L[b].text
                    /\ L[b].trans \subseteq N[b].trans
  BY DEF Keeps
<1>1. b \in DOMAIN M /\ M[b].text = L[b].text /\ L[b].trans \subseteq M[b].trans
  BY DEF Keeps
<1>2. b \in DOMAIN N /\ N[b].text = M[b].text /\ M[b].trans \subseteq N[b].trans
  BY <1>1 DEF Keeps
<1> QED
  BY <1>1, <1>2

\* Entries at times that were free are added to the others.
LEMMA AddFacts ==
  ASSUME NEW L, IsList(L), NEW R, IsList(R), \A b \in DOMAIN R : b \notin DOMAIN L
  PROVE  /\ IsList(AddFromSrt(L, R)) /\ Keeps(L, AddFromSrt(L, R))
         /\ DOMAIN AddFromSrt(L, R) = DOMAIN L \cup DOMAIN R
         /\ \A b \in DOMAIN L : AddFromSrt(L, R)[b] = L[b]
         /\ \A b \in DOMAIN R : AddFromSrt(L, R)[b] = R[b]
<1> DEFINE A == AddFromSrt(L, R)
<1>1. A = [b \in DOMAIN L \cup DOMAIN R |-> IF b \in DOMAIN R THEN R[b] ELSE L[b]]
  BY DEF AddFromSrt
<1> HIDE DEF A
<1>2. DOMAIN A = DOMAIN L \cup DOMAIN R
  BY <1>1
<1>3. /\ \A b \in DOMAIN L : A[b] = L[b]
      /\ \A b \in DOMAIN R : A[b] = R[b]
  BY <1>1
<1>4. \A b \in DOMAIN A : A[b] \in Entry
  BY <1>2, <1>3, ListFacts
<1>5. DOMAIN A \subseteq Units
  BY <1>2, ListFacts
<1>6. IsList(A)
  BY <1>1, <1>2, <1>4, <1>5 DEF IsList
<1>7. Keeps(L, A)
  BY <1>2, <1>3 DEF Keeps
<1> QED
  BY <1>2, <1>3, <1>6, <1>7 DEF A

\* A list in which entries have gained translations.
LEMMA TranslatedFacts ==
  ASSUME NEW L, IsList(L), NEW M, DOMAIN M = DOMAIN L, M = [b \in DOMAIN L |-> M[b]],
         \A b \in DOMAIN L :
           M[b] = L[b] \/ \E x \in 0 .. End : M[b] = [L[b] EXCEPT !.trans = @ \cup {x}]
  PROVE  IsList(M) /\ Keeps(L, M)
<1>1. ASSUME NEW b \in DOMAIN L
      PROVE  M[b] \in Entry /\ M[b].text = L[b].text /\ L[b].trans \subseteq M[b].trans
  <2>1. /\ L[b] \in Entry /\ L[b] = [text |-> L[b].text, trans |-> L[b].trans]
        /\ L[b].text \in 0 .. End /\ L[b].trans \subseteq 0 .. End
    BY ListFacts
  <2>2. ASSUME NEW x \in 0 .. End, M[b] = [L[b] EXCEPT !.trans = @ \cup {x}]
        PROVE  M[b] = [text |-> L[b].text, trans |-> L[b].trans \cup {x}]
    BY <2>1, <2>2
  <2> QED
    BY <2>1, <2>2 DEF Entry
<1>2. IsList(M)
  BY <1>1, ListFacts DEF IsList
<1>3. Keeps(L, M)
  BY <1>1 DEF Keeps
<1> QED
  BY <1>2, <1>3

\* What a write that did not end has left is a list, if it can be read.
LEMMA CutFacts ==
  ASSUME NEW L, IsList(L), NEW f \in Cut(L), Readable(f)
  PROVE  IsList(f)
<1>1. \A b \in DOMAIN L : /\ b \in Nat /\ b \in Units /\ L[b] \in Entry
                          /\ L[b].text \in 0 .. End
  BY ListFacts DEF Units
<1>2. \A b \in Units : IsList(Front(L, b)) /\ IsList(Front(L, b + 1))
  BY <1>1 DEF Front, IsList
<1>3. PICK b \in DOMAIN L :
        \/ f = Front(L, b)
        \/ \E e \in Pieces(L[b]) : f = [Front(L, b + 1) EXCEPT ![b] = e]
  BY DEF Cut, Readable
<1>4. CASE f = Front(L, b)
  BY <1>1, <1>2, <1>4
<1>5. ASSUME NEW e \in Pieces(L[b]), f = [Front(L, b + 1) EXCEPT ![b] = e]
      PROVE  IsList(f)
  <2>1. e \in Entry
    <3>1. PICK n \in 1 .. L[b].text \cup {L[b].text} : e = [text |-> n, trans |-> {}]
      BY DEF Pieces
    <3>2. n \in 0 .. End
      BY <1>1, <3>1, MediumAssumption
    <3> QED
      BY <3>1, <3>2 DEF Entry
  <2>2. IsList(Front(L, b + 1))
    BY <1>1, <1>2
  <2> HIDE DEF Front
  <2> QED
    BY <1>5, <2>1, <2>2 DEF IsList
<1> QED
  BY <1>3, <1>4, <1>5

LEMMA UpdateFacts ==
  ASSUME NEW L, IsList(L), NEW b \in Units, NEW x \in 0 .. End
  PROVE  /\ IsList(UpdateTranslation(L, b, x)) /\ Keeps(L, UpdateTranslation(L, b, x))
         /\ DOMAIN UpdateTranslation(L, b, x) = DOMAIN L
         /\ \A k \in DOMAIN L :
              \/ UpdateTranslation(L, b, x)[k] = L[k]
              \/ /\ k = b
                 /\ UpdateTranslation(L, b, x)[k] = [L[k] EXCEPT !.trans = @ \cup {x}]
<1> DEFINE M == UpdateTranslation(L, b, x)
<1>1. CASE b \notin DOMAIN L
  <2>1. M = L
    BY <1>1 DEF UpdateTranslation
  <2> QED
    BY <2>1, KeepsSame
<1>2. CASE b \in DOMAIN L
  <2>1. M = [L EXCEPT ![b] = [L[b] EXCEPT !.trans = @ \cup {x}]]
    BY <1>2 DEF UpdateTranslation
  <2> HIDE DEF M
  <2>2. DOMAIN M = DOMAIN L /\ M = [k \in DOMAIN L |-> M[k]]
    BY <2>1
  <2>3. \A k \in DOMAIN L :
          M[k] = L[k] \/ (k = b /\ M[k] = [L[k] EXCEPT !.trans = @ \cup {x}])
    BY <1>2, <2>1 DEF IsList
  <2>4. IsList(M) /\ Keeps(L, M)
    BY <2>2, <2>3, TranslatedFacts
  <2> QED
    BY <2>2, <2>3, <2>4 DEF M
<1> QED
  BY <1>1, <1>2

LEMMA SeekFacts ==
  ASSUME TypeOK, NEW c \in Units, Seek(c)
  PROVE  /\ IsList(subs') /\ Keeps(subs, subs') /\ DOMAIN subs' = DOMAIN subs
         /\ \A b \in DOMAIN subs :
              \/ subs'[b] = subs[b]
              \/ /\ b \in DOMAIN cache
                 /\ subs'[b] = [subs[b] EXCEPT !.trans = @ \cup {cache[b]}]
         /\ \A t \in asked' :
              t \in asked \/ \E b \in DOMAIN subs : t = <<b, subs[b].text>>
<1> DEFINE here == {b \in DOMAIN subs : c \in processed /\ b \in c .. c + size - 1}
<1>1. /\ \E late \in SUBSET asked :
           asked' = late \cup
             {<<b, subs[b].text>> : b \in {x \in here : Untranslated(x)}}
      /\ subs' = [b \in DOMAIN subs |->
                    IF b \in here /\ b \in DOMAIN cache
                      THEN [subs[b] EXCEPT !.trans = @ \cup {cache[b]}]
                      ELSE subs[b]]
  BY DEF Seek
<1>2. here \subseteq DOMAIN subs
  OBVIOUS
<1> HIDE DEF here
<1>3. DOMAIN subs' = DOMAIN subs /\ subs' = [b \in DOMAIN subs |-> subs'[b]]
  BY <1>1
<1>4. \A b \in DOMAIN subs :
        \/ subs'[b] = subs[b]
        \/ /\ b \in DOMAIN cache
           /\ subs'[b] = [subs[b] EXCEPT !.trans = @ \cup {cache[b]}]
  BY <1>1
<1>5. IsList(subs) /\ \A b \in DOMAIN cache : cache[b] \in 0 .. End
  BY DEF TypeOK, IsCache
<1>6. IsList(subs') /\ Keeps(subs, subs')
  BY <1>3, <1>4, <1>5, TranslatedFacts
<1>7. \A t \in asked' :
        t \in asked \/ \E b \in DOMAIN subs : t = <<b, subs[b].text>>
  BY <1>1, <1>2
<1> QED
  BY <1>3, <1>4, <1>6, <1>7

\* The parts of a manifest.
LEMMA ManifestFacts ==
  ASSUME NEW m, IsManifest(m)
  PROVE  m.size \in Sizes /\ m.processed \subseteq Units /\ IsCache(m.translations)
BY DEF IsManifest

LEMMA SizeFacts ==
  /\ Sizes \subseteq Nat \ {0} /\ End \in Nat \ {0} /\ MaxStarts \in Nat
  /\ \A s \in Sizes : \A c \in Grid(s) : c \in Units /\ Chunk(c, s) \subseteq Units
<1>1. Sizes \subseteq Nat \ {0} /\ End \in Nat \ {0} /\ MaxStarts \in Nat
  BY MediumAssumption
<1>2. \A s \in Sizes : \A c \in Grid(s) : c \in Units /\ Chunk(c, s) \subseteq Units
  BY <1>1 DEF Grid, Chunk, Units, Least
<1> QED
  BY <1>1, <1>2

-----------------------------------------------------------------------------
(* Types                                                                   *)

LEMMA InferredFacts ==
  ASSUME NEW L, IsList(L), NEW s \in Sizes
  PROVE  Inferred(L, s) \subseteq Grid(s)
BY SizeFacts, ListFacts, ChunkFacts DEF Inferred

LEMMA StartTypes ==
  ASSUME TypeOK, NEW s \in Sizes, Start(s)
  PROVE  TypeOK'
<1>1. IsList(subs')
  BY Nothing DEF Start, LoadedEntries, TypeOK
<1>2. processed' \subseteq Units
  <2>1. CASE ~Readable(list)
    BY <2>1 DEF Start
  <2>2. CASE Readable(list)
    <3>1. processed' = LoadedChunks(s) /\ IsList(list)
      BY <2>2 DEF Start, TypeOK
    <3>2. Inferred(list, s) \subseteq Units
      BY <3>1, InferredFacts, SizeFacts
    <3>3. Readable(manifest) => manifest.processed \subseteq Units
      BY ManifestFacts DEF TypeOK
    <3> QED
      BY <3>1, <3>2, <3>3 DEF LoadedChunks
  <2> QED
    BY <2>1, <2>2
<1>3. IsCache(cache')
  BY Nothing, ManifestFacts DEF Start, TypeOK
<1>4. starts' \in 0 .. MaxStarts
  BY SizeFacts DEF Start, TypeOK
<1>5. sizes' \subseteq Sizes /\ size' \in Sizes
  BY DEF Start, TypeOK
<1>6. tasks' = {} /\ asked' = {} /\ pc' = "idle" /\ alive' = TRUE /\ torn' = FALSE
  BY DEF Start
<1>7. lost' \in BOOLEAN
  BY Zenon DEF Start, TypeOK
<1>8. UNCHANGED <<kind, list, manifest, heard, kept>>
  BY DEF Start
<1> QED
  BY <1>1, <1>2, <1>3, <1>4, <1>5, <1>6, <1>7, <1>8 DEF TypeOK

LEMMA RecogniseTypes ==
  ASSUME TypeOK, NEW c \in Units, RecogniseSilence(c) \/ RecogniseSpeech(c),
         RecogniseSpeech(c) => IsList(subs')
  PROVE  TypeOK'
<1>1. size \in Sizes /\ c \in Grid(size)
  BY DEF TypeOK, RecogniseSilence, RecogniseSpeech
<1>2. processed' \subseteq Units /\ heard' \subseteq Units
  BY <1>1, SizeFacts DEF TypeOK, RecogniseSilence, RecogniseSpeech
<1>3. IsList(subs')
  BY DEF TypeOK, RecogniseSilence
<1>4. tasks' \subseteq Units \X (0 .. End)
  <2>1. CASE RecogniseSilence(c)
    BY <2>1 DEF RecogniseSilence, TypeOK
  <2>2. CASE RecogniseSpeech(c)
    <3>1. IsList(Recognised(c))
      BY <1>1, RecognisedFacts
    <3>2. \A b \in DOMAIN Recognised(c) :
            b \in Units /\ Recognised(c)[b].text \in 0 .. End
      BY <3>1, ListFacts
    <3>3. tasks' = {<<b, Recognised(c)[b].text>> : b \in DOMAIN Recognised(c)}
      BY <2>2 DEF RecogniseSpeech
    <3> QED
      BY <3>2, <3>3
  <2> QED
    BY <2>1, <2>2
<1>5. pc' \in {"idle", "list", "manifest"}
  BY DEF TypeOK, RecogniseSilence, RecogniseSpeech
<1>6. UNCHANGED <<kind, list, manifest, alive, size, cache, asked,
                  starts, sizes, kept, torn, lost>>
  BY DEF RecogniseSilence, RecogniseSpeech
<1> QED
  BY <1>2, <1>3, <1>4, <1>5, <1>6 DEF TypeOK

LEMMA WriteTypes ==
  ASSUME TypeOK, WriteList \/ WriteListFails \/ WriteManifest \/ WriteManifestFails
  PROVE  TypeOK'
<1>1. Readable(list') => IsList(list')
  BY CutFacts DEF TypeOK, WriteList, WriteListFails, WriteManifest, WriteManifestFails
<1>2. Readable(manifest') => IsManifest(manifest')
  <2>1. CASE WriteManifest
    <3>1. manifest' = [size |-> size, processed |-> processed, translations |-> cache]
      BY <2>1 DEF WriteManifest
    <3> QED
      BY <3>1 DEF TypeOK, IsManifest
  <2>2. CASE WriteList \/ WriteListFails \/ WriteManifestFails
    <3>1. manifest' = manifest \/ manifest' = Garbled
      BY <2>2 DEF WriteList, WriteListFails, WriteManifestFails, CutManifest
    <3> QED
      BY <3>1 DEF TypeOK, Readable
  <2> QED
    BY <2>1, <2>2
<1>3. /\ pc' \in {"idle", "list", "manifest"}
      /\ tasks' \subseteq tasks /\ asked' \subseteq asked \cup tasks
      /\ kept' \in {kept, heard}
  BY DEF WriteList, WriteListFails, WriteManifest, WriteManifestFails, Submit
<1>4. torn' \in BOOLEAN
  BY Zenon DEF WriteList, WriteListFails, WriteManifest, WriteManifestFails, TypeOK
<1>5. UNCHANGED <<kind, alive, size, subs, processed, cache, starts, sizes, heard, lost>>
  BY DEF WriteList, WriteListFails, WriteManifest, WriteManifestFails
<1> QED
  BY <1>1, <1>2, <1>3, <1>4, <1>5 DEF TypeOK

LEMMA TranslationTypes ==
  ASSUME TypeOK, \/ \E t \in asked : ResultArrives(t) \/ GivenUp(t)
                 \/ \E c \in Units : Seek(c)
  PROVE  TypeOK' /\ Keeps(subs, subs') /\ DOMAIN subs' = DOMAIN subs
<1>1. ASSUME NEW t \in asked, ResultArrives(t)
      PROVE  TypeOK' /\ Keeps(subs, subs') /\ DOMAIN subs' = DOMAIN subs
  <2>1. t[1] \in Units /\ t[2] \in 0 .. End /\ IsList(subs)
    BY DEF TypeOK
  <2>2. IsList(subs') /\ Keeps(subs, subs') /\ DOMAIN subs' = DOMAIN subs
    BY <1>1, <2>1, UpdateFacts DEF ResultArrives
  <2>3. IsCache(cache')
    BY <1>1, <2>1 DEF ResultArrives, Remembered, IsCache, TypeOK
  <2>4. asked' \subseteq asked /\ tasks' = {} /\ pc' = "list"
    BY <1>1 DEF ResultArrives
  <2>5. UNCHANGED <<kind, list, manifest, alive, size, processed, ghostVars>>
    BY <1>1 DEF ResultArrives
  <2> QED
    BY <2>2, <2>3, <2>4, <2>5 DEF TypeOK, ghostVars
<1>2. ASSUME NEW t \in asked, GivenUp(t)
      PROVE  TypeOK' /\ Keeps(subs, subs') /\ DOMAIN subs' = DOMAIN subs
  <2>1. asked' \subseteq asked
    BY <1>2 DEF GivenUp
  <2>2. UNCHANGED <<kind, list, manifest, alive, size, subs, processed, cache,
                    pc, tasks, ghostVars>>
    BY <1>2 DEF GivenUp
  <2> QED
    BY <2>1, <2>2, KeepsSame DEF TypeOK, ghostVars
<1>3. ASSUME NEW c \in Units, Seek(c)
      PROVE  TypeOK' /\ Keeps(subs, subs') /\ DOMAIN subs' = DOMAIN subs
  <2>1. IsList(subs') /\ Keeps(subs, subs') /\ DOMAIN subs' = DOMAIN subs
    BY <1>3, SeekFacts
  <2>2. asked' \subseteq Units \X (0 .. End)
    <3>1. \A b \in DOMAIN subs : b \in Units /\ subs[b].text \in 0 .. End
      BY ListFacts DEF TypeOK
    <3>2. \A b \in DOMAIN subs : <<b, subs[b].text>> \in Units \X (0 .. End)
      BY <3>1
    <3>3. \A t \in asked' :
            t \in asked \/ \E b \in DOMAIN subs : t = <<b, subs[b].text>>
      BY <1>3, SeekFacts
    <3> QED
      BY <3>2, <3>3 DEF TypeOK
  <2>3. UNCHANGED <<kind, list, manifest, alive, size, processed, cache, pc, tasks,
                    ghostVars>>
    BY <1>3 DEF Seek
  <2> QED
    BY <2>1, <2>2, <2>3 DEF TypeOK, ghostVars
<1> QED
  BY <1>1, <1>2, <1>3

LEMMA KillTypes ==
  ASSUME TypeOK, Kill
  PROVE  TypeOK'
<1>1. Readable(list') => IsList(list')
  BY CutFacts DEF TypeOK, Kill
<1>2. Readable(manifest') => IsManifest(manifest')
  BY DEF TypeOK, Kill, Readable
<1>3. /\ subs' = <<>> /\ processed' = {} /\ cache' = <<>> /\ alive' = FALSE
      /\ pc' = "idle" /\ tasks' = {} /\ asked' = {} /\ heard' = kept
  BY DEF Kill
<1>4. torn' \in BOOLEAN
  BY Zenon DEF Kill, TypeOK
<1>5. UNCHANGED <<kind, size, starts, sizes, kept, lost>>
  BY DEF Kill
<1> QED
  BY <1>1, <1>2, <1>3, <1>4, <1>5, Nothing DEF TypeOK

-----------------------------------------------------------------------------
(* What grows stays sound                                                  *)

LEMMA CoversGrows ==
  ASSUME NEW L, NEW M, Keeps(L, M), NEW u, Covers(L, u)
  PROVE  Covers(M, u)
<1>1. PICK b \in DOMAIN L : b <= u /\ u < b + L[b].text
  BY DEF Covers
<1>2. b \in DOMAIN M /\ M[b].text = L[b].text
  BY DEF Keeps
<1> QED
  BY <1>1, <1>2 DEF Covers

LEMMA FitsGrows ==
  ASSUME NEW L, NEW M, Keeps(L, M), NEW c, Fits(L, c)
  PROVE  Fits(M, c)
BY DEF Fits, Keeps

LEMMA VouchesGrows ==
  ASSUME NEW L, NEW M, Keeps(L, M), NEW H, NEW J, H \subseteq J,
         NEW s, NEW P, Vouches(L, H, s, P)
  PROVE  Vouches(M, J, s, P)
<1> SUFFICES ASSUME NEW c \in P
             PROVE  /\ c \in Grid(s)
                    /\ Chunk(c, s) \subseteq J \/ \E b \in DOMAIN M : b \in Chunk(c, s)
  BY DEF Vouches
<1>1. /\ c \in Grid(s)
      /\ Chunk(c, s) \subseteq H \/ \E b \in DOMAIN L : b \in Chunk(c, s)
  BY DEF Vouches
<1>2. \A b \in DOMAIN L : b \in DOMAIN M
  BY DEF Keeps
<1> QED
  BY <1>1, <1>2

LEMMA SoundGrows ==
  ASSUME NEW L, NEW M, Keeps(L, M), NEW H, NEW J, H \subseteq J,
         NEW m, NEW used, Sound(L, H, m, used),
         \A b \in DOMAIN M : M[b].trans \subseteq {M[b].text},
         \A u \in (J \ H) \cap Spoken : Covers(M, u),
         \A s \in Sizes : used \subseteq {s} =>
           \A b \in DOMAIN M \ DOMAIN L : Chunk(ChunkStart(b, s), s) \subseteq J
  PROVE  Sound(M, J, m, used)
<1>1. /\ \A u \in H \cap Spoken : Covers(L, u)
      /\ Exact(L, H, used)
      /\ Readable(m) => Fits(L, m.translations) /\ Vouches(L, H, m.size, m.processed)
  BY DEF Sound
<1>2. \A u \in J \cap Spoken : Covers(M, u)
  BY <1>1, CoversGrows
<1>3. Exact(M, J, used)
  <2> SUFFICES ASSUME NEW s \in Sizes, used \subseteq {s}, NEW b \in DOMAIN M,
                      M[b].text # Foreign
               PROVE  Chunk(ChunkStart(b, s), s) \subseteq J
    BY DEF Exact
  <2>1. CASE b \in DOMAIN L
    <3>1. L[b].text # Foreign
      BY <2>1 DEF Keeps
    <3> QED
      BY <1>1, <2>1, <3>1 DEF Exact
  <2>2. CASE b \notin DOMAIN L
    BY <2>2
  <2> QED
    BY <2>1, <2>2
<1>4. Readable(m) => Fits(M, m.translations) /\ Vouches(M, J, m.size, m.processed)
  BY <1>1, FitsGrows, VouchesGrows
<1> QED
  BY <1>2, <1>3, <1>4 DEF Sound

\* A further process changes nothing about what the files say.
LEMMA SoundLater ==
  ASSUME NEW L, NEW H, NEW m, NEW used, NEW more, used \subseteq more,
         Sound(L, H, m, used)
  PROVE  Sound(L, H, m, more)
<1>1. Exact(L, H, more)
  BY DEF Sound, Exact
<1> QED
  BY <1>1 DEF Sound

\* A manifest that cannot be read says nothing.
LEMMA SoundWithout ==
  ASSUME NEW L, NEW H, NEW m, NEW n, NEW used, Sound(L, H, m, used),
         n = m \/ n = Garbled
  PROVE  Sound(L, H, n, used)
BY DEF Sound, Readable

\* A chunk is recognised only while the list has nothing of it.
LEMMA SpeechFacts ==
  ASSUME TypeOK, Grown, NEW c \in Units, RecogniseSpeech(c)
  PROVE  /\ c \in Grid(size) /\ size \in Sizes
         /\ IsList(subs') /\ Keeps(subs, subs')
         /\ DOMAIN subs' = DOMAIN subs \cup DOMAIN Recognised(c)
         /\ \A b \in DOMAIN subs : subs'[b] = subs[b]
         /\ \A b \in DOMAIN Recognised(c) :
              /\ b \in Units /\ ChunkStart(b, size) = c
              /\ subs'[b] = Recognised(c)[b] /\ subs'[b].trans = {}
         /\ \A u \in Chunk(c, size) \cap Spoken : Covers(subs', u)
<1> DEFINE R == Recognised(c)
<1>1. /\ alive /\ c \in Grid(size) /\ c \notin processed
      /\ subs' = AddFromSrt(subs, R)
  BY DEF RecogniseSpeech, Idle
<1>2. size \in Sizes /\ size \in Nat \ {0} /\ IsList(subs)
  BY SizeFacts DEF TypeOK
<1>3. /\ IsList(R) /\ DOMAIN R \subseteq Chunk(c, size)
      /\ \A b \in DOMAIN R : R[b].trans = {}
      /\ \A u \in Chunk(c, size) \cap Spoken : Covers(R, u)
  BY <1>1, <1>2, RecognisedFacts
<1> HIDE DEF R
<1>4. \A b \in DOMAIN R : b \in Units /\ ChunkStart(b, size) = c
  BY <1>1, <1>2, <1>3, ListFacts, ChunkFacts
<1>5. \A b \in DOMAIN R : b \notin DOMAIN subs
  BY <1>1, <1>4 DEF Grown
<1>6. /\ IsList(subs') /\ Keeps(subs, subs')
      /\ DOMAIN subs' = DOMAIN subs \cup DOMAIN R
      /\ \A b \in DOMAIN subs : subs'[b] = subs[b]
      /\ \A b \in DOMAIN R : subs'[b] = R[b]
  <2>1. /\ IsList(AddFromSrt(subs, R)) /\ Keeps(subs, AddFromSrt(subs, R))
        /\ DOMAIN AddFromSrt(subs, R) = DOMAIN subs \cup DOMAIN R
        /\ \A b \in DOMAIN subs : AddFromSrt(subs, R)[b] = subs[b]
        /\ \A b \in DOMAIN R : AddFromSrt(subs, R)[b] = R[b]
    <3>1. IsList(subs) /\ IsList(R)
      BY <1>2, <1>3
    <3> QED
      BY <1>5, <3>1, AddFacts
  <2> QED
    BY <1>1, <2>1, Zenon
<1>7. Keeps(R, subs')
  BY <1>3, <1>6 DEF Keeps
<1>8. \A u \in Chunk(c, size) \cap Spoken : Covers(subs', u)
  BY <1>3, <1>7, CoversGrows
<1> QED
  BY <1>1, <1>2, <1>3, <1>4, <1>6, <1>8 DEF R

-----------------------------------------------------------------------------
(* Every step keeps the invariant                                          *)

Recognise    == \E c \in Units : RecogniseSilence(c) \/ RecogniseSpeech(c)
Translations == \/ \E t \in asked : ResultArrives(t) \/ GivenUp(t)
                \/ \E c \in Units : Seek(c)
Writes       == WriteList \/ WriteListFails \/ WriteManifest \/ WriteManifestFails

LEMMA Steps ==
  ASSUME [Next]_vars
  PROVE  \/ \E s \in Sizes : Start(s)
         \/ Recognise \/ Translations \/ Writes \/ Kill \/ UNCHANGED vars
BY DEF Next, Recognise, Translations, Writes

LEMMA TypeStep ==
  ASSUME TypeOK, Grown, [Next]_vars
  PROVE  TypeOK'
<1>1. CASE UNCHANGED vars
  BY <1>1 DEF vars, TypeOK
<1>2. CASE Recognise
  BY <1>2, RecogniseTypes, SpeechFacts DEF Recognise
<1>3. CASE Translations
  BY <1>3, TranslationTypes DEF Translations
<1>4. CASE Writes
  BY <1>4, WriteTypes DEF Writes
<1> QED
  BY <1>1, <1>2, <1>3, <1>4, StartTypes, KillTypes, Steps

LEMMA PointsStep ==
  ASSUME TypeOK, Points, [Next]_vars
  PROVE  Points'
<1>1. CASE UNCHANGED vars
  BY <1>1 DEF vars, Points
<1>2. ASSUME NEW s \in Sizes, Start(s) PROVE Points'
  BY <1>2 DEF Start, Points
<1>3. CASE Recognise
  BY <1>3 DEF Recognise, RecogniseSilence, RecogniseSpeech, Idle, Points
<1>4. CASE Translations
  BY <1>4 DEF Translations, ResultArrives, GivenUp, Seek, Idle, Points, ghostVars
<1>5. CASE Writes
  BY <1>5 DEF Writes, WriteList, WriteListFails, WriteManifest, WriteManifestFails, Points
<1>6. CASE Kill
  BY <1>6 DEF Kill, Points
<1> QED
  BY <1>1, <1>2, <1>3, <1>4, <1>5, <1>6, Steps

\* While a process runs nothing is taken from the list in memory.
LEMMA MemoryKeeps ==
  ASSUME TypeOK, Grown, [Next]_vars, alive, alive'
  PROVE  Keeps(subs, subs')
<1>1. IsList(subs)
  BY DEF TypeOK
<1>2. CASE Recognise
  <2>1. ASSUME NEW c \in Units, RecogniseSilence(c) PROVE Keeps(subs, subs')
    BY <1>1, <2>1, KeepsSame DEF RecogniseSilence
  <2> QED
    BY <1>2, <2>1, SpeechFacts DEF Recognise
<1>3. CASE Translations
  BY <1>3, TranslationTypes DEF Translations
<1>4. CASE Writes
  BY <1>1, <1>4, KeepsSame
     DEF Writes, WriteList, WriteListFails, WriteManifest, WriteManifestFails
<1>5. CASE UNCHANGED vars
  BY <1>1, <1>5, KeepsSame DEF vars
<1>6. CASE Kill
  BY <1>6 DEF Kill
<1>7. ASSUME NEW s \in Sizes, Start(s) PROVE FALSE
  BY <1>7 DEF Start
<1> QED
  BY <1>2, <1>3, <1>4, <1>5, <1>6, <1>7, Steps

LEMMA GrownStep ==
  ASSUME TypeOK, Grown, [Next]_vars
  PROVE  Grown'
<1>1. CASE UNCHANGED vars
  <2>1. Keeps(list, subs)' <=> Keeps(list, subs)
    BY <1>1 DEF vars, Keeps
  <2> QED
    BY <1>1, <2>1 DEF vars, Grown, Readable
<1>2. ASSUME NEW s \in Sizes, Start(s) PROVE Grown'
  <2>1. CASE Readable(list)
    <3>1. IsList(list) /\ subs' = list /\ list' = list /\ size' = s
      BY <1>2, <2>1 DEF TypeOK, Start, LoadedEntries
    <3>2. Inferred(list, s) \subseteq processed'
      BY <1>2, <2>1 DEF Start, LoadedChunks
    <3>3. Keeps(list, subs)'
      BY <3>1, KeepsSame
    <3> QED
      BY <3>1, <3>2, <3>3 DEF Grown, Inferred
  <2>2. CASE ~Readable(list)
    BY <1>2, <2>2, Nothing DEF Start, LoadedEntries, Grown, Readable
  <2> QED
    BY <2>1, <2>2
<1>3. CASE Recognise
  <2>1. /\ UNCHANGED <<list, torn, alive, size>> /\ alive
        /\ processed \subseteq processed'
    BY <1>3 DEF Recognise, RecogniseSilence, RecogniseSpeech, Idle
  <2>2. Keeps(subs, subs')
    BY <2>1, MemoryKeeps
  <2>3. ~torn /\ Readable(list) => Keeps(list, subs')
    BY <2>1, <2>2, KeepsOn DEF Grown
  <2>4. \A b \in DOMAIN subs' : ChunkStart(b, size) \in processed'
    <3>1. ASSUME NEW c \in Units, RecogniseSilence(c)
          PROVE  \A b \in DOMAIN subs' : ChunkStart(b, size) \in processed'
      BY <3>1, <2>1 DEF RecogniseSilence, Grown
    <3>2. ASSUME NEW c \in Units, RecogniseSpeech(c)
          PROVE  \A b \in DOMAIN subs' : ChunkStart(b, size) \in processed'
      <4>1. c \in processed'
        BY <3>2 DEF RecogniseSpeech
      <4>2. /\ DOMAIN subs' = DOMAIN subs \cup DOMAIN Recognised(c)
            /\ \A b \in DOMAIN Recognised(c) : ChunkStart(b, size) = c
        BY <3>2, SpeechFacts
      <4> QED
        BY <2>1, <4>1, <4>2 DEF Grown
    <3> QED
      BY <1>3, <3>1, <3>2 DEF Recognise
  <2> QED
    BY <2>1, <2>3, <2>4 DEF Grown, Readable
<1>4. CASE Translations
  <2>1. UNCHANGED <<list, torn, alive, size, processed>> /\ alive
    BY <1>4 DEF Translations, ResultArrives, GivenUp, Seek, Idle, ghostVars
  <2>2. Keeps(subs, subs') /\ DOMAIN subs' = DOMAIN subs
    BY <1>4, TranslationTypes DEF Translations
  <2>3. ~torn /\ Readable(list) => Keeps(list, subs')
    BY <2>1, <2>2, KeepsOn DEF Grown
  <2> QED
    BY <2>1, <2>2, <2>3 DEF Grown, Readable
<1>5. CASE Writes
  <2>1. UNCHANGED <<alive, size, subs, processed>> /\ alive
    BY <1>5 DEF Writes, WriteList, WriteListFails, WriteManifest, WriteManifestFails
  <2>2. torn' \/ UNCHANGED <<list, torn>> \/ list' = subs
    BY <1>5 DEF Writes, WriteList, WriteListFails, WriteManifest, WriteManifestFails
  <2>3. Keeps(subs, subs)
    BY KeepsSame DEF TypeOK
  <2>4. ~torn' /\ Readable(list') => Keeps(list', subs')
    BY <2>1, <2>2, <2>3 DEF Grown, Readable
  <2> QED
    BY <2>1, <2>4 DEF Grown
<1>6. CASE Kill
  BY <1>6 DEF Kill, Grown
<1> QED
  BY <1>1, <1>2, <1>3, <1>4, <1>5, <1>6, Steps

\* What is in memory is sound whatever becomes of the manifest.
LEMMA ManifestSound ==
  ASSUME TypeOK, Points, InMemory, alive, ~lost,
         WriteManifest \/ WriteManifestFails
  PROVE  Sound(subs, heard, manifest', sizes)
<1>1. Sound(subs, heard, manifest, sizes)
  BY DEF InMemory
<1>2. CASE WriteManifestFails
  <2>1. manifest' = manifest \/ manifest' = Garbled
    BY <1>2 DEF WriteManifestFails, CutManifest
  <2> QED
    BY <1>1, <2>1, SoundWithout
<1>3. CASE WriteManifest
  <2>1. manifest' = [size |-> size, processed |-> processed, translations |-> cache]
    BY <1>3 DEF WriteManifest
  <2>2. /\ manifest'.size = size /\ manifest'.processed = processed
        /\ manifest'.translations = cache
    BY <2>1
  <2>3. Fits(subs, cache) /\ Vouches(subs, heard, size, processed)
    BY DEF InMemory
  <2>4. Fits(subs, manifest'.translations)
        /\ Vouches(subs, heard, manifest'.size, manifest'.processed)
    BY <2>2, <2>3, Zenon
  <2> QED
    BY <1>1, <2>4 DEF Sound
<1> QED
  BY <1>2, <1>3

LEMMA DiskStep ==
  ASSUME TypeOK, Points, OnDisk, InMemory, [Next]_vars
  PROVE  OnDisk'
<1> SUFFICES ASSUME ~torn', ~lost'
             PROVE  Sound(LoadedEntries', kept', manifest', sizes')
  BY DEF OnDisk
<1>1. CASE UNCHANGED <<list, manifest, sizes, kept, torn, lost>>
  BY <1>1 DEF OnDisk, LoadedEntries, Readable
<1>2. ASSUME NEW s \in Sizes, Start(s)
      PROVE  Sound(LoadedEntries', kept', manifest', sizes')
  <2>1. /\ UNCHANGED <<list, manifest, kept>> /\ sizes \subseteq sizes'
        /\ ~torn /\ ~lost
    BY <1>2 DEF Start
  <2>2. Sound(LoadedEntries, kept, manifest, sizes)
    BY <2>1 DEF OnDisk
  <2>3. LoadedEntries' = LoadedEntries
    BY <2>1 DEF LoadedEntries, Readable
  <2> QED
    BY <2>1, <2>2, <2>3, SoundLater
<1>3. CASE WriteList
  <2>1. /\ list' = subs /\ kept' = heard /\ UNCHANGED <<manifest, sizes>>
        /\ alive /\ ~lost
    BY <1>3 DEF WriteList
  <2>2. Readable(list')
    BY <2>1, ListFacts DEF TypeOK, Readable
  <2>3. LoadedEntries' = subs
    BY <2>1, <2>2 DEF LoadedEntries
  <2> QED
    BY <2>1, <2>3 DEF InMemory
<1>4. CASE WriteListFails
  <2>1. UNCHANGED <<list, manifest, sizes, kept, torn, lost>>
    BY <1>4 DEF WriteListFails
  <2> QED
    BY <1>1, <2>1
<1>5. CASE WriteManifest \/ WriteManifestFails
  <2>1. alive /\ pc = "manifest" /\ ~lost /\ UNCHANGED <<list, kept, sizes>>
    BY <1>5 DEF WriteManifest, WriteManifestFails
  <2>2. list = subs /\ kept = heard
    BY <2>1 DEF Points
  <2>3. Readable(list)
    BY <2>2, ListFacts DEF TypeOK
  <2>4. LoadedEntries' = subs
    BY <2>1, <2>2, <2>3 DEF LoadedEntries, Readable
  <2> QED
    BY <1>5, <2>1, <2>2, <2>4, ManifestSound
<1>6. CASE Kill
  <2>1. /\ UNCHANGED <<list, kept, sizes>> /\ ~torn /\ ~lost
        /\ manifest' = manifest \/ manifest' = Garbled
    BY <1>6 DEF Kill
  <2>2. Sound(LoadedEntries, kept, manifest, sizes)
    BY <2>1 DEF OnDisk
  <2>3. LoadedEntries' = LoadedEntries
    BY <2>1 DEF LoadedEntries, Readable
  <2> QED
    BY <2>1, <2>2, <2>3, SoundWithout
<1>7. CASE Recognise
  BY <1>1, <1>7 DEF Recognise, RecogniseSilence, RecogniseSpeech
<1>8. CASE Translations
  BY <1>1, <1>8 DEF Translations, ResultArrives, GivenUp, Seek, ghostVars
<1>9. CASE UNCHANGED vars
  BY <1>1, <1>9 DEF vars
<1> QED
  BY <1>2, <1>3, <1>4, <1>5, <1>6, <1>7, <1>8, <1>9, Steps DEF Writes

\* A process begins with what the disk says.
LEMMA StartMemory ==
  ASSUME TypeOK, Points, OnDisk, NEW s \in Sizes, Start(s)
  PROVE  InMemory'
<1> SUFFICES ASSUME ~lost' PROVE InMemory'
  BY DEF InMemory
<1>1. /\ ~torn /\ ~lost /\ subs' = LoadedEntries /\ size' = s
      /\ UNCHANGED <<manifest, heard>> /\ sizes \subseteq sizes'
      /\ tasks' = {} /\ asked' = {} /\ heard = kept
  BY DEF Start, Points
<1>2. Sound(LoadedEntries, kept, manifest, sizes)
  BY <1>1 DEF OnDisk
<1>3. Sound(subs', heard', manifest', sizes')
  BY <1>1, <1>2, SoundLater
<1>4. Readable(manifest) =>
        /\ Fits(LoadedEntries, manifest.translations)
        /\ Vouches(LoadedEntries, kept, manifest.size, manifest.processed)
  BY <1>2 DEF Sound
<1>5. Fits(subs', cache')
  <2>1. Fits(subs', <<>>)
    BY Nothing DEF Fits
  <2> QED
    BY <1>1, <1>4, <2>1 DEF Start
<1>6. Vouches(subs', heard', s, processed')
  <2>1. CASE ~Readable(list)
    BY <2>1 DEF Start, Vouches
  <2>2. CASE Readable(list)
    <3>1. /\ IsList(list) /\ subs' = list /\ LoadedEntries = list
          /\ processed' = LoadedChunks(s)
      BY <2>2, <1>1 DEF Start, LoadedEntries, TypeOK
    <3>2. ASSUME NEW c \in Inferred(list, s)
          PROVE  c \in Grid(s) /\ \E b \in DOMAIN list : b \in Chunk(c, s)
      BY <3>1, <3>2, ListFacts, ChunkFacts, SizeFacts DEF Inferred
    <3>3. Vouches(list, kept, s, Inferred(list, s))
      BY <3>2 DEF Vouches
    <3>4. Readable(manifest) /\ manifest.size = s
            => Vouches(list, kept, s, manifest.processed)
      BY <1>4, <3>1
    <3> QED
      BY <1>1, <3>1, <3>3, <3>4 DEF LoadedChunks, Vouches
  <2> QED
    BY <2>1, <2>2
<1> QED
  BY <1>1, <1>3, <1>5, <1>6 DEF InMemory

LEMMA RecogniseMemory ==
  ASSUME TypeOK, Points, Grown, InMemory, Recognise, ~lost
  PROVE  InMemory'
<1>1. /\ alive /\ UNCHANGED <<manifest, sizes, size, cache, asked>>
      /\ heard \subseteq heard'
  BY DEF Recognise, RecogniseSilence, RecogniseSpeech, Idle
<1>2. /\ Sound(subs, heard, manifest, sizes)
      /\ Fits(subs, cache) /\ Vouches(subs, heard, size, processed)
      /\ \A t \in asked \cup tasks : t[1] \in DOMAIN subs /\ t[2] = subs[t[1]].text
  BY <1>1 DEF InMemory
<1>3. \A b \in DOMAIN subs : subs[b].trans \subseteq {subs[b].text}
  BY <1>2 DEF Sound
<1>4. size \in sizes
  BY <1>1 DEF Points
<1>5. ASSUME NEW c \in Units, RecogniseSilence(c) PROVE InMemory'
  <2>1. /\ c \in Grid(size) /\ subs' = subs /\ heard' = heard \cup Chunk(c, size)
        /\ processed' = processed \cup {c} /\ DOMAIN Recognised(c) = {}
        /\ tasks' = tasks
    BY <1>5 DEF RecogniseSilence
  <2>2. Chunk(c, size) \cap Spoken = {}
    BY <2>1, RecognisedFacts DEF TypeOK, Covers
  <2>3. Keeps(subs, subs)
    BY KeepsSame DEF TypeOK
  <2>4. Sound(subs, heard', manifest, sizes)
    BY <1>1, <1>2, <1>3, <2>1, <2>2, <2>3, SoundGrows
  <2>5. Vouches(subs, heard', size, processed)
    BY <1>1, <1>2, <2>3, VouchesGrows
  <2>6. Vouches(subs, heard', size, processed')
    BY <2>1, <2>5 DEF Vouches
  <2> QED
    BY <1>1, <1>2, <2>1, <2>4, <2>6 DEF InMemory
<1>6. ASSUME NEW c \in Units, RecogniseSpeech(c) PROVE InMemory'
  <2>1. /\ heard' = heard \cup Chunk(c, size) /\ processed' = processed \cup {c}
        /\ tasks' = {<<b, Recognised(c)[b].text>> : b \in DOMAIN Recognised(c)}
    BY <1>6 DEF RecogniseSpeech
  <2>2. /\ c \in Grid(size) /\ size \in Sizes
        /\ IsList(subs') /\ Keeps(subs, subs')
        /\ DOMAIN subs' = DOMAIN subs \cup DOMAIN Recognised(c)
        /\ \A b \in DOMAIN subs : subs'[b] = subs[b]
        /\ \A b \in DOMAIN Recognised(c) :
             /\ b \in Units /\ ChunkStart(b, size) = c
             /\ subs'[b] = Recognised(c)[b] /\ subs'[b].trans = {}
        /\ \A u \in Chunk(c, size) \cap Spoken : Covers(subs', u)
    BY <1>6, SpeechFacts
  <2>3. \A b \in DOMAIN subs' : subs'[b].trans \subseteq {subs'[b].text}
    BY <1>3, <2>2
  <2>4. \A u \in (heard' \ heard) \cap Spoken : Covers(subs', u)
    BY <2>1, <2>2
  <2>5. ASSUME NEW s \in Sizes, sizes \subseteq {s}, NEW b \in DOMAIN subs' \ DOMAIN subs
        PROVE  Chunk(ChunkStart(b, s), s) \subseteq heard'
    <3>1. s = size
      BY <1>4, <2>5
    <3>2. ChunkStart(b, size) = c
      BY <2>2, <2>5
    <3> QED
      BY <2>1, <3>1, <3>2
  <2>6. Sound(subs', heard', manifest, sizes)
    BY <1>1, <1>2, <2>2, <2>3, <2>4, <2>5, SoundGrows
  <2>7. Fits(subs', cache)
    BY <1>2, <2>2, FitsGrows
  <2>8. Vouches(subs', heard', size, processed)
    BY <1>1, <1>2, <2>2, VouchesGrows
  <2>9. Vouches(subs', heard', size, processed')
    BY <2>1, <2>2, <2>8 DEF Vouches
  <2>10. \A t \in asked' \cup tasks' :
           t[1] \in DOMAIN subs' /\ t[2] = subs'[t[1]].text
    <3>1. \A t \in asked : t[1] \in DOMAIN subs' /\ t[2] = subs'[t[1]].text
      BY <1>2, <2>2
    <3>2. \A b \in DOMAIN Recognised(c) : b \in DOMAIN subs' /\ subs'[b] = Recognised(c)[b]
      BY <2>2
    <3>3. \A t \in tasks' : t[1] \in DOMAIN subs' /\ t[2] = subs'[t[1]].text
      BY <2>1, <3>2
    <3> QED
      BY <1>1, <3>1, <3>3
  <2> QED
    BY <1>1, <2>6, <2>7, <2>9, <2>10 DEF InMemory
<1> QED
  BY <1>5, <1>6 DEF Recognise

\* Translations come under the texts they were made from.
LEMMA TranslationMemory ==
  ASSUME TypeOK, Points, InMemory, Translations, ~lost
  PROVE  InMemory'
<1>1. /\ alive /\ UNCHANGED <<manifest, sizes, size, heard, processed>>
  BY DEF Translations, ResultArrives, GivenUp, Seek, Idle, ghostVars
<1>2. /\ Sound(subs, heard, manifest, sizes)
      /\ Fits(subs, cache) /\ Vouches(subs, heard, size, processed)
      /\ \A t \in asked \cup tasks : t[1] \in DOMAIN subs /\ t[2] = subs[t[1]].text
  BY <1>1 DEF InMemory
<1>3. \A b \in DOMAIN subs : subs[b].trans \subseteq {subs[b].text}
  BY <1>2 DEF Sound
<1>4. /\ IsList(subs') /\ Keeps(subs, subs') /\ DOMAIN subs' = DOMAIN subs
      /\ \A b \in DOMAIN subs : subs'[b].text = subs[b].text
  BY TranslationTypes DEF Translations, TypeOK, Keeps
<1>5. IsList(subs)
  BY DEF TypeOK
<1>6. ASSUME \A b \in DOMAIN subs :
               \/ subs'[b] = subs[b]
               \/ subs'[b] = [subs[b] EXCEPT !.trans = @ \cup {subs[b].text}],
             Fits(subs', cache'),
             \A t \in asked' \cup tasks' :
               t \in asked \cup tasks \/ \E b \in DOMAIN subs : t = <<b, subs[b].text>>
      PROVE  InMemory'
  <2>1. \A b \in DOMAIN subs' : subs'[b].trans \subseteq {subs'[b].text}
    <3>1. \A b \in DOMAIN subs : subs[b] = [text |-> subs[b].text, trans |-> subs[b].trans]
      BY <1>5, ListFacts
    <3> QED
      BY <1>3, <1>4, <1>6, <3>1
  <2>2. Sound(subs', heard', manifest', sizes')
    BY <1>1, <1>2, <1>4, <2>1, SoundGrows
  <2>3. Vouches(subs', heard', size', processed')
    BY <1>1, <1>2, <1>4, VouchesGrows
  <2>4. \A t \in asked' \cup tasks' :
          t[1] \in DOMAIN subs' /\ t[2] = subs'[t[1]].text
    BY <1>2, <1>4, <1>6
  <2> QED
    BY <1>6, <2>2, <2>3, <2>4 DEF InMemory
<1>7. ASSUME NEW t \in asked, ResultArrives(t) PROVE InMemory'
  <2>1. /\ t[1] \in DOMAIN subs /\ t[2] = subs[t[1]].text
        /\ t[1] \in Units /\ t[2] \in 0 .. End
    BY <1>2 DEF TypeOK
  <2>2. /\ subs' = UpdateTranslation(subs, t[1], t[2]) /\ cache' = Remembered(t[1], t[2])
        /\ asked' \subseteq asked /\ tasks' = {}
    BY <1>7 DEF ResultArrives
  <2>3. \A k \in DOMAIN subs :
          \/ subs'[k] = subs[k]
          \/ k = t[1] /\ subs'[k] = [subs[k] EXCEPT !.trans = @ \cup {t[2]}]
    BY <1>5, <2>1, <2>2, UpdateFacts
  <2>4. Fits(subs', cache')
    BY <1>2, <1>4, <2>1, <2>2 DEF Fits, Remembered
  <2> QED
    BY <1>6, <2>1, <2>2, <2>3, <2>4
<1>8. ASSUME NEW t \in asked, GivenUp(t) PROVE InMemory'
  <2>1. asked' \subseteq asked /\ UNCHANGED <<subs, cache, tasks>>
    BY <1>8 DEF GivenUp
  <2> QED
    BY <1>2, <1>6, <2>1
<1>9. ASSUME NEW c \in Units, Seek(c) PROVE InMemory'
  <2>1. /\ \A b \in DOMAIN subs :
             \/ subs'[b] = subs[b]
             \/ /\ b \in DOMAIN cache
                /\ subs'[b] = [subs[b] EXCEPT !.trans = @ \cup {cache[b]}]
        /\ \A t \in asked' :
             t \in asked \/ \E b \in DOMAIN subs : t = <<b, subs[b].text>>
    BY <1>9, SeekFacts
  <2>2. UNCHANGED <<cache, tasks>>
    BY <1>9 DEF Seek
  <2>3. \A b \in DOMAIN cache : cache[b] = subs[b].text
    BY <1>2 DEF Fits
  <2>4. Fits(subs', cache')
    BY <1>2, <1>4, <2>2, FitsGrows
  <2> QED
    BY <1>6, <2>1, <2>2, <2>3, <2>4
<1> QED
  BY <1>7, <1>8, <1>9 DEF Translations

LEMMA MemoryStep ==
  ASSUME TypeOK, Points, Grown, OnDisk, InMemory, [Next]_vars
  PROVE  InMemory'
<1> SUFFICES ASSUME alive', ~lost' PROVE InMemory'
  BY DEF InMemory
<1>1. CASE UNCHANGED vars
  BY <1>1 DEF vars, InMemory
<1>2. ~lost
  BY Steps DEF Start, Recognise, RecogniseSilence, RecogniseSpeech, Translations,
     ResultArrives, GivenUp, Seek, ghostVars, Writes, WriteList, WriteListFails,
     WriteManifest, WriteManifestFails, Kill, vars
<1>3. CASE Writes
  <2>1. /\ alive /\ UNCHANGED <<sizes, size, subs, cache, heard, processed>>
        /\ asked' \cup tasks' \subseteq asked \cup tasks
    BY <1>3 DEF Writes, WriteList, WriteListFails, WriteManifest, WriteManifestFails, Submit
  <2>2. Sound(subs, heard, manifest', sizes)
    <3>1. CASE UNCHANGED manifest
      BY <1>2, <2>1, <3>1 DEF InMemory
    <3>2. CASE WriteManifest \/ WriteManifestFails
      BY <1>2, <2>1, <3>2, ManifestSound
    <3> QED
      BY <1>3, <3>1, <3>2 DEF Writes, WriteList, WriteListFails
  <2> QED
    BY <1>2, <2>1, <2>2 DEF InMemory
<1>4. ~Kill
  BY DEF Kill
<1> QED
  BY <1>1, <1>2, <1>3, <1>4, StartMemory, RecogniseMemory, TranslationMemory, Steps

-----------------------------------------------------------------------------
(* The theorems                                                            *)

LEMMA InitInv == Init => CacheInv
<1> SUFFICES ASSUME Init PROVE CacheInv
  OBVIOUS
<1>1. ~Readable(manifest)
  BY DEF Init, Readable
<1>2. /\ IsList(LoadedEntries)
      /\ \A b \in DOMAIN LoadedEntries :
           /\ LoadedEntries[b].trans \subseteq {LoadedEntries[b].text}
           /\ LoadedEntries[b].text = Foreign
      /\ Readable(list) => LoadedEntries = list
  <2>1. CASE list \notin ForeignLists
    <3>1. ~Readable(list)
      BY <2>1 DEF Init, Readable
    <3> QED
      BY <3>1, Nothing DEF LoadedEntries
  <2>2. CASE list \in ForeignLists
    <3>1. PICK D \in SUBSET Others :
            list \in [D -> {[text |-> Foreign, trans |-> x] : x \in {{}, {Foreign}}}]
      BY <2>2 DEF ForeignLists
    <3>2. /\ DOMAIN list = D /\ D \subseteq Units /\ list = [b \in D |-> list[b]]
          /\ \A b \in D : \E x \in {{}, {Foreign}} :
               list[b] = [text |-> Foreign, trans |-> x]
      BY <3>1, MediumAssumption DEF Units
    <3>3. \A x \in {{}, {Foreign}} : [text |-> Foreign, trans |-> x] \in Entry
      BY SizeFacts DEF Entry, Foreign
    <3>4. \A b \in D : /\ list[b] \in Entry
                       /\ list[b].trans \subseteq {list[b].text}
                       /\ list[b].text = Foreign
      <4> SUFFICES ASSUME NEW b \in D
                   PROVE  /\ list[b] \in Entry
                          /\ list[b].trans \subseteq {list[b].text}
                          /\ list[b].text = Foreign
        OBVIOUS
      <4>1. PICK x \in {{}, {Foreign}} : list[b] = [text |-> Foreign, trans |-> x]
        BY <3>2
      <4>2. list[b].text = Foreign /\ list[b].trans = x
        BY <4>1
      <4>3. list[b] \in Entry
        BY <3>3, <4>1
      <4> QED
        BY <4>2, <4>3
    <3>5. IsList(list)
      BY <3>2, <3>4 DEF IsList
    <3>6. LoadedEntries = list
      BY <3>5, ListFacts DEF LoadedEntries
    <3> QED
      BY <3>2, <3>4, <3>5, <3>6
  <2> QED
    BY <2>1, <2>2
<1>3. Sound(LoadedEntries, kept, manifest, sizes)
  BY <1>1, <1>2 DEF Init, Sound, Exact
<1>4. TypeOK
  <2>1. /\ kind \in {"network", "local"} /\ size \in Sizes /\ pc \in {"idle", "list", "manifest"}
        /\ subs = <<>> /\ cache = <<>> /\ starts \in 0 .. MaxStarts
    BY SizeFacts DEF Init
  <2>2. alive \in BOOLEAN /\ torn \in BOOLEAN /\ lost \in BOOLEAN
    BY Zenon DEF Init
  <2>3. processed = {} /\ tasks = {} /\ asked = {} /\ sizes = {} /\ heard = {} /\ kept = {}
    BY DEF Init
  <2>4. Readable(list) => IsList(list)
    BY <1>2
  <2> QED
    BY <1>1, <2>1, <2>2, <2>3, <2>4, Nothing DEF TypeOK
<1> QED
  BY <1>3, <1>4 DEF Init, CacheInv, Points, Grown, OnDisk, InMemory

LEMMA StepInv == CacheInv /\ [Next]_vars => CacheInv'
BY TypeStep, PointsStep, GrownStep, DiskStep, MemoryStep DEF CacheInv

LEMMA CacheCorrect == Spec => []CacheInv
BY InitInv, StepInv, PTL DEF Spec

\* The list in memory and both files are what the plugin takes them for, whatever
\* was left by the process before (plugin.rs 983-1151).
THEOREM CacheTypesHold == Spec => []TypeOK
<1>1. CacheInv => TypeOK
  BY DEF CacheInv
<1> QED
  BY <1>1, CacheCorrect, PTL

\* No word that was heard is missing from the list, after any restarts with any
\* chunk sizes, unless a half-written list was read (plugin.rs 883, 983-988).
THEOREM WhatIsHeardIsListed == Spec => []HeardIsListed
<1>1. CacheInv => HeardIsListed
  BY DEF CacheInv, InMemory, Sound, HeardIsListed
<1> QED
  BY <1>1, CacheCorrect, PTL

\* Chunks without an entry count as processed only if they were heard to be
\* silent: manifests of another chunk size do not count (plugin.rs 1146-1151).
THEOREM SilenceIsHeard == Spec => []SilentWasHeard
<1>1. CacheInv => SilentWasHeard
  BY DEF CacheInv, InMemory, Vouches, SilentWasHeard
<1> QED
  BY <1>1, CacheCorrect, PTL

\* With one chunk size the inference from entries to processed chunks is exact but
\* for the entries of somebody else (plugin.rs 1139-1144).
THEOREM InferenceIsExact == Spec => []OneSizeIsExact
<1>1. CacheInv => OneSizeIsExact
  <2> DEFINE foreign(c) ==
        \E b \in DOMAIN subs : b \in Chunk(c, size) /\ subs[b].text = Foreign
  <2> SUFFICES ASSUME CacheInv, alive, ~lost, sizes = {size}, NEW c \in processed,
                      ~foreign(c)
               PROVE  Chunk(c, size) \subseteq heard
    BY DEF OneSizeIsExact
  <2>1. Vouches(subs, heard, size, processed) /\ Exact(subs, heard, sizes)
    BY DEF CacheInv, InMemory, Sound
  <2>2. /\ c \in Grid(size)
        /\ Chunk(c, size) \subseteq heard \/ \E b \in DOMAIN subs : b \in Chunk(c, size)
    BY <2>1 DEF Vouches
  <2>3. size \in Sizes /\ size \in Nat \ {0} /\ DOMAIN subs \subseteq Units
    BY SizeFacts DEF CacheInv, TypeOK, IsList
  <2>4. ASSUME NEW b \in DOMAIN subs, b \in Chunk(c, size)
        PROVE  Chunk(c, size) \subseteq heard
    <3>1. ChunkStart(b, size) = c
      BY <2>2, <2>3, <2>4, ChunkFacts
    <3> QED
      BY <2>1, <2>3, <2>4, <3>1 DEF Exact
  <2> QED
    BY <2>2, <2>4
<1> QED
  BY <1>1, CacheCorrect, PTL

\* No entry carries the translation of another text, also after a seek has applied
\* the cache of an earlier process (plugin.rs 242-250, 972-980).
THEOREM TranslationsStayFitting == Spec => []TranslationsFit
<1>1. CacheInv => TranslationsFit
  BY DEF CacheInv, InMemory, Sound, Fits, TranslationsFit
<1> QED
  BY <1>1, CacheCorrect, PTL

\* While a process runs its list only grows, although BTreeMap::insert replaces
\* what it finds (subtitle_manager.rs 29-32).
THEOREM EntriesAreNotReplaced == Spec => RecognitionOnlyAdds
<1>1. CacheInv /\ [Next]_vars => [alive /\ alive' => Keeps(subs, subs')]_vars
  BY MemoryKeeps DEF CacheInv
<1> QED
  BY <1>1, CacheCorrect, PTL DEF Spec, RecognitionOnlyAdds

\* No process takes anything from the list of another one (plugin.rs 983,
\* 1120-1137).
THEOREM FilesAreNotShortened == Spec => ListOnlyGrows
<1>1. CacheInv /\ [Next]_vars
        => [~torn /\ ~torn' /\ Readable(list)
              => Readable(list') /\ Keeps(list, list')]_vars
  <2> SUFFICES ASSUME CacheInv, [Next]_vars, ~torn, ~torn', Readable(list)
               PROVE  Readable(list') /\ Keeps(list, list')
    OBVIOUS
  <2>1. IsList(list) /\ IsList(subs)
    BY DEF CacheInv, TypeOK
  <2>2. CASE list' = list
    BY <2>1, <2>2, KeepsSame
  <2>3. CASE WriteList
    <3>1. list' = subs /\ alive
      BY <2>3 DEF WriteList
    <3> QED
      BY <2>1, <3>1, ListFacts DEF CacheInv, Grown
  <2>4. list' = list \/ WriteList
    BY Steps DEF Start, Recognise, RecogniseSilence, RecogniseSpeech, Translations,
       ResultArrives, GivenUp, Seek, Writes, WriteListFails, WriteManifest,
       WriteManifestFails, Kill, vars
  <2> QED
    BY <2>2, <2>3, <2>4
<1> QED
  BY <1>1, CacheCorrect, PTL DEF Spec, ListOnlyGrows
===============================================================================
