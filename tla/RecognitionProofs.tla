--------------------------- MODULE RecognitionProofs ---------------------------
(***************************************************************************)
(* What holds of a chunk's way from its audio to its entries for files and *)
(* chunks of every length, any speech, packets, delays of the decoder,     *)
(* keys, tokens and number of attempts.                                    *)
(***************************************************************************)
EXTENDS Recognition, AudioSegmentProofs, SequenceTheorems

-----------------------------------------------------------------------------
(* Arithmetic of packets                                                   *)

\* Division with remainder.
LEMMA Quotient ==
  ASSUME NEW j \in Nat, NEW c \in Nat \ {0}
  PROVE  /\ j \div c \in Nat /\ j % c \in 0 .. c - 1
         /\ j = (c * (j \div c)) + (j % c)
<1>1. j % c \in 0 .. c - 1
  OBVIOUS
<1>2. j \div c \in Nat /\ j = (c * (j \div c)) + (j % c)
  OBVIOUS
<1> QED
  BY <1>1, <1>2

\* A multiple of c leaves no remainder.
LEMMA MultipleOf ==
  ASSUME NEW q \in Nat, NEW c \in Nat \ {0}
  PROVE  (c * q) % c = 0
OBVIOUS

\* Fewer than c * q are within q times c.
LEMMA Below ==
  ASSUME NEW k \in Nat, NEW q \in Nat, NEW c \in Nat \ {0}, c * k < c * q
  PROVE  k < q
<1> SUFFICES ASSUME k >= q PROVE FALSE
  OBVIOUS
<1>1. PICK d \in Nat : k = q + d
  BY k - q \in Nat
<1>2. c * k = (c * q) + (c * d) /\ c * d \in Nat /\ c * q \in Nat
  BY <1>1
<1> QED
  BY <1>2

\* The chunk after one of the grid is of the grid, or the file is over.
LEMMA NextInGrid ==
  ASSUME NEW p \in Grid, p + ChunkSize < Frames
  PROVE  p + ChunkSize \in Grid
<1> DEFINE q == p \div ChunkSize
<1>1. /\ ChunkSize \in Nat \ {0} /\ Frames \in Nat
      /\ p \in Nat /\ p % ChunkSize = 0
  BY RecognitionAssumption, AudioAssumption DEF Grid
<1>2. q \in Nat /\ p = ChunkSize * q
  BY <1>1, Quotient
<1>3. q + 1 \in Nat /\ p + ChunkSize = ChunkSize * (q + 1)
  BY <1>1, <1>2
<1>4. (ChunkSize * (q + 1)) % ChunkSize = 0
  BY <1>1, <1>3, MultipleOf
<1> QED
  BY <1>1, <1>3, <1>4 DEF Grid

-----------------------------------------------------------------------------
(* What the server hears                                                   *)

\* The number of samples sent is a number of whole packets, and to the file's
\* samples it adds silence only (remote_http.rs 308-312).
LEMMA PaddedFacts ==
  ASSUME NEW S, NEW wav \in Seq(S)
  PROVE  /\ Padded(wav) \in Seq(S \cup {Zero})
         /\ Len(Padded(wav)) % FrameSize = 0 /\ Len(Padded(wav)) >= Len(wav)
         /\ \A i \in 1 .. Len(wav) : Padded(wav)[i] = wav[i]
         /\ \A i \in Len(wav) + 1 .. Len(Padded(wav)) : Padded(wav)[i] = Zero
<1> DEFINE L == Len(wav)  r == L % FrameSize  q == L \div FrameSize
           rest == [i \in 1 .. FrameSize - r |-> Zero]
<1>1. /\ FrameSize \in Nat \ {0} /\ L \in Nat /\ wav \in Seq(S \cup {Zero})
  BY TransferAssumption
<1>2. q \in Nat /\ r \in 0 .. FrameSize - 1 /\ L = (FrameSize * q) + r
  BY <1>1, Quotient
<1>3. CASE r = 0
  BY <1>1, <1>3 DEF Padded
<1>4. CASE r # 0
  <2>1. Padded(wav) = wav \o rest
    BY <1>4 DEF Padded
  <2> HIDE DEF r, q
  <2>2. rest \in Seq(S \cup {Zero}) /\ Len(rest) = FrameSize - r
    BY <1>1, <1>2
  <2> DEFINE m == FrameSize - r
  <2>3. /\ Padded(wav) \in Seq(S \cup {Zero}) /\ Len(Padded(wav)) = L + m
        /\ \A i \in 1 .. L : Padded(wav)[i] = wav[i]
        /\ \A i \in L + 1 .. L + m : Padded(wav)[i] = rest[i - L]
    <3> HIDE DEF rest
    <3> QED
      BY <1>1, <2>1, <2>2, Concatenated
  <2>4. L + m = FrameSize * (q + 1) /\ q + 1 \in Nat /\ m \in Nat
    BY <1>1, <1>2
  <2>5. (L + m) % FrameSize = 0
    BY <1>1, <2>4, MultipleOf
  <2>6. \A i \in L + 1 .. L + m : rest[i - L] = Zero
    BY <1>1, <1>2
  <2> QED
    BY <1>1, <2>3, <2>4, <2>5, <2>6
<1> QED
  BY <1>3, <1>4

\* Whole packets hold what they were made from (remote_http.rs 314-378, server.rs
\* 379-421).
LEMMA JoinedFacts ==
  ASSUME NEW S, NEW pcm \in Seq(S), Len(pcm) % FrameSize = 0
  PROVE  Joined(Packets(pcm)) = pcm
<1> DEFINE n == Len(pcm)  q == n \div FrameSize  packets == Packets(pcm)
           whole == Joined(packets)
<1>1. FrameSize \in Nat \ {0} /\ n \in Nat
  BY TransferAssumption
<1>2. q \in Nat /\ n = FrameSize * q
  BY <1>1, Quotient
<1>3. /\ packets = [k \in 1 .. q |->
                      SubSeq(pcm, (k - 1) * FrameSize + 1, k * FrameSize)]
      /\ Len(packets) = q
  <2>1. packets = [k \in 1 .. q |->
                      SubSeq(pcm, (k - 1) * FrameSize + 1, k * FrameSize)]
    BY DEF Packets
  <2>2. DOMAIN packets = 1 .. q
    BY <2>1
  <2> QED
    BY <1>2, <2>1, <2>2
<1>4. whole = [i \in 1 .. n |-> packets[1 + ((i - 1) \div FrameSize)]
                                       [1 + ((i - 1) % FrameSize)]]
  BY <1>2, <1>3 DEF Joined
<1>5. ASSUME NEW i \in 1 .. n PROVE whole[i] = pcm[i]
  <2> DEFINE k == (i - 1) \div FrameSize  r == (i - 1) % FrameSize
  <2>1. i - 1 \in Nat
    BY <1>1
  <2>2. k \in Nat /\ r \in 0 .. FrameSize - 1 /\ i - 1 = (FrameSize * k) + r
    BY <1>1, <2>1, Quotient
  <2>3. whole[i] = packets[1 + k][1 + r]
    BY <1>4
  <2> HIDE DEF k, r, q
  <2>4. FrameSize * k < FrameSize * q /\ FrameSize * k \in Nat
    BY <1>1, <1>2, <2>2
  <2>5. k < q
    BY <1>1, <1>2, <2>2, <2>4, Below
  <2>6. packets[1 + k] = SubSeq(pcm, k * FrameSize + 1, (1 + k) * FrameSize)
    <3> DEFINE j == 1 + k
    <3>1. j \in 1 .. q /\ j - 1 = k
      BY <1>2, <2>2, <2>5
    <3> HIDE DEF j
    <3>2. packets[j] = SubSeq(pcm, (j - 1) * FrameSize + 1, j * FrameSize)
      BY <1>3, <3>1, Zenon
    <3> QED
      BY <3>1, <3>2 DEF j
  <2>7. /\ k * FrameSize \in Nat /\ (1 + k) * FrameSize = k * FrameSize + FrameSize
        /\ k * FrameSize = FrameSize * k
    BY <1>1, <2>2
  <2>8. (1 + k) * FrameSize <= n
    <3>1. PICK d \in Nat : q = 1 + k + d
      BY <1>2, <2>2, <2>5, q - 1 - k \in Nat
    <3>2. FrameSize * q = (1 + k) * FrameSize + (FrameSize * d) /\ FrameSize * d \in Nat
      BY <1>1, <2>2, <3>1
    <3> QED
      BY <1>1, <1>2, <2>2, <2>7, <3>2
  <2> DEFINE a == k * FrameSize  b == (1 + k) * FrameSize
  <2>9. a \in Nat /\ b = a + FrameSize /\ b <= n /\ i - 1 = a + r
    BY <2>2, <2>7, <2>8
  <2> HIDE DEF a, b
  <2>10. SubSeq(pcm, a + 1, b)[1 + r] = pcm[a + 1 + r]
    BY <1>1, <2>2, <2>9, SubSeqProperties
  <2>11. i = a + 1 + r
    BY <1>1, <2>2, <2>9
  <2> QED
    BY <2>3, <2>6, <2>10, <2>11 DEF a, b
<1> HIDE DEF q, packets
<1>6. DOMAIN whole = 1 .. n /\ whole = [i \in 1 .. n |-> whole[i]]
  BY <1>4
<1>7. pcm = [i \in 1 .. n |-> pcm[i]]
  BY <1>1
<1> HIDE DEF whole
<1> QED
  BY <1>5, <1>6, <1>7 DEF packets, whole

\* Sent in either form, a file arrives as one in which the recogniser hears the
\* same, later by what the codec keeps back, and the silence that was added holds
\* no speech; only what is kept back at the end can be missing.
LEMMA SameIsHeard ==
  ASSUME NEW S, NEW wav \in Seq(S), NEW t \in Nat, Len(wav) <= t, NEW side
  PROVE  LET there == Segments(AudioOf(Request(side, wav)), t)
             here  == Offset(Segments(wav, t), Late(side))
         IN  there \subseteq here /\ \A e \in here : e.at < Len(wav) => e \in there
<1> DEFINE file == AudioOf(Request(side, wav))  pad == Padded(wav)  l == Late(side)
           there == Segments(file, t)  here == Offset(Segments(wav, t), l)
           entry(i) == [at |-> i - 1 + l, what |-> wav[i]]
<1>1. Len(wav) \in Nat /\ Clamp(wav, t) = Len(wav) /\ l \in Nat
  BY TransferAssumption DEF Clamp, Late
<1>2. here = {entry(i) : i \in {j \in 1 .. Len(wav) : wav[j] \in Voiced}}
  <2> DEFINE J == {j \in 1 .. Len(wav) : wav[j] \in Voiced}
             d(i) == [at |-> i - 1, what |-> wav[i]]
  <2>1. Segments(wav, t) = {d(i) : i \in J}
    BY <1>1 DEF Segments
  <2>2. here = {[at |-> e.at + l, what |-> e.what] : e \in Segments(wav, t)}
    BY DEF Offset
  <2>3. \A i : d(i).at + l = i - 1 + l /\ d(i).what = wav[i]
    OBVIOUS
  <2>4. \A i : entry(i) = [at |-> d(i).at + l, what |-> d(i).what]
    BY <2>3
  <2> HIDE DEF J, d, l, here, entry
  <2>5. here = {[at |-> d(i).at + l, what |-> d(i).what] : i \in J}
    BY <2>1, <2>2
  <2>6. here = {entry(i) : i \in J}
    BY <2>4, <2>5
  <2> QED
    BY <2>6 DEF J
<1>3. /\ Len(file) \in Nat /\ Len(wav) <= Len(file)
      /\ \A j \in 1 .. Len(file) :
           file[j] = IF j <= l \/ j - l > Len(wav) THEN Zero ELSE wav[j - l]
  <2>1. CASE ~side.opus
    <3>1. file = wav /\ l = 0
      BY <2>1 DEF AudioOf, Request, Late
    <3> QED
      BY <1>1, <3>1
  <2>2. CASE side.opus
    <3>1. /\ pad \in Seq(S \cup {Zero}) /\ Len(pad) % FrameSize = 0
          /\ Len(pad) >= Len(wav)
          /\ \A i \in 1 .. Len(wav) : pad[i] = wav[i]
          /\ \A i \in Len(wav) + 1 .. Len(pad) : pad[i] = Zero
      BY PaddedFacts, Zenon
    <3>2. file = Delayed(Joined(Packets(pad))) /\ l = Lag
      BY <2>2 DEF AudioOf, Request, Decoded, Late
    <3> HIDE DEF pad
    <3>3. Joined(Packets(pad)) = pad
      BY <3>1, JoinedFacts
    <3>4. Len(pad) \in Nat
      BY <3>1
    <3>5. file = [i \in 1 .. Len(pad) |-> IF i <= l THEN Zero ELSE pad[i - l]]
      BY <3>2, <3>3 DEF Delayed
    <3> HIDE DEF file, l
    <3>6. /\ Len(file) = Len(pad)
          /\ \A i \in 1 .. Len(pad) : file[i] = IF i <= l THEN Zero ELSE pad[i - l]
      BY <3>4, <3>5
    <3>7. ASSUME NEW j \in 1 .. Len(file)
          PROVE  file[j] = IF j <= l \/ j - l > Len(wav) THEN Zero ELSE wav[j - l]
      <4>1. CASE j <= l
        BY <3>6, <4>1
      <4>2. CASE ~(j <= l)
        <5>1. j - l \in 1 .. Len(pad) /\ file[j] = pad[j - l]
          BY <1>1, <3>4, <3>6, <4>2
        <5> QED
          BY <1>1, <3>1, <3>4, <4>2, <5>1
      <4> QED
        BY <4>1, <4>2
    <3> QED
      BY <3>1, <3>4, <3>6, <3>7
  <2> QED
    BY <2>1, <2>2
<1>4. /\ Clamp(file, t) <= Len(file) /\ Len(wav) <= Clamp(file, t)
      /\ Clamp(file, t) \in Nat
  <2> HIDE DEF file
  <2> QED
    BY <1>1, <1>3 DEF Clamp
<1>5. there = {[at |-> j - 1, what |-> file[j]] :
                 j \in {i \in 1 .. Clamp(file, t) : file[i] \in Voiced}}
  BY DEF Segments
<1> HIDE DEF file, there, here, l
<1>6. ASSUME NEW e \in there PROVE e \in here
  <2>1. PICK j \in 1 .. Clamp(file, t) :
          file[j] \in Voiced /\ e = [at |-> j - 1, what |-> file[j]]
    BY <1>5, <1>6
  <2>2. j \in 1 .. Len(file)
    BY <1>3, <1>4, <2>1
  <2>3. ~(j <= l \/ j - l > Len(wav)) /\ file[j] = wav[j - l]
    BY <1>3, <2>1, <2>2, RecognitionAssumption
  <2>4. j - l \in 1 .. Len(wav) /\ j - l - 1 + l = j - 1
    BY <1>1, <2>2, <2>3
  <2>5. e = entry(j - l)
    BY <2>1, <2>3, <2>4
  <2> HIDE DEF entry
  <2> QED
    BY <1>2, <2>1, <2>3, <2>4, <2>5
<1>7. ASSUME NEW e \in here, e.at < Len(wav) PROVE e \in there
  <2>1. PICK i \in 1 .. Len(wav) : wav[i] \in Voiced /\ e = entry(i)
    BY <1>2, <1>7
  <2>2. e.at = i - 1 + l /\ e = [at |-> i - 1 + l, what |-> wav[i]]
    BY <2>1
  <2> DEFINE j == i + l
  <2>3. j \in 1 .. Clamp(file, t) /\ j - 1 = i - 1 + l /\ j - l = i
    BY <1>1, <1>4, <1>7, <2>1, <2>2
  <2>4. file[j] = wav[i]
    BY <1>1, <1>3, <1>4, <2>1, <2>3
  <2>5. e = [at |-> j - 1, what |-> file[j]] /\ file[j] \in Voiced
    BY <2>1, <2>2, <2>3, <2>4
  <2> HIDE DEF j, entry
  <2> QED
    BY <1>5, <2>3, <2>5
<1> QED
  BY <1>6, <1>7 DEF there, here, file, l

-----------------------------------------------------------------------------
(* The invariant of a chunk on its way                                     *)

Places == Grid \cup {p + ChunkSize : p \in Grid}

SessionTypes ==
  /\ phase \in {"off", "idle", "extracting", "sending", "recognising"}
  /\ pos \in Places /\ attempt \in 1 .. MaxRetry /\ done \subseteq Grid

\* What the recogniser has been given.
Carried == IF setup.remote THEN AudioOf(Request(setup.plugin, out)) ELSE out

\* The segment, the request and the text under way are those of the chunk at
\* the cursor.
Agreement ==
  /\ phase \in {"extracting", "sending", "recognising"} =>
       pos \in Grid /\ start = pos /\ target = ChunkSize
  /\ phase \in {"sending", "recognising"} => cut = "done"
  /\ phase = "sending" => setup.remote
  /\ phase = "recognising" => limit = target /\ audio = Carried
  /\ phase = "recognising" /\ stt = "heard" => heard = Segments(audio, limit)

ChunkInv == SegmentInv /\ SessionTypes /\ Agreement

\* The cursor is at a chunk, or the file is over.
LEMMA PlaceFacts ==
  ASSUME NEW p \in Places
  PROVE  p \in Nat /\ (p < Frames => p \in Grid)
<1>1. ChunkSize \in Nat /\ Frames \in Nat
  BY RecognitionAssumption, AudioAssumption
<1>2. CASE p \in Grid
  BY <1>1, <1>2 DEF Grid
<1>3. CASE p \notin Grid
  <2>1. PICK q \in Grid : p = q + ChunkSize
    BY <1>3 DEF Places
  <2> QED
    BY <1>1, <2>1, NextInGrid DEF Grid
<1> QED
  BY <1>2, <1>3

\* The beginning of the file is a chunk.
LEMMA ZeroInGrid ==
  ASSUME SegmentInv
  PROVE  0 \in Grid
<1>1. Frames \in Nat /\ 0 \in 0 .. Frames - 1
  BY AudioAssumption DEF SegmentInv, AudioTypes
<1>2. 0 % ChunkSize = 0
  BY RecognitionAssumption
<1> QED
  BY <1>1, <1>2 DEF Grid

LEMMA ChunkInit == Init => ChunkInv
<1> SUFFICES ASSUME Init PROVE ChunkInv
  OBVIOUS
<1>1. SegmentInv
  BY SegmentInit DEF Init
<1>2. SessionTypes
  BY RecognitionAssumption DEF Init, SessionTypes, Places
<1>3. Agreement
  BY DEF Init, Agreement
<1> QED
  BY <1>1, <1>2, <1>3 DEF ChunkInv

\* The session is cleared.
LEMMA ClearedFacts ==
  ASSUME ChunkInv, Cleared, SegmentInv'
  PROVE  ChunkInv'
<1>1. 0 \in Grid
  BY ZeroInGrid DEF ChunkInv
<1>2. SessionTypes'
  BY <1>1, RecognitionAssumption DEF Cleared, SessionTypes, Places
<1>3. Agreement'
  BY DEF Cleared, Agreement
<1> QED
  BY <1>2, <1>3 DEF ChunkInv

\* The chunk is left, with the cursor where it was, further, or elsewhere.
LEMMA LeftFacts ==
  ASSUME ChunkInv, SegmentInv', phase' = "idle", pos' \in Places,
         attempt' \in 1 .. MaxRetry, done' \subseteq Grid
  PROVE  ChunkInv'
BY DEF ChunkInv, SessionTypes, Agreement

\* Another attempt, or the end.
LEMMA AttemptFacts ==
  ASSUME ChunkInv, AttemptFails, phase \in {"sending", "recognising"},
         setup.remote
  PROVE  ChunkInv'
<1>1. CASE MayRetry
  <2>1. /\ phase' = "sending" /\ attempt' = attempt + 1
        /\ UNCHANGED <<setup, pos, entries, done, shown, made>>
        /\ UNCHANGED audioVars
    BY <1>1 DEF AttemptFails
  <2>2. SegmentInv'
    BY <2>1, SegmentStutter DEF ChunkInv
  <2>3. SessionTypes'
    BY <1>1, <2>1, RecognitionAssumption DEF ChunkInv, SessionTypes, MayRetry
  <2>4. Agreement'
    BY <2>1 DEF ChunkInv, Agreement, audioVars
  <2> QED
    BY <2>2, <2>3, <2>4 DEF ChunkInv
<1>2. CASE ~MayRetry
  BY <1>2, ClearedFacts, SegmentUsedStep DEF AttemptFails, ChunkInv
<1> QED
  BY <1>1, <1>2

\* The steps of the extraction leave what was asked for alone.
LEMMA BoundsStay ==
  ASSUME AudioStep
  PROVE  start' = start /\ target' = target
BY DEF AudioStep, SendPacket, ReceiveBlock, SendEof, Finalize, ExtractionFails

\* A step of the recogniser leaves its input alone, and what it hears at the
\* end is what is in that.
LEMMA HearingFacts ==
  ASSUME WhisperStep
  PROVE  /\ audio' = audio /\ limit' = limit
         /\ stt' = "heard" => heard' = Segments(audio, limit)
BY DEF WhisperStep, KeepContext, LoadContext, FallBackToCpu, NoContext, FileFails,
       InferenceEnds, RetryOnCpu, InferenceFails

LEMMA ChunkStep == ChunkInv /\ [Next]_vars => ChunkInv'
<1> SUFFICES ASSUME ChunkInv, [Next]_vars PROVE ChunkInv'
  OBVIOUS
<1> USE DEF ChunkInv
<1>1. ASSUME UNCHANGED audioVars PROVE SegmentInv'
  BY <1>1, SegmentStutter
<1>2. ASSUME SegmentUsed PROVE SegmentInv'
  BY <1>2, SegmentUsedStep
<1>3. \A p \in Grid : p \in Places /\ p + ChunkSize \in Places
  BY DEF Places
<1>4. CASE Seek
  BY <1>1, <1>3, <1>4, LeftFacts DEF Seek, Cursor, SessionTypes
<1>5. CASE SkipProcessed
  BY <1>1, <1>3, <1>5, LeftFacts DEF SkipProcessed, SessionTypes
<1>6. CASE StopSession
  BY <1>1, <1>6, ClearedFacts DEF StopSession
<1>7. CASE BeginChunk
  <2>1. pos \in Grid
    BY <1>7, PlaceFacts DEF BeginChunk, SessionTypes
  <2>2. pos \in 0 .. Frames - 1 /\ ChunkSize \in Nat
    BY <2>1, RecognitionAssumption DEF Grid
  <2>3. SegmentInv'
    BY <1>7, <2>2, SegmentExtract DEF BeginChunk
  <2>4. SessionTypes'
    BY <1>7 DEF BeginChunk, SessionTypes
  <2>5. Agreement'
    BY <1>7, <2>1 DEF BeginChunk, Extract, Agreement
  <2> QED
    BY <2>3, <2>4, <2>5
<1>8. CASE ExtractStep
  <2>1. AudioStep /\ phase = "extracting" /\ UNCHANGED sessionVars
    BY <1>8 DEF ExtractStep
  <2>2. SegmentInv'
    BY <2>1, SegmentStep
  <2>3. SessionTypes'
    BY <2>1 DEF sessionVars, SessionTypes
  <2>4. Agreement'
    BY <2>1, BoundsStay DEF sessionVars, Agreement
  <2> QED
    BY <2>2, <2>3, <2>4
<1>9. CASE NoSegment
  BY <1>2, <1>9, LeftFacts DEF NoSegment, SessionTypes
<1>10. CASE SeekBeforeTranscribing
  BY <1>2, <1>3, <1>10, LeftFacts DEF SeekBeforeTranscribing, Cursor, SessionTypes
<1>11. CASE TranscribeHere
  <2>1. SegmentInv'
    BY <1>1, <1>11 DEF TranscribeHere
  <2>2. SessionTypes'
    BY <1>11 DEF TranscribeHere, SessionTypes
  <2>3. Carried' = out
    BY <1>11 DEF TranscribeHere, Carried, audioVars
  <2>4. Agreement'
    BY <1>11, <2>3 DEF TranscribeHere, Transcribe, Agreement, audioVars
  <2> QED
    BY <2>1, <2>2, <2>4
<1>12. CASE TranscribeThere
  <2>1. SegmentInv'
    BY <1>1, <1>12 DEF TranscribeThere
  <2>2. SessionTypes'
    BY <1>12, RecognitionAssumption DEF TranscribeThere, SessionTypes
  <2>3. Agreement'
    BY <1>12 DEF TranscribeThere, Agreement, audioVars
  <2> QED
    BY <2>1, <2>2, <2>3
<1>13. CASE RecogniserStep
  <2>1. /\ phase = "recognising" /\ WhisperStep
        /\ UNCHANGED <<audioVars, sessionVars>>
    BY <1>13 DEF RecogniserStep
  <2>2. SegmentInv'
    BY <1>1, <2>1
  <2>3. SessionTypes'
    BY <2>1 DEF sessionVars, SessionTypes
  <2>4. Carried' = Carried
    BY <2>1 DEF sessionVars, audioVars, Carried
  <2>5. Agreement'
    BY <2>1, <2>4, HearingFacts DEF sessionVars, audioVars, Agreement
  <2> QED
    BY <2>2, <2>3, <2>5
<1>14. CASE Send
  <2>1. SegmentInv'
    BY <1>1, <1>14 DEF Send
  <2>2. SessionTypes'
    BY <1>14 DEF Send, SessionTypes
  <2>3. Carried' = AudioOf(Request(setup.plugin, out))
    BY <1>14 DEF Send, Carried, audioVars, Agreement
  <2>4. Agreement'
    BY <1>14, <2>3 DEF Send, Transcribe, Agreement, audioVars
  <2> QED
    BY <2>1, <2>2, <2>4
<1>15. CASE Refused
  BY <1>15, AttemptFacts DEF Refused, Agreement
<1>16. CASE CannotSend
  BY <1>16, AttemptFacts DEF CannotSend, Agreement
<1>17. CASE NoAnswer
  BY <1>17, AttemptFacts DEF NoAnswer
<1>18. CASE RecognitionFails
  BY <1>2, <1>18, ClearedFacts DEF RecognitionFails
<1>19. CASE SeekWhileTranscribing
  BY <1>2, <1>3, <1>19, RecognitionAssumption, LeftFacts
     DEF SeekWhileTranscribing, Use, Cursor, SessionTypes
<1>20. CASE Merge
  <2>1. pos \in Grid
    BY <1>20 DEF Merge, Use, Received, Agreement
  <2> QED
    BY <1>2, <1>3, <1>20, <2>1, RecognitionAssumption, LeftFacts
       DEF Merge, Use, SessionTypes
<1>21. CASE MergeFails
  BY <1>2, <1>21, RecognitionAssumption, LeftFacts DEF MergeFails, Use, SessionTypes
<1>22. CASE UNCHANGED vars
  <2>1. Carried' = Carried /\ UNCHANGED audioVars
    BY <1>22 DEF vars, sessionVars, audioVars, Carried
  <2> QED
    BY <1>1, <1>22, <2>1
       DEF vars, sessionVars, whisperVars, audioVars, SessionTypes, Agreement
<1> QED
  BY <1>4, <1>5, <1>6, <1>7, <1>8, <1>9, <1>10, <1>11, <1>12, <1>13, <1>14,
     <1>15, <1>16, <1>17, <1>18, <1>19, <1>20, <1>21, <1>22 DEF Next

LEMMA ChunkCorrect == Spec => []ChunkInv
BY ChunkInit, ChunkStep, PTL DEF Spec

\* What has been heard is what was to be heard in the segment.
LEMMA HeardOfInv ==
  ASSUME ChunkInv
  PROVE  HeardAsHere
<1> DEFINE here == Offset(Segments(out, target), Lateness)
<1> SUFFICES ASSUME phase = "recognising", stt = "heard"
             PROVE  heard \subseteq here /\ \A e \in here : e.at < Len(out) => e \in heard
  BY DEF HeardAsHere
<1>1. heard = Segments(Carried, target)
  BY DEF ChunkInv, Agreement
<1>2. out \in Seq(0 .. Frames - 1) /\ target \in Nat /\ Len(out) <= target
  BY SegmentOfInv DEF ChunkInv, AudioTypeOK, SegmentInv, AudioTypes
<1>3. CASE setup.remote
  <2>1. Carried = AudioOf(Request(setup.plugin, out)) /\ Lateness = Late(setup.plugin)
    BY <1>3 DEF Carried, Lateness
  <2> QED
    BY <1>1, <1>2, <2>1, SameIsHeard, Zenon
<1>4. CASE ~setup.remote
  <2>1. heard = Segments(out, target) /\ Lateness = 0
    BY <1>1, <1>4 DEF Carried, Lateness
  <2>2. here = heard
    <3>1. \A e \in heard : e.at \in Int /\ [at |-> e.at + 0, what |-> e.what] = e
      BY <1>2, <2>1 DEF Segments, Clamp
    <3> QED
      BY <2>1, <3>1 DEF Offset
  <2> QED
    BY <2>2
<1> QED
  BY <1>3, <1>4

\* The segment that is handed on for recognition has no hole, no frame twice and
\* none of another place (audio.rs 180-310).
THEOREM SegmentsAreWhole == Spec => []SegmentIsWhole
<1>1. ChunkInv => SegmentIsWhole
  BY SegmentOfInv DEF ChunkInv
<1> QED
  BY <1>1, ChunkCorrect, PTL

\* In whichever form the audio is sent, a server hears what the plugin would
\* have heard itself: with Opus as much later as the codec is late, and without
\* what is spoken in the segment's last moments of that length (remote_http.rs
\* 308-378, server.rs 379-421).
THEOREM ServerHearsTheSame == Spec => []HeardAsHere
BY HeardOfInv, ChunkCorrect, PTL

\* Who may use a server, and reads what it answers.
Served(side, server) ==
  server.secret \in {Nil, side.secret} /\ side.key \in {Nil, server.key}

\* A request that is let in comes from somebody served, and the answer opens.
LEMMA AdmittedFacts ==
  ASSUME NEW side, NEW server, NEW wav, NEW srt
  PROVE  /\ Admitted(server, Request(side, wav)) => Served(side, server)
         /\ Served(side, server) =>
              Opens(side.key, Response(server, Request(side, wav), srt))
BY DEF Admitted, Authorised, Opens, Request, Response, Served

\* Nobody waits for an answer in vain because of a key (server.rs 186-229,
\* 272-284, remote_http.rs 225-243).
THEOREM AdmittedAnswersOpen == Spec => []AnswersOpen
<1> DEFINE I == phase = "recognising" /\ setup.remote =>
                  Served(setup.plugin, setup.server)
<1>1. Init => I
  BY DEF Init
<1>2. I /\ [Next]_vars => I'
  <2> SUFFICES ASSUME I, [Next]_vars PROVE I'
    OBVIOUS
  <2>1. CASE Send
    BY <2>1, AdmittedFacts DEF Send
  <2>2. CASE TranscribeHere \/ RecogniserStep \/ UNCHANGED vars
    BY <2>2 DEF TranscribeHere, RecogniserStep, vars, sessionVars
  <2>3. CASE BeginChunk \/ NoSegment \/ SeekBeforeTranscribing \/ TranscribeThere
             \/ Refused \/ CannotSend \/ NoAnswer \/ RecognitionFails
    BY <2>3 DEF BeginChunk, NoSegment, SeekBeforeTranscribing, TranscribeThere,
                Refused, CannotSend, NoAnswer, RecognitionFails, AttemptFails, Cleared
  <2>4. CASE Seek \/ SkipProcessed \/ StopSession \/ ExtractStep
             \/ SeekWhileTranscribing \/ Merge \/ MergeFails
    BY <2>4 DEF Seek, SkipProcessed, StopSession, Cleared, ExtractStep, sessionVars,
                SeekWhileTranscribing, Merge, MergeFails
  <2> QED
    BY <2>1, <2>2, <2>3, <2>4 DEF Next
<1>3. I => AnswersOpen
  BY AdmittedFacts DEF AnswersOpen, Served
<1> QED
  BY <1>1, <1>2, <1>3, PTL DEF Spec

-----------------------------------------------------------------------------
(* One chunk at a time                                                     *)

\* Every step is one of the abstract routine or leaves it alone.
LEMMA WorkStep ==
  ASSUME ChunkInv, [Next]_vars
  PROVE  [Work!Next]_(Work!vars)
<1> USE DEF Work!Nothing
<1>1. phase \in {"extracting", "sending", "recognising"} => start = pos /\ pos \in Nat
  BY PlaceFacts DEF ChunkInv, SessionTypes, Agreement
<1>2. CASE Seek \/ SkipProcessed
  BY <1>2 DEF Seek, SkipProcessed, Work!Next, Work!Move
<1>3. CASE StopSession \/ RecognitionFails
  BY <1>3 DEF StopSession, RecognitionFails, Cleared, Work!Next, Work!Close
<1>4. CASE BeginChunk
  BY <1>4 DEF BeginChunk, Extract, Work!Next, Work!Begin
<1>5. CASE ExtractStep
  BY <1>5, BoundsStay DEF ExtractStep, sessionVars, Work!vars
<1>6. CASE NoSegment \/ SeekBeforeTranscribing
  BY <1>1, <1>6 DEF NoSegment, SeekBeforeTranscribing, Work!Next, Work!Leave
<1>7. CASE TranscribeHere \/ TranscribeThere
  BY <1>7 DEF TranscribeHere, TranscribeThere, audioVars, Work!vars
<1>8. CASE RecogniserStep \/ Send
  BY <1>8 DEF RecogniserStep, Send, audioVars, sessionVars, Work!vars
<1>9. ASSUME AttemptFails, phase \in {"sending", "recognising"}
      PROVE  [Work!Next]_(Work!vars)
  BY <1>9 DEF AttemptFails, Cleared, audioVars, Work!vars, Work!Next, Work!Close
<1>10. CASE Refused \/ CannotSend \/ NoAnswer
  BY <1>9, <1>10 DEF Refused, CannotSend, NoAnswer
<1>11. CASE SeekWhileTranscribing \/ MergeFails
  BY <1>1, <1>11
     DEF SeekWhileTranscribing, MergeFails, Use, Received, Work!Next, Work!Leave
<1>12. CASE Merge
  <2>1. start = pos /\ pos \in Nat /\ phase = "recognising"
    BY <1>1, <1>12 DEF Merge, Use, Received
  <2>2. done' = done \cup {pos} /\ pos' >= pos /\ phase' = "idle"
    BY <1>12, <2>1, RecognitionAssumption DEF Merge
  <2> QED
    BY <2>1, <2>2 DEF Work!Next, Work!Finish
<1>13. CASE UNCHANGED vars
  BY <1>13 DEF vars, audioVars, sessionVars, Work!vars
<1> QED
  BY <1>2, <1>3, <1>4, <1>5, <1>6, <1>7, <1>8, <1>10, <1>11, <1>12, <1>13 DEF Next

\* Recognition implements ChunkRoutine, for every medium, decoder, device and
\* server (plugin.rs 797-908).
THEOREM ChunksAreHandledOneByOne == Spec => WorksByChunks
<1>1. Init => Work!Init
  BY DEF Init, Work!Init, Work!Nothing
<1>2. ChunkInv /\ [Next]_vars => [Work!Next]_(Work!vars)
  BY WorkStep
<1> QED
  BY <1>1, <1>2, ChunkCorrect, PTL DEF Spec, WorksByChunks, Work!Spec

-----------------------------------------------------------------------------
(* What a chunk adds to the subtitles                                      *)

EntryType == [at : 0 .. Frames + ChunkSize + Lag, what : Voiced]

EntryInv == entries \subseteq EntryType /\ EntriesInTime /\ ProcessedIsComplete

\* The segment begins at the cursor or before it, and at the cursor if the file
\* can be entered there.
LEMMA SegmentAtCursor ==
  ASSUME ChunkInv, phase = "recognising"
  PROVE  /\ pos \in 0 .. Frames - 1 /\ SegmentBegin \in 0 .. pos
         /\ Grid \subseteq seekable => SegmentBegin = pos
         /\ \A i \in 1 .. Len(out) : out[i] = SegmentBegin + i - 1
         /\ Len(out) = IF ChunkSize < Frames - SegmentBegin
                         THEN ChunkSize ELSE Frames - SegmentBegin
<1>1. pos \in Grid /\ start = pos /\ target = ChunkSize /\ cut = "done"
  BY DEF ChunkInv, Agreement
<1>2. pos \in 0 .. Frames - 1 /\ pos \in Nat
  BY <1>1, AudioAssumption DEF Grid
<1>3. seekable \subseteq Nat /\ 0 \in seekable
  BY AudioAssumption DEF ChunkInv, SegmentInv, AudioTypes
<1> DEFINE l == Landing(pos)
<1>4. l \in 0 .. pos /\ (pos \in seekable => l = pos)
  BY <1>2, <1>3, LandingFacts, Zenon
<1>5. SegmentBegin = IF seeked THEN l ELSE pos
  BY <1>1 DEF SegmentBegin
<1> HIDE DEF l
<1>6. SegmentBegin \in 0 .. pos /\ (Grid \subseteq seekable => SegmentBegin = pos)
  BY <1>1, <1>2, <1>4, <1>5
<1>7. SegmentIsWhole
  BY SegmentOfInv DEF ChunkInv
<1> QED
  BY <1>1, <1>2, <1>6, <1>7 DEF SegmentIsWhole, SegmentLength

\* What has been heard, put at the cursor: no word before it is spoken, and all
\* that is spoken in the chunk, but for its very end, if the file can be entered
\* where it begins.
LEMMA NewEntries ==
  ASSUME ChunkInv, phase = "recognising", stt = "heard"
  PROVE  /\ Offset(heard, pos) \subseteq EntryType
         /\ \A e \in Offset(heard, pos) :
              e.what <= e.at /\ (Grid \subseteq seekable => e.at = e.what + Lateness)
         /\ Grid \subseteq seekable =>
              \A f \in Voiced :
                pos <= f /\ f + Lateness < pos + ChunkSize /\ f + Lateness < Frames =>
                  [at |-> f + Lateness, what |-> f] \in Offset(heard, pos)
<1> DEFINE b == SegmentBegin  n == Len(out)  l == Lateness
           here == Offset(Segments(out, target), l)
<1>1. /\ pos \in 0 .. Frames - 1 /\ b \in 0 .. pos
      /\ Grid \subseteq seekable => b = pos
      /\ \A i \in 1 .. n : out[i] = b + i - 1
      /\ n = IF ChunkSize < Frames - b THEN ChunkSize ELSE Frames - b
  BY SegmentAtCursor
<1>2. /\ Frames \in Nat /\ ChunkSize \in Nat /\ Voiced \subseteq Nat /\ Lag \in Nat
      /\ l \in 0 .. Lag
  BY AudioAssumption, RecognitionAssumption, WhisperAssumption, TransferAssumption
     DEF Lateness, Late
<1>3. target = ChunkSize
  BY DEF ChunkInv, Agreement
<1>4. heard \subseteq here /\ \A e \in here : e.at < n => e \in heard
  BY HeardOfInv DEF HeardAsHere
<1> HIDE DEF b, n, l
<1>5. Clamp(out, target) = n /\ n \in Nat /\ n <= ChunkSize
  BY <1>1, <1>2, <1>3 DEF Clamp, n
<1>6. Segments(out, target) = {[at |-> i - 1, what |-> out[i]] :
                                 i \in {j \in 1 .. n : out[j] \in Voiced}}
  BY <1>5 DEF Segments
<1>7. ASSUME NEW e \in Offset(heard, pos)
      PROVE  /\ e \in EntryType /\ e.what <= e.at
             /\ Grid \subseteq seekable => e.at = e.what + l
  <2>1. PICK h \in here : e = [at |-> h.at + pos, what |-> h.what]
    BY <1>4 DEF Offset
  <2>2. PICK s \in Segments(out, target) : h = [at |-> s.at + l, what |-> s.what]
    BY <2>1 DEF Offset
  <2>3. PICK i \in 1 .. n : out[i] \in Voiced /\ s = [at |-> i - 1, what |-> out[i]]
    BY <1>6, <2>2
  <2> HIDE DEF here
  <2>4. /\ i \in Nat /\ 1 <= i /\ i <= n
        /\ e = [at |-> i - 1 + l + pos, what |-> out[i]] /\ out[i] = b + i - 1
    BY <1>1, <1>5, <2>1, <2>2, <2>3
  <2>5. e.at = i - 1 + l + pos /\ e.what = b + i - 1 /\ e.what \in Voiced
    BY <2>3, <2>4
  <2>6. i - 1 + l + pos \in 0 .. Frames + ChunkSize + Lag
    BY <1>1, <1>2, <1>5, <2>4
  <2> QED
    BY <1>1, <1>2, <2>3, <2>4, <2>5, <2>6 DEF EntryType
<1>8. ASSUME Grid \subseteq seekable, NEW f \in Voiced,
             pos <= f, f + l < pos + ChunkSize, f + l < Frames
      PROVE  [at |-> f + l, what |-> f] \in Offset(heard, pos)
  <2> DEFINE i == f - pos + 1  s == [at |-> i - 1, what |-> out[i]]
             h == [at |-> s.at + l, what |-> s.what]
  <2>1. i \in 1 .. n /\ out[i] = f /\ i - 1 + l < n
    BY <1>1, <1>2, <1>8
  <2>2. s \in Segments(out, target)
    BY <1>6, <1>8, <2>1
  <2>3. h \in here
    BY <2>2 DEF Offset
  <2> HIDE DEF here
  <2>4. h.at = i - 1 + l /\ h.what = f
    BY <2>1
  <2>5. h \in heard
    BY <1>4, <2>1, <2>3, <2>4
  <2>6. h.at + pos = f + l
    BY <1>1, <1>2, <2>4
  <2> HIDE DEF h, i, s
  <2> QED
    BY <2>4, <2>5, <2>6 DEF Offset
<1> QED
  BY <1>7, <1>8 DEF l

\* Where nothing is out of its time, adding a chunk replaces nothing.
LEMMA MergeStep ==
  ASSUME ChunkInv, EntryInv, Merge, UNCHANGED <<seekable, setup>>
  PROVE  EntryInv'
<1> DEFINE new == Offset(heard, pos)  l == Lateness
<1>0. l' = l /\ l \in Nat
  BY TransferAssumption DEF Lateness, Late
<1>1. /\ phase = "recognising" /\ stt = "heard"
      /\ entries' = Added(entries, new) /\ done' = done \cup {pos}
  BY DEF Merge, Use, Received
<1>2. /\ new \subseteq EntryType
      /\ \A e \in new : e.what <= e.at /\ (Grid \subseteq seekable => e.at = e.what + l)
      /\ Grid \subseteq seekable =>
           \A f \in Voiced :
             pos <= f /\ f + l < pos + ChunkSize /\ f + l < Frames =>
               [at |-> f + l, what |-> f] \in new
  BY <1>1, NewEntries
<1> HIDE DEF new, l
<1>3. new \subseteq entries' /\ entries' \subseteq entries \cup new
  BY <1>1 DEF Added
<1>4. entries' \subseteq EntryType
  BY <1>2, <1>3 DEF EntryInv
<1>5. EntriesInTime'
  BY <1>0, <1>2, <1>3 DEF EntryInv, EntriesInTime, l
<1>6. ASSUME Grid \subseteq seekable, NEW f \in Voiced,
             [at |-> f + l, what |-> f] \in entries
      PROVE  [at |-> f + l, what |-> f] \in entries'
  <2>1. CASE \A n \in new : n.at # f + l
    BY <1>1, <1>6, <2>1 DEF Added
  <2>2. CASE \E n \in new : n.at = f + l
    <3>1. PICK n \in new : n.at = f + l
      BY <2>2
    <3>2. n.at = n.what + l /\ n \in EntryType
      BY <1>2, <1>6, <3>1
    <3>3. n.what \in Nat /\ f \in Nat /\ n = [at |-> n.at, what |-> n.what]
      BY <3>2, WhisperAssumption DEF EntryType
    <3>4. n = [at |-> f + l, what |-> f]
      BY <1>0, <3>1, <3>2, <3>3
    <3> QED
      BY <1>3, <3>1, <3>4
  <2> QED
    BY <2>1, <2>2
<1>7. ASSUME Grid \subseteq seekable, NEW p \in done', NEW f \in Voiced,
             p <= f, f + l < p + ChunkSize, f + l < Frames
      PROVE  [at |-> f + l, what |-> f] \in entries'
  <2>1. CASE p = pos
    BY <1>2, <1>3, <1>7, <2>1
  <2>2. CASE p \in done
    <3>1. [at |-> f + l, what |-> f] \in entries
      BY <1>7, <2>2 DEF EntryInv, ProcessedIsComplete, l
    <3> QED
      BY <1>6, <1>7, <3>1
  <2> QED
    BY <1>1, <1>7, <2>1, <2>2
<1>8. ProcessedIsComplete'
  BY <1>0, <1>7 DEF ProcessedIsComplete, l
<1> QED
  BY <1>4, <1>5, <1>8 DEF EntryInv

\* Entries come from a merge only, and go only when the session does; where the
\* file can be entered never changes, nor do the settings.
LEMMA EntrySteps ==
  ASSUME [Next]_vars
  PROVE  /\ UNCHANGED <<seekable, setup>>
         /\ \/ UNCHANGED <<entries, done>>
            \/ entries' = {} /\ done' = {}
            \/ Merge
<1>1. CASE Seek \/ SkipProcessed \/ StopSession
  BY <1>1 DEF Seek, SkipProcessed, StopSession, Cleared, audioVars
<1>2. CASE BeginChunk \/ ExtractStep
  BY <1>2 DEF BeginChunk, Extract, ExtractStep, AudioStep, SendPacket,
              ReceiveBlock, SendEof, Finalize, ExtractionFails, sessionVars
<1>3. CASE NoSegment \/ SeekBeforeTranscribing \/ TranscribeHere \/ TranscribeThere
  BY <1>3 DEF NoSegment, SeekBeforeTranscribing, TranscribeHere, TranscribeThere,
              SegmentUsed, audioVars
<1>4. CASE RecogniserStep \/ Send
  BY <1>4 DEF RecogniserStep, Send, sessionVars, audioVars
<1>5. ASSUME AttemptFails
      PROVE  /\ UNCHANGED <<seekable, setup>>
             /\ UNCHANGED <<entries, done>> \/ (entries' = {} /\ done' = {})
  BY <1>5 DEF AttemptFails, Cleared, SegmentUsed, audioVars
<1>6. CASE Refused \/ CannotSend \/ NoAnswer
  BY <1>5, <1>6 DEF Refused, CannotSend, NoAnswer
<1>7. CASE RecognitionFails \/ SeekWhileTranscribing \/ MergeFails
  BY <1>7 DEF RecognitionFails, SeekWhileTranscribing, MergeFails, Cleared,
              Use, SegmentUsed
<1>8. CASE Merge
  BY <1>8 DEF Merge, Use, SegmentUsed
<1>9. CASE UNCHANGED vars
  BY <1>9 DEF vars, audioVars, sessionVars
<1> QED
  BY <1>1, <1>2, <1>3, <1>4, <1>6, <1>7, <1>8, <1>9 DEF Next

LEMMA EntryStep == ChunkInv /\ EntryInv /\ [Next]_vars => EntryInv'
<1> SUFFICES ASSUME ChunkInv, EntryInv, [Next]_vars PROVE EntryInv'
  OBVIOUS
<1>1. UNCHANGED <<seekable, setup>> /\ Lateness' = Lateness
  BY EntrySteps DEF Lateness, Late
<1>2. CASE UNCHANGED <<entries, done>>
  BY <1>1, <1>2 DEF EntryInv, EntriesInTime, ProcessedIsComplete
<1>3. CASE entries' = {} /\ done' = {}
  BY <1>3 DEF EntryInv, EntriesInTime, ProcessedIsComplete
<1>4. CASE Merge
  BY <1>1, <1>4, MergeStep
<1> QED
  BY <1>2, <1>3, <1>4, EntrySteps

LEMMA EntryCorrect == Spec => []EntryInv
<1>1. Init => EntryInv
  BY DEF Init, EntryInv, EntriesInTime, ProcessedIsComplete
<1> QED
  BY <1>1, EntryStep, ChunkCorrect, PTL DEF Spec

\* No subtitle is shown before what it says is spoken, and each just when it is
\* where the file can be entered at every chunk (plugin.rs 818-883).
THEOREM SubtitlesAreInTime == Spec => []EntriesInTime
<1>1. EntryInv => EntriesInTime
  BY DEF EntryInv
<1> QED
  BY <1>1, EntryCorrect, PTL

\* A chunk that counts as processed has a subtitle for all that is spoken in it
\* (plugin.rs 882-883, audio.rs 144-151).
THEOREM ProcessedChunksAreComplete == Spec => []ProcessedIsComplete
<1>1. EntryInv => ProcessedIsComplete
  BY DEF EntryInv
<1> QED
  BY <1>1, EntryCorrect, PTL

-----------------------------------------------------------------------------
(* The device                                                              *)

\* The session uses the recogniser in one of four ways: a step of a call, or the
\* beginning of one, or its end without subtitles, or its end with them.
LEMMA WhisperSteps ==
  ASSUME [Next]_vars
  PROVE  /\ UNCHANGED setup
         /\ \/ WhisperStep /\ UNCHANGED <<shown, made>>
            \/ UNCHANGED <<whisperVars, shown, made>>
            \/ /\ \E wav : Transcribe(wav, target)
               /\ UNCHANGED <<shown, made>>
            \/ Return /\ UNCHANGED <<notice, shown, made>>
            \/ Use
<1>1. CASE Seek \/ SkipProcessed \/ StopSession
  BY <1>1 DEF Seek, SkipProcessed, StopSession, Cleared
<1>2. CASE BeginChunk \/ ExtractStep \/ NoSegment \/ SeekBeforeTranscribing
  BY <1>2 DEF BeginChunk, ExtractStep, NoSegment, SeekBeforeTranscribing,
              sessionVars
<1>3. CASE TranscribeHere \/ TranscribeThere \/ Send
  BY <1>3 DEF TranscribeHere, TranscribeThere, Send
<1>4. CASE RecogniserStep
  BY <1>4 DEF RecogniserStep, sessionVars
<1>5. ASSUME AttemptFails PROVE UNCHANGED <<setup, shown, made>>
  BY <1>5 DEF AttemptFails, Cleared
<1>6. CASE Refused \/ CannotSend \/ NoAnswer
  BY <1>5, <1>6 DEF Refused, CannotSend, NoAnswer
<1>7. CASE RecognitionFails
  BY <1>7 DEF RecognitionFails, Cleared
<1>8. CASE SeekWhileTranscribing \/ Merge \/ MergeFails
  BY <1>8 DEF SeekWhileTranscribing, Merge, MergeFails, Use
<1>9. CASE UNCHANGED vars
  BY <1>9 DEF vars, sessionVars
<1> QED
  BY <1>1, <1>2, <1>3, <1>4, <1>6, <1>7, <1>8, <1>9 DEF Next

\* The error says what has failed (local_whisper.rs 178-191, 328-351).
THEOREM OnlyTheCpuIsFatal == Spec => []ErrorMeansCpuFailed
<1>1. Init => ErrorMeansCpuFailed
  BY DEF Init, WhisperInit, ErrorMeansCpuFailed
<1>2. ASSUME ErrorMeansCpuFailed, [Next]_vars PROVE ErrorMeansCpuFailed'
  <2>1. CASE WhisperStep
    <3>1. CASE KeepContext \/ LoadContext \/ FallBackToCpu \/ InferenceEnds
      BY <3>1 DEF KeepContext, LoadContext, FallBackToCpu, InferenceEnds,
                  ErrorMeansCpuFailed
    <3>2. CASE NoContext
      BY <3>2 DEF NoContext, ErrorMeansCpuFailed
    <3>3. CASE FileFails \/ InferenceFails
      BY <3>3 DEF FileFails, InferenceFails, FailsAtOnce, ErrorMeansCpuFailed
    <3>4. CASE RetryOnCpu
      BY <3>4 DEF RetryOnCpu, ErrorMeansCpuFailed
    <3> QED
      BY <2>1, <3>1, <3>2, <3>3, <3>4 DEF WhisperStep
  <2>2. CASE UNCHANGED whisperVars
    BY <1>2, <2>2 DEF whisperVars, ErrorMeansCpuFailed
  <2>3. CASE (\E wav : Transcribe(wav, target)) \/ Return \/ Use
    BY <2>3 DEF Transcribe, Use, Return, ErrorMeansCpuFailed
  <2> QED
    BY <1>2, <2>1, <2>2, <2>3, WhisperSteps
<1> QED
  BY <1>1, <1>2, PTL DEF Spec

\* Once on the CPU the plugin stays there (local_whisper.rs 170-172, 340-348).
THEOREM TheCpuIsKept == Spec => CpuIsFinal
<1>1. ASSUME [Next]_vars PROVE [ctx = "cpu" => ctx' = "cpu"]_ctx
  <2>1. CASE WhisperStep
    BY <2>1, WhisperAssumption
       DEF WhisperStep, KeepContext, LoadContext, FallBackToCpu, NoContext,
           FileFails, InferenceEnds, RetryOnCpu, InferenceFails
  <2>2. CASE UNCHANGED whisperVars \/ (\E wav : Transcribe(wav, target)) \/ Return
             \/ Use
    BY <2>2 DEF whisperVars, Transcribe, Use, Return
  <2> QED
    BY <1>1, <2>1, <2>2, WhisperSteps
<1> QED
  BY <1>1, PTL DEF Spec, CpuIsFinal

\* A context has a notice on its way or on the screen; a chunk is recognised
\* with a context only.
NoticeInv ==
  /\ feature \in Devices /\ ctx \in Devices \cup {NoDevice}
  /\ notice \in Devices \cup {NoDevice}
  /\ stt \in {"loaded", "heard"} => ctx # NoDevice
  /\ ~setup.remote =>
       /\ ctx # NoDevice => IF notice = NoDevice THEN shown = ctx ELSE notice = ctx
       /\ made # NoDevice => shown = made

LEMMA NoticeStep == NoticeInv /\ [Next]_vars => NoticeInv'
<1> SUFFICES ASSUME NoticeInv, [Next]_vars PROVE NoticeInv'
  OBVIOUS
<1>1. UNCHANGED setup
  BY WhisperSteps
<1>2. "cpu" \in Devices /\ NoDevice \notin Devices
  BY WhisperAssumption DEF Devices
<1>3. CASE WhisperStep /\ UNCHANGED <<shown, made>>
  <2>1. CASE KeepContext \/ NoContext \/ FileFails \/ InferenceEnds
    BY <1>1, <1>3, <2>1
       DEF KeepContext, NoContext, FileFails, InferenceEnds, NoticeInv
  <2>2. CASE LoadContext \/ FallBackToCpu
    BY <1>1, <1>2, <1>3, <2>2
       DEF LoadContext, FallBackToCpu, NoticeOf, NoticeInv
  <2>3. CASE RetryOnCpu
    BY <1>1, <1>2, <1>3, <2>3 DEF RetryOnCpu, NoticeOf, NoticeInv
  <2>4. CASE InferenceFails
    BY <1>1, <1>3, <2>4 DEF InferenceFails, NoticeInv
  <2> QED
    BY <1>3, <2>1, <2>2, <2>3, <2>4 DEF WhisperStep
<1>4. CASE UNCHANGED <<whisperVars, shown, made>>
  BY <1>1, <1>4 DEF whisperVars, NoticeInv
<1>5. CASE (\E wav : Transcribe(wav, target)) /\ UNCHANGED <<shown, made>>
  BY <1>1, <1>5 DEF Transcribe, NoticeInv
<1>6. CASE Return /\ UNCHANGED <<notice, shown, made>>
  BY <1>1, <1>6 DEF Return, NoticeInv
<1>7. CASE Use
  <2>1. /\ ctx # NoDevice /\ made' = ctx /\ stt' = "idle"
        /\ UNCHANGED <<feature, ctx>> /\ ShowNotice
    BY <1>7 DEF Use, Received, Return, NoticeInv
  <2> QED
    BY <1>1, <2>1 DEF ShowNotice, NoticeInv
<1> QED
  BY <1>3, <1>4, <1>5, <1>6, <1>7, WhisperSteps

LEMMA NoticeInit == Init => NoticeInv
BY DEF Init, WhisperInit, NoticeInv

\* The last notice on the screen names the device of the last chunk
\* (local_whisper.rs 160-165, plugin.rs 847).
THEOREM NoticesAreTrue == Spec => []NoticeTellsDevice
<1>1. NoticeInv => NoticeTellsDevice
  BY DEF NoticeInv, NoticeTellsDevice
<1> QED
  BY <1>1, NoticeInit, NoticeStep, PTL DEF Spec

-----------------------------------------------------------------------------
(* The types                                                               *)

RestTypes ==
  /\ setup \in Setups
  /\ shown \in Devices \cup {NoDevice} /\ made \in Devices \cup {NoDevice}

LEMMA RestInit == Init => WhisperTypeOK /\ RestTypes
<1> SUFFICES ASSUME Init PROVE WhisperTypeOK /\ RestTypes
  OBVIOUS
<1>1. model \in BOOLEAN /\ feature \in Devices /\ setup \in Setups
  BY DEF Init, WhisperInit
<1>2. /\ ctx = NoDevice /\ notice = NoDevice /\ stt = "idle" /\ limit = 0
      /\ tried = {} /\ shown = NoDevice /\ made = NoDevice
  BY DEF Init, WhisperInit
<1> QED
  BY <1>1, <1>2 DEF WhisperTypeOK, RestTypes

LEMMA RestStep ==
  ASSUME ChunkInv, WhisperTypeOK, RestTypes, NoticeInv, [Next]_vars
  PROVE  WhisperTypeOK' /\ RestTypes'
<1>1. UNCHANGED setup
  BY WhisperSteps
<1>2. /\ "cpu" \in Devices /\ feature \in Devices /\ target \in Nat
      /\ ctx \in Devices \cup {NoDevice} /\ notice \in Devices \cup {NoDevice}
  BY DEF Devices, WhisperTypeOK, ChunkInv, SegmentInv, AudioTypes
<1>3. model' = model /\ feature' = feature
  BY WhisperSteps
     DEF WhisperStep, KeepContext, LoadContext, FallBackToCpu, NoContext,
         FileFails, InferenceEnds, RetryOnCpu, InferenceFails, whisperVars,
         Transcribe, Return, Use
<1>4. model' \in BOOLEAN
  BY <1>3, Zenon DEF WhisperTypeOK
<1>5. ASSUME WhisperStep
      PROVE  /\ stt' \in {"idle", "called", "loaded", "heard", "error"}
             /\ limit' \in Nat /\ tried' \subseteq Devices \cup {"disk"}
  <2>1. limit' = limit
    BY <1>5, HearingFacts
  <2>2. CASE KeepContext \/ LoadContext \/ FallBackToCpu \/ NoContext
    BY <1>2, <2>1, <2>2 DEF KeepContext, LoadContext, FallBackToCpu, NoContext,
                            WhisperTypeOK, Devices
  <2>3. CASE FileFails \/ InferenceEnds \/ RetryOnCpu \/ InferenceFails
    BY <1>2, <2>1, <2>3 DEF FileFails, InferenceEnds, RetryOnCpu, InferenceFails,
                            FailsAtOnce, WhisperTypeOK, Devices
  <2> QED
    BY <1>5, <2>2, <2>3 DEF WhisperStep
<1>6. /\ stt' \in {"idle", "called", "loaded", "heard", "error"}
      /\ limit' \in Nat /\ tried' \subseteq Devices \cup {"disk"}
  <2>1. CASE UNCHANGED whisperVars
    BY <2>1 DEF whisperVars, WhisperTypeOK
  <2>2. CASE (\E wav : Transcribe(wav, target)) \/ Return \/ Use
    BY <1>2, <2>2 DEF Transcribe, Return, Use
  <2> QED
    BY <1>5, <2>1, <2>2, WhisperSteps
<1>7. NoticeInv'
  BY NoticeStep
<1>8. WhisperTypeOK'
  BY <1>4, <1>6, <1>7 DEF WhisperTypeOK, NoticeInv
<1>9. RestTypes'
  <2>1. CASE UNCHANGED <<shown, made>>
    BY <1>1, <2>1 DEF RestTypes
  <2>2. CASE Use
    BY <1>1, <1>2, <2>2 DEF Use, ShowNotice, RestTypes
  <2> QED
    BY <2>1, <2>2, WhisperSteps
<1> QED
  BY <1>8, <1>9

\* The types, among them that no attempt is one more than max_retry
\* (remote_http.rs 158-177).
THEOREM TypeCorrect == Spec => []TypeOK
<1> DEFINE I == ChunkInv /\ NoticeInv /\ WhisperTypeOK /\ RestTypes
<1>1. Init => I
  BY ChunkInit, NoticeInit, RestInit
<1>2. I /\ [Next]_vars => I'
  BY ChunkStep, NoticeStep, RestStep
<1>3. I /\ EntryInv => TypeOK
  BY SegmentOfInv
     DEF ChunkInv, SessionTypes, Places, EntryInv, EntryType, RestTypes, TypeOK
<1> QED
  BY <1>1, <1>2, <1>3, EntryCorrect, PTL DEF Spec
===============================================================================
