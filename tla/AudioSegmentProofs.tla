-------------------------- MODULE AudioSegmentProofs --------------------------
(***************************************************************************)
(* What the extraction keeps true at every step, for media of every        *)
(* length, packets and blocks of every size and any delay of the decoder.  *)
(* RecognitionProofs puts the steps together.                              *)
(***************************************************************************)
EXTENDS AudioSegment, TLAPS, WellFoundedInduction

-----------------------------------------------------------------------------
(* Where a seek lands                                                      *)

\* A set of natural numbers that is not empty has a least one.
LEMMA LeastOf ==
  ASSUME NEW T \in SUBSET Nat, T # {}
  PROVE  \E m \in T : \A k \in T : m <= k
<1>1. PICK m \in T : \A k \in T : <<k, m>> \notin OpToRel(<, Nat)
  BY WFMin, NatLessThanWellFounded, Zenon
<1>2. \A k \in T : ~ (k < m)
  BY <1>1, Zenon DEF OpToRel
<1> QED
  BY <1>2

\* Of the members up to s there is a greatest.
LEMMA GreatestUpTo ==
  ASSUME NEW S \in SUBSET Nat, 0 \in S, NEW s \in Nat
  PROVE  \E k \in S : k <= s /\ \A j \in S : j <= s => j <= k
<1> DEFINE T == {s - k : k \in {j \in S : j <= s}}
<1>1. T \in SUBSET Nat /\ T # {}
  BY s - 0 \in T
<1>2. PICK d \in T : \A e \in T : d <= e
  BY <1>1, LeastOf
<1>3. PICK k \in S : k <= s /\ d = s - k
  BY <1>2
<1>4. ASSUME NEW j \in S, j <= s PROVE j <= k
  <2>1. s - j \in T
    BY <1>4
  <2>2. s - k <= s - j
    BY <1>2, <1>3, <2>1
  <2> QED
    BY <2>2, <1>3
<1> QED
  BY <1>3, <1>4

\* A seek ends at an entry point, not after the position, and at the position
\* itself if that is one (audio.rs 146).
LEMMA LandingFacts ==
  ASSUME NEW s \in Nat, seekable \subseteq Nat, 0 \in seekable
  PROVE  /\ Landing(s) \in seekable /\ Landing(s) \in 0 .. s
         /\ s \in seekable => Landing(s) = s
<1> DEFINE l == Landing(s)
<1>1. \E k \in seekable : k <= s /\ \A j \in seekable : j <= s => j <= k
  BY GreatestUpTo
<1>2. l \in seekable /\ l <= s /\ \A j \in seekable : j <= s => j <= l
  BY <1>1, Zenon DEF Landing
<1> HIDE DEF l
<1>3. l \in 0 .. s /\ (s \in seekable => l = s)
  BY <1>2
<1> QED
  BY <1>2, <1>3 DEF l

-----------------------------------------------------------------------------
(* The invariant: of the frames the decoder has given back since the       *)
(* beginning, the first toSkip are skipped and the following ones are in   *)
(* the file until it is full.                                              *)

\* Where the demuxer has begun, and how many frames have been given back.
Begin == IF seeked THEN Landing(start) ELSE 0
Given == at - held - Begin

Lesser(a, b) == IF a < b THEN a ELSE b

AudioTypes ==
  /\ seekable \subseteq 0 .. Frames - 1 /\ 0 \in seekable
  /\ cut \in {"idle", "reading", "flushing", "done", "failed"}
  /\ start \in 0 .. Frames - 1 /\ target \in Nat /\ seeked \in BOOLEAN
  /\ toSkip \in 0 .. Frames - 1 /\ skipped \in 0 .. Frames
  /\ at \in 0 .. Frames /\ held \in 0 .. Frames
  /\ out \in Seq(0 .. Frames - 1)

Progress ==
  /\ toSkip = IF seeked THEN 0 ELSE start
  /\ Begin + held <= at
  /\ skipped = Lesser(Given, toSkip)
  /\ Len(out) = Lesser(target, Given - skipped)

Content == \A i \in 1 .. Len(out) : out[i] = Begin + toSkip + i - 1

Ends ==
  /\ cut = "flushing" => at = Frames
  /\ cut = "done" =>
       out # <<>> /\ (Len(out) = target \/ (at = Frames /\ held = 0))

SegmentInv == AudioTypes /\ Progress /\ Content /\ Ends

\* The beginning is a frame not after the start.
LEMMA BeginFacts ==
  ASSUME AudioTypes
  PROVE  Begin \in 0 .. start
<1>1. seekable \subseteq Nat /\ 0 \in seekable /\ start \in Nat
  BY AudioAssumption DEF AudioTypes
<1>2. Landing(start) \in 0 .. start
  BY <1>1, LandingFacts, Zenon
<1> QED
  BY <1>1, <1>2 DEF Begin

-----------------------------------------------------------------------------
(* The steps                                                               *)

LEMMA SegmentInit == AudioInit => SegmentInv
<1> SUFFICES ASSUME AudioInit PROVE SegmentInv
  OBVIOUS
<1>1. AudioTypes
  <2>1. Frames \in Nat /\ 0 \in 0 .. Frames - 1
    BY AudioAssumption DEF AudioInit
  <2>2. seekable \subseteq 0 .. Frames - 1 /\ 0 \in seekable
    BY DEF AudioInit
  <2>3. out \in Seq(0 .. Frames - 1)
    BY DEF AudioInit
  <2>4. /\ cut = "idle" /\ start = 0 /\ target = 0 /\ seeked = FALSE
        /\ toSkip = 0 /\ at = 0 /\ held = 0 /\ skipped = 0
    BY DEF AudioInit
  <2>5. cut \in {"idle", "reading", "flushing", "done", "failed"}
    BY <2>4
  <2>6. seeked \in BOOLEAN
    BY <2>4
  <2>7. /\ start \in 0 .. Frames - 1 /\ target \in Nat
        /\ toSkip \in 0 .. Frames - 1 /\ skipped \in 0 .. Frames
        /\ at \in 0 .. Frames /\ held \in 0 .. Frames
    BY <2>1, <2>4
  <2> QED
    BY <2>2, <2>3, <2>5, <2>6, <2>7 DEF AudioTypes
<1>2. Progress /\ Content /\ Ends
  BY DEF AudioInit, Progress, Content, Ends, Begin, Given, Lesser
<1> QED
  BY <1>1, <1>2 DEF SegmentInv

LEMMA SegmentExtract ==
  ASSUME SegmentInv, NEW s \in 0 .. Frames - 1, NEW t \in Nat, Extract(s, t)
  PROVE  SegmentInv'
<1>1. Frames \in Nat /\ seekable \subseteq Nat /\ 0 \in seekable /\ s \in Nat
  BY AudioAssumption DEF SegmentInv, AudioTypes
<1> DEFINE l == Landing(s)
<1>2. l \in seekable /\ l \in 0 .. s
  BY <1>1, LandingFacts, Zenon
<1>3. /\ cut' = "reading" /\ start' = s /\ target' = t /\ seekable' = seekable
      /\ held' = 0 /\ skipped' = 0 /\ out' = <<>>
      /\ seeked' \in BOOLEAN
      /\ at' = IF seeked' THEN l ELSE 0
      /\ toSkip' = IF seeked' THEN 0 ELSE s
  BY DEF Extract, StartFrames
<1>4. Begin' = at'
  BY <1>3 DEF Begin, Landing
<1> HIDE DEF l
<1>5. AudioTypes'
  <2>1. at' \in 0 .. Frames /\ toSkip' \in 0 .. Frames - 1
    BY <1>1, <1>2, <1>3
  <2>2. out' \in Seq(0 .. Frames - 1)
    BY <1>3
  <2> QED
    BY <1>1, <1>3, <2>1, <2>2 DEF SegmentInv, AudioTypes
<1>6. at' \in Nat /\ toSkip' \in Nat /\ Given' = 0 /\ Len(out') = 0
  BY <1>1, <1>2, <1>3, <1>4 DEF Given
<1>7. Progress'
  BY <1>3, <1>4, <1>6 DEF Progress, Lesser
<1>8. Content' /\ Ends'
  BY <1>3, <1>6 DEF Content, Ends
<1> QED
  BY <1>5, <1>7, <1>8 DEF SegmentInv

LEMMA SegmentUsedStep ==
  ASSUME SegmentInv, SegmentUsed
  PROVE  SegmentInv'
<1>1. AudioTypes'
  <2>1. Frames \in Nat /\ 0 \in 0 .. Frames - 1
    BY AudioAssumption DEF SegmentInv, AudioTypes
  <2>2. out' \in Seq(0 .. Frames - 1)
    BY DEF SegmentUsed
  <2>3. seekable' \subseteq 0 .. Frames - 1 /\ 0 \in seekable'
    BY DEF SegmentUsed, SegmentInv, AudioTypes
  <2>4. /\ cut' = "idle" /\ start' = 0 /\ target' = 0 /\ seeked' = FALSE
        /\ toSkip' = 0 /\ at' = 0 /\ held' = 0 /\ skipped' = 0
    BY DEF SegmentUsed
  <2>5. /\ cut' \in {"idle", "reading", "flushing", "done", "failed"}
        /\ seeked' \in BOOLEAN
    BY <2>4
  <2>6. /\ start' \in 0 .. Frames - 1 /\ target' \in Nat
        /\ toSkip' \in 0 .. Frames - 1 /\ skipped' \in 0 .. Frames
        /\ at' \in 0 .. Frames /\ held' \in 0 .. Frames
    BY <2>1, <2>4
  <2> QED
    BY <2>2, <2>3, <2>5, <2>6 DEF AudioTypes
<1>2. Progress' /\ Content' /\ Ends'
  BY DEF SegmentUsed, Progress, Content, Ends, Begin, Given, Lesser
<1> QED
  BY <1>1, <1>2 DEF SegmentInv

\* A step that leaves the segment's bounds and the entry points alone.
LEMMA SameBegin ==
  ASSUME UNCHANGED <<seekable, start, seeked>>
  PROVE  Begin' = Begin
BY DEF Begin, Landing

LEMMA SegmentSend ==
  ASSUME SegmentInv, SendPacket
  PROVE  SegmentInv'
<1>1. Begin \in Nat /\ Begin' = Begin
  BY BeginFacts, SameBegin DEF SegmentInv, AudioTypes, SendPacket
<1>2. PICK n \in 1 .. MaxPacket :
        /\ at + n <= Frames /\ at' = at + n /\ held' = held + n
  BY DEF SendPacket
<1>3. UNCHANGED <<seekable, cut, start, target, seeked, toSkip, skipped, out>>
      /\ cut = "reading"
  BY DEF SendPacket
<1>4. n \in Nat /\ Frames \in Nat
  BY AudioAssumption
<1>5. AudioTypes'
  <2>1. at \in Nat /\ held \in Nat /\ Begin + held <= at
    BY <1>4 DEF SegmentInv, AudioTypes, Progress
  <2>2. at' \in 0 .. Frames /\ held' \in 0 .. Frames
    BY <1>1, <1>2, <1>4, <2>1
  <2>3. /\ AudioTypes
        /\ seekable' = seekable /\ cut' = cut /\ start' = start
        /\ target' = target /\ seeked' = seeked /\ toSkip' = toSkip
        /\ skipped' = skipped /\ out' = out
    BY <1>3 DEF SegmentInv
  <2>4. seeked' \in BOOLEAN /\ cut' \in {"idle", "reading", "flushing", "done", "failed"}
    BY <2>3, Zenon DEF AudioTypes
  <2>5. /\ seekable' \subseteq 0 .. Frames - 1 /\ 0 \in seekable'
        /\ start' \in 0 .. Frames - 1 /\ target' \in Nat
        /\ toSkip' \in 0 .. Frames - 1 /\ skipped' \in 0 .. Frames
        /\ out' \in Seq(0 .. Frames - 1)
    BY <2>3, Zenon DEF AudioTypes
  <2> QED
    BY <2>2, <2>4, <2>5 DEF AudioTypes
<1>6. Given' = Given
  BY <1>1, <1>2, <1>4 DEF Given, SegmentInv, AudioTypes
<1>7. Progress'
  BY <1>1, <1>2, <1>3, <1>4, <1>6 DEF SegmentInv, AudioTypes, Progress, Lesser
<1>8. Content' /\ Ends'
  BY <1>1, <1>3 DEF SegmentInv, Content, Ends
<1> QED
  BY <1>5, <1>7, <1>8 DEF SegmentInv

\* What becomes of a block of n frames: the first k are skipped, the next r are
\* written (audio.rs 242-254).
LEMMA BlockFacts ==
  ASSUME SegmentInv, Unfinished, NEW n \in 1 .. held
  PROVE  /\ Dropped(n) \in 0 .. n /\ Room(n) \in 0 .. n - Dropped(n)
         /\ skipped + Dropped(n) = Lesser(Given + n, toSkip)
         /\ Len(out) + Room(n) =
              Lesser(target, Given + n - (skipped + Dropped(n)))
         /\ Room(n) > 0 =>
              at - held + Dropped(n) = Begin + toSkip + Len(out)
<1> DEFINE L == Len(out)
<1>1. Begin \in Nat
  BY BeginFacts DEF SegmentInv, AudioTypes
<1>2. /\ at \in Nat /\ held \in Nat /\ toSkip \in Nat /\ skipped \in Nat
      /\ target \in Nat /\ L \in Nat /\ n \in Nat /\ 1 <= n /\ n <= held
  BY AudioAssumption DEF SegmentInv, AudioTypes
<1>3. /\ Begin + held <= at /\ skipped = Lesser(Given, toSkip)
      /\ L = Lesser(target, Given - skipped) /\ L < target
  BY DEF SegmentInv, Progress, Unfinished
<1>4. Given \in Nat /\ at - held = Begin + Given
  BY <1>1, <1>2, <1>3 DEF Given
<1>5. L = Given - skipped
  BY <1>2, <1>3, <1>4 DEF Lesser
<1>6. Dropped(n) = IF toSkip - skipped < n THEN toSkip - skipped ELSE n
  BY DEF Dropped
<1>7. Room(n) = IF target - L < n - Dropped(n) THEN target - L
                                               ELSE n - Dropped(n)
  BY DEF Room
<1> HIDE DEF L
<1>8. CASE Given < toSkip
  <2>1. skipped = Given /\ L = 0
    BY <1>2, <1>3, <1>4, <1>5, <1>8 DEF Lesser
  <2> QED
    BY <1>1, <1>2, <1>3, <1>4, <1>6, <1>7, <1>8, <2>1 DEF Lesser, L
<1>9. CASE ~(Given < toSkip)
  <2>1. skipped = toSkip /\ Dropped(n) = 0
    BY <1>2, <1>3, <1>4, <1>6, <1>9 DEF Lesser
  <2> QED
    BY <1>1, <1>2, <1>3, <1>4, <1>5, <1>7, <1>9, <2>1 DEF Lesser, L
<1> QED
  BY <1>8, <1>9

\* A sequence followed by another one.
LEMMA Concatenated ==
  ASSUME NEW T, NEW a \in Seq(T), NEW b \in Seq(T), NEW r, Len(b) = r
  PROVE  /\ a \o b \in Seq(T) /\ Len(a \o b) = Len(a) + r
         /\ \A i \in 1 .. Len(a) : (a \o b)[i] = a[i]
         /\ \A i \in Len(a) + 1 .. Len(a) + r : (a \o b)[i] = b[i - Len(a)]
OBVIOUS

LEMMA SegmentReceive ==
  ASSUME SegmentInv, ReceiveBlock
  PROVE  SegmentInv'
<1>1. Begin \in Nat /\ Begin' = Begin
  BY BeginFacts, SameBegin DEF SegmentInv, AudioTypes, ReceiveBlock
<1>2. PICK n \in 1 .. held :
        /\ skipped' = skipped + Dropped(n)
        /\ out' = out \o [i \in 1 .. Room(n) |-> at - held + Dropped(n) + i - 1]
        /\ held' = held - n
  BY DEF ReceiveBlock
<1>3. UNCHANGED <<seekable, cut, start, target, seeked, toSkip, at>>
      /\ cut \in {"reading", "flushing"} /\ Unfinished
  BY DEF ReceiveBlock
<1> DEFINE k == Dropped(n)  r == Room(n)  L == Len(out)
           new == [i \in 1 .. r |-> at - held + k + i - 1]
<1>4. /\ Frames \in Nat /\ at \in 0 .. Frames /\ held \in 0 .. Frames
      /\ target \in Nat /\ toSkip \in 0 .. Frames - 1 /\ n \in 1 .. held
      /\ out \in Seq(0 .. Frames - 1) /\ L \in Nat
      /\ Begin + held <= at
  BY AudioAssumption DEF SegmentInv, AudioTypes, Progress
<1>5. /\ k \in 0 .. n /\ r \in 0 .. n - k
      /\ skipped + k = Lesser(Given + n, toSkip)
      /\ L + r = Lesser(target, Given + n - (skipped + k))
      /\ r > 0 => at - held + k = Begin + toSkip + L
  BY <1>3, BlockFacts
<1> HIDE DEF k, r
<1>6. new \in Seq(0 .. Frames - 1) /\ Len(new) = r
  <2>1. \A i \in 1 .. r : at - held + k + i - 1 \in 0 .. Frames - 1
    BY <1>1, <1>4, <1>5
  <2> QED
    BY <2>1, <1>4, <1>5
<1>7. out' = out \o new
  BY <1>2 DEF k, r
<1> HIDE DEF new
<1>8. /\ out' \in Seq(0 .. Frames - 1) /\ Len(out') = L + r
      /\ \A i \in 1 .. L : out'[i] = out[i]
      /\ \A i \in L + 1 .. L + r : out'[i] = new[i - L]
  <2>1. /\ out \o new \in Seq(0 .. Frames - 1)
        /\ Len(out \o new) = Len(out) + r
        /\ \A i \in 1 .. Len(out) : (out \o new)[i] = out[i]
        /\ \A i \in Len(out) + 1 .. Len(out) + r :
             (out \o new)[i] = new[i - Len(out)]
    BY <1>4, <1>6, Concatenated
  <2> QED
    BY <1>7, <2>1
<1>9. Given \in Nat /\ Given' = Given + n
  BY <1>1, <1>2, <1>3, <1>4 DEF Given
<1>10. skipped' = Lesser(Given', toSkip') /\ skipped' \in 0 .. Frames
  <2>1. skipped' = Lesser(Given + n, toSkip)
    BY <1>2, <1>5 DEF k
  <2>2. Lesser(Given + n, toSkip) \in 0 .. toSkip
    BY <1>4, <1>9 DEF Lesser
  <2> QED
    BY <1>3, <1>4, <1>9, <2>1, <2>2
<1>11. AudioTypes'
  BY <1>2, <1>3, <1>4, <1>8, <1>10 DEF SegmentInv, AudioTypes
<1>12. Progress'
  <2>1. Len(out') = Lesser(target', Given' - skipped')
    <3>1. skipped' = skipped + k
      BY <1>2 DEF k
    <3> QED
      BY <1>3, <1>5, <1>8, <1>9, <3>1
  <2>2. Begin' + held' <= at'
    BY <1>1, <1>2, <1>3, <1>4
  <2>3. toSkip' = IF seeked' THEN 0 ELSE start'
    BY <1>3 DEF SegmentInv, Progress
  <2> QED
    BY <1>10, <2>1, <2>2, <2>3 DEF Progress
<1>13. Content'
  <2> SUFFICES ASSUME NEW i \in 1 .. Len(out')
               PROVE  out'[i] = Begin + toSkip + i - 1
    BY <1>1, <1>3 DEF Content
  <2>1. CASE i <= L
    BY <1>4, <1>8, <2>1 DEF SegmentInv, Content
  <2>2. CASE i > L
    <3>1. i \in L + 1 .. L + r /\ i - L \in 1 .. r /\ r > 0
      BY <1>4, <1>5, <1>8, <2>2
    <3>2. out'[i] = at - held + k + (i - L) - 1
      BY <1>8, <3>1 DEF new
    <3> QED
      BY <1>1, <1>4, <1>5, <3>1, <3>2
  <2> QED
    BY <1>4, <1>8, <2>1, <2>2
<1>14. Ends'
  BY <1>3 DEF SegmentInv, Ends
<1> QED
  BY <1>11, <1>12, <1>13, <1>14 DEF SegmentInv

LEMMA SegmentEnds ==
  ASSUME SegmentInv, SendEof \/ Finalize \/ ExtractionFails
  PROVE  SegmentInv'
<1>1. UNCHANGED <<seekable, start, target, seeked, toSkip, at, held, skipped, out>>
  BY DEF SendEof, Finalize, ExtractionFails
<1>2. Begin' = Begin /\ Given' = Given
  BY <1>1, SameBegin DEF Given
<1>3. AudioTypes'
  BY <1>1 DEF SegmentInv, AudioTypes, SendEof, Finalize, ExtractionFails
<1>4. Progress' /\ Content'
  BY <1>1, <1>2 DEF SegmentInv, Progress, Content
<1>5. Ends'
  <2>1. CASE SendEof
    BY <1>1, <2>1 DEF SendEof, Ends
  <2>2. CASE Finalize
    <3>1. ~Unfinished => Len(out) = target
      BY AudioAssumption, BeginFacts
         DEF SegmentInv, AudioTypes, Progress, Unfinished, Lesser, Given
    <3>2. cut' = "done" => out # <<>> /\ (~Unfinished \/ (cut = "flushing" /\ held = 0))
      BY <2>2 DEF Finalize
    <3>3. cut = "flushing" => at = Frames
      BY DEF SegmentInv, Ends
    <3>4. cut' # "flushing"
      BY <2>2 DEF Finalize
    <3> QED
      BY <1>1, <3>1, <3>2, <3>3, <3>4 DEF Ends
  <2>3. CASE ExtractionFails
    BY <1>1, <2>3 DEF ExtractionFails, Ends
  <2> QED
    BY <2>1, <2>2, <2>3
<1> QED
  BY <1>3, <1>4, <1>5 DEF SegmentInv

LEMMA SegmentStep ==
  ASSUME SegmentInv, AudioStep
  PROVE  SegmentInv'
BY SegmentSend, SegmentReceive, SegmentEnds DEF AudioStep

LEMMA SegmentStutter ==
  ASSUME SegmentInv, UNCHANGED audioVars
  PROVE  SegmentInv'
<1>1. UNCHANGED <<seekable, cut, start, target, seeked, toSkip, at, held, skipped, out>>
  BY DEF audioVars
<1>2. Begin' = Begin /\ Given' = Given
  BY <1>1, SameBegin DEF Given
<1> QED
  BY <1>1, <1>2 DEF SegmentInv, AudioTypes, Progress, Content, Ends

-----------------------------------------------------------------------------
\* What the invariant says of a segment that is handed on.
LEMMA SegmentOfInv ==
  ASSUME SegmentInv
  PROVE  SegmentIsWhole /\ AudioTypeOK
<1>1. Begin \in 0 .. start
  BY BeginFacts DEF SegmentInv
<1>2. /\ Frames \in Nat /\ at \in 0 .. Frames /\ held \in Nat /\ start \in Nat
      /\ target \in Nat /\ toSkip \in Nat /\ skipped \in Nat /\ Len(out) \in Nat
  BY AudioAssumption DEF SegmentInv, AudioTypes
<1>3. SegmentBegin = Begin + toSkip
  BY <1>1, <1>2 DEF SegmentInv, Progress, SegmentBegin, Begin, AudioTypes
<1>4. /\ Given \in Nat /\ Given = at - held - Begin /\ Begin + held <= at
      /\ skipped = Lesser(Given, toSkip) /\ Len(out) = Lesser(target, Given - skipped)
  BY <1>1, <1>2 DEF SegmentInv, Progress, Given
<1>5. AudioTypeOK
  <2>1. Len(out) <= target
    BY <1>2, <1>4 DEF Lesser
  <2> QED
    BY <1>2, <2>1 DEF SegmentInv, AudioTypes, AudioTypeOK
<1>6. ASSUME cut = "done" PROVE Len(out) = SegmentLength
  <2>1. out # <<>> /\ (Len(out) = target \/ (at = Frames /\ held = 0))
    BY <1>6 DEF SegmentInv, Ends
  <2>2. Len(out) > 0
    BY <1>2, <2>1 DEF SegmentInv, AudioTypes
  <2>3. skipped = toSkip
    BY <1>2, <1>4, <2>2 DEF Lesser
  <2> QED
    BY <1>1, <1>2, <1>3, <1>4, <2>1, <2>3 DEF Lesser, SegmentLength
<1> QED
  BY <1>3, <1>5, <1>6 DEF SegmentInv, Content, SegmentIsWhole
===============================================================================
