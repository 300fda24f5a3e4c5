----------------------------- MODULE AudioSegment -----------------------------
(***************************************************************************)
(* AudioExtractor::extract_audio_segment of crates/mpv-stt-plugin/src/     *)
(* audio.rs: open the medium, seek, decode packet by packet, skip what     *)
(* lies before the segment, write what lies in it.                         *)
(*                                                                         *)
(* The medium's audio is the frames 0, 1, ... in order, already in the     *)
(* output format (resampling keeps the order and, to a few samples, the    *)
(* number).  The demuxer delivers them in packets of any length, after a   *)
(* seek from one of the points that the medium can be entered at; packets  *)
(* of other streams are skipped and not shown.  The decoder keeps up to    *)
(* Delay frames back until it is flushed.  FFmpeg is external: what it     *)
(* does is what the code relies on.                                        *)
(*                                                                         *)
(* A definition named X_Something is a deliberately wrong form of the X    *)
(* that follows it; the wrong forms are not part of the specification.     *)
(***************************************************************************)
EXTENDS Integers, Sequences

CONSTANTS
  Frames,    \* the length of the medium's audio
  MaxPacket, \* bound: frames in a packet
  Delay      \* frames the decoder may keep back

ASSUME AudioAssumption ==
  Frames \in Nat /\ MaxPacket \in Nat \ {0} /\ Delay \in Nat

VARIABLES
  seekable, \* the frames at which a seek can enter the medium; never changes
  cut,      \* "idle", "reading", "flushing", "done", "failed"
  start,    \* start_ms, in frames
  target,   \* target_frames
  seeked,   \* the seek worked
  toSkip,   \* start_frames
  at,       \* the first frame the demuxer has not delivered
  held,     \* how many frames the decoder has taken and not given back
  skipped,  \* skipped_frames
  out       \* the WAV file; written_frames is its length

audioVars ==
  <<seekable, cut, start, target, seeked, toSkip, at, held, skipped, out>>

AudioInit ==
  /\ seekable \in SUBSET (0 .. Frames - 1) /\ 0 \in seekable
  /\ cut = "idle" /\ start = 0 /\ target = 0 /\ seeked = FALSE /\ toSkip = 0
  /\ at = 0 /\ held = 0 /\ skipped = 0 /\ out = <<>>

-----------------------------------------------------------------------------
(* Opening                                                                 *)

\* A seek ends at the last entry point that is not after the position.
Landing(s) ==
  CHOOSE k \in seekable : k <= s /\ \A j \in seekable : j <= s => j <= k

\* After a seek nothing is skipped; without one everything before the start is.
StartFrames(s, sought) == IF sought THEN 0 ELSE s

\* Opening the medium truncates the WAV file of the chunk before.  At the very
\* start there is no seek, and one that fails is made up for by skipping.
Extract(s, t) ==
  /\ cut' = "reading" /\ start' = s /\ target' = t
  /\ \E sought \in BOOLEAN :
       /\ sought => s > 0
       /\ seeked' = sought
       /\ at' = IF sought THEN Landing(s) ELSE 0
       /\ toSkip' = StartFrames(s, sought)
  /\ held' = 0 /\ skipped' = 0 /\ out' = <<>>
  /\ UNCHANGED seekable

-----------------------------------------------------------------------------
(* The loop over the packets, and over the frames a packet gives           *)

Unfinished == Len(out) < target

\* receive_frame says "again" only when the decoder keeps back no more than its
\* delay, so that is when the next packet is sent.
SendPacket ==
  /\ cut = "reading" /\ Unfinished /\ held <= Delay /\ at < Frames
  /\ \E n \in 1 .. MaxPacket : /\ at + n <= Frames
                               /\ at' = at + n /\ held' = held + n
  /\ UNCHANGED <<seekable, cut, start, target, seeked, toSkip, skipped, out>>

\* Of a block of n frames, those that are skipped and those that are written.
Dropped(n) == IF toSkip - skipped < n THEN toSkip - skipped ELSE n

Room_Whole(n) == n - Dropped(n)

Room(n) ==
  IF target - Len(out) < n - Dropped(n) THEN target - Len(out)
                                        ELSE n - Dropped(n)

\* The decoder gives back a block; full, the segment is left at once, both loops.
ReceiveBlock ==
  /\ cut \in {"reading", "flushing"} /\ Unfinished /\ held > 0
  /\ \E n \in 1 .. held :
       /\ skipped' = skipped + Dropped(n)
       /\ out' = out \o [i \in 1 .. Room(n) |-> at - held + Dropped(n) + i - 1]
       /\ held' = held - n
  /\ UNCHANGED <<seekable, cut, start, target, seeked, toSkip, at>>

\* The packets have come to an end before the segment is full.
SendEof ==
  /\ cut = "reading" /\ Unfinished /\ held <= Delay /\ at = Frames
  /\ cut' = "flushing"
  /\ UNCHANGED <<seekable, start, target, seeked, toSkip, at, held, skipped, out>>

\* The file is completed.  A segment without a sample is an error.
Finalize ==
  /\ \/ cut \in {"reading", "flushing"} /\ ~Unfinished
     \/ cut = "flushing" /\ held = 0
  /\ cut' = IF out = <<>> THEN "failed" ELSE "done"
  /\ UNCHANGED <<seekable, start, target, seeked, toSkip, at, held, skipped, out>>

\* The medium cannot be opened or decoded, or the time-out passes at one of the
\* checks: the file stays as it is and the caller is told.
ExtractionFails ==
  /\ cut \in {"reading", "flushing"}
  /\ cut' = "failed"
  /\ UNCHANGED <<seekable, start, target, seeked, toSkip, at, held, skipped, out>>

\* The caller is through with the segment.
SegmentUsed ==
  /\ cut' = "idle" /\ start' = 0 /\ target' = 0 /\ seeked' = FALSE /\ toSkip' = 0
  /\ at' = 0 /\ held' = 0 /\ skipped' = 0 /\ out' = <<>>
  /\ UNCHANGED seekable

AudioStep ==
  SendPacket \/ ReceiveBlock \/ SendEof \/ Finalize \/ ExtractionFails

-----------------------------------------------------------------------------
(* What must hold                                                          *)

AudioTypeOK ==
  /\ seekable \subseteq 0 .. Frames - 1 /\ 0 \in seekable
  /\ cut \in {"idle", "reading", "flushing", "done", "failed"}
  /\ start \in 0 .. Frames /\ target \in Nat /\ seeked \in BOOLEAN
  /\ toSkip \in 0 .. Frames /\ skipped \in 0 .. Frames
  /\ at \in 0 .. Frames /\ held \in 0 .. Frames
  /\ out \in Seq(0 .. Frames - 1) /\ Len(out) <= target

\* Where the segment begins: at the start, or where the seek has landed.
SegmentBegin == IF seeked THEN Landing(start) ELSE start

SegmentLength ==
  IF target < Frames - SegmentBegin THEN target ELSE Frames - SegmentBegin

\* A segment that is handed on has no hole, no frame twice and none of another
\* place, in whatever blocks the decoder gave it back and however late; it is as
\* long as was asked for, or reaches to the end (audio.rs 180-310).
SegmentIsWhole ==
  cut = "done" =>
    /\ Len(out) = SegmentLength
    /\ \A i \in 1 .. Len(out) : out[i] = SegmentBegin + i - 1

\* The segment is what was asked for.  This does not hold when a seek enters the
\* medium before the start, since nothing is skipped after a seek.
SegmentIsAsked ==
  cut = "done" => \A i \in 1 .. Len(out) : out[i] = start + i - 1
===============================================================================
