------------------------------- MODULE Transfer -------------------------------
(***************************************************************************)
(* What an audio file becomes on its way to the server: the client's half  *)
(* in crates/mpv-stt-plugin/src/stt/remote_http.rs, the server's half in   *)
(* handle_transcribe of crates/mpv-stt-server/src/server.rs, and the keys  *)
(* and tokens of crates/mpv-stt-crypto.  Operators only.                   *)
(*                                                                         *)
(* An Opus packet is the frames it was made from: Opus is lossy but keeps  *)
(* their number and order.  What it does not keep is their place: encoder  *)
(* and decoder look ahead, so that the sound comes out late, behind as     *)
(* much silence.  The client does not flush the encoder at the end and the *)
(* server does not skip the silence at the beginning.                      *)
(*                                                                         *)
(* A key or token is what it was derived from, Nil for none; a sealed body *)
(* opens with its key only.                                                *)
(*                                                                         *)
(* A definition named X_Something is a deliberately wrong form of the X    *)
(* that follows it; the wrong forms are not part of the specification.     *)
(***************************************************************************)
EXTENDS Integers, Sequences

CONSTANTS
  FrameSize, \* samples in an Opus packet: 20 ms
  Lag,       \* how many samples Opus is late: about 6.5 ms
  Zero,      \* a sample of silence that is in no medium
  Nil

ASSUME TransferAssumption == FrameSize \in Nat \ {0} /\ Lag \in Nat

-----------------------------------------------------------------------------
(* compress_audio, send_request                                            *)

Padded_Truncated(pcm) == SubSeq(pcm, 1, Len(pcm) - (Len(pcm) % FrameSize))

\* The last packet is filled up with silence.
Padded(pcm) ==
  IF Len(pcm) % FrameSize = 0 THEN pcm
  ELSE pcm \o [i \in 1 .. FrameSize - (Len(pcm) % FrameSize) |-> Zero]

\* What is encoded, one packet after the other.
Packets(pcm) ==
  [k \in 1 .. Len(pcm) \div FrameSize |->
     SubSeq(pcm, (k - 1) * FrameSize + 1, k * FrameSize)]

\* A packet that is not whole is an error, and nothing is sent.
Encodes(plugin, wav) == plugin.opus => Len(Padded(wav)) % FrameSize = 0

\* A plugin without a secret sends the token of the empty one, which is Nil here.
\* An empty file, which is not sent, is not handed on by the extractor either.
Request(plugin, wav) ==
  [compression |-> IF plugin.opus THEN "opus" ELSE "pcm",
   data        |-> IF plugin.opus THEN Packets(Padded(wav)) ELSE wav,
   sealed      |-> plugin.key,
   encrypted   |-> plugin.key # Nil,
   token       |-> plugin.secret]

-----------------------------------------------------------------------------
(* handle_transcribe up to the job                                         *)

Authorised_Strictly(server, request) ==
  server.secret # Nil /\ request.token = server.secret

\* A server without a secret takes every token.
Authorised(server, request) ==
  server.secret # Nil => request.token = server.secret

\* A plain body is taken by a server with a key as well.
Opens(key, request) == request.encrypted => key # Nil /\ key = request.sealed

\* The decoder gives back FrameSize samples for each packet, in the order of the
\* packets but late: the last ones are still inside it when it is destroyed.
Joined(packets) ==
  [i \in 1 .. FrameSize * Len(packets) |->
     packets[1 + ((i - 1) \div FrameSize)][1 + ((i - 1) % FrameSize)]]

Delayed(pcm) ==
  [i \in 1 .. Len(pcm) |-> IF i <= Lag THEN Zero ELSE pcm[i - Lag]]

Decoded(packets) == Delayed(Joined(packets))

AudioOf(request) ==
  IF request.compression = "opus" THEN Decoded(request.data) ELSE request.data

\* How much later than in the file a sound is in what the server hears.
Late(plugin) == IF plugin.opus THEN Lag ELSE 0

\* The request is refused, or a job with its audio is queued.
Admitted(server, request) ==
  /\ Authorised(server, request) /\ Opens(server.key, request)
  /\ AudioOf(request) # <<>>

-----------------------------------------------------------------------------
(* The response                                                            *)

Response(server, request, srt) ==
  [data |-> srt, encrypted |-> request.encrypted,
   sealed |-> IF request.encrypted THEN server.key ELSE Nil]
===============================================================================
