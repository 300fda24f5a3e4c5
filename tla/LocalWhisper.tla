----------------------------- MODULE LocalWhisper -----------------------------
(***************************************************************************)
(* LocalWhisperBackend of crates/mpv-stt-plugin/src/stt/local_whisper.rs:  *)
(* one transcription at a time, on the device the build was made for, or   *)
(* on the CPU once that device has failed.  The plugin has one of these,   *)
(* or else each worker of the server.                                      *)
(*                                                                         *)
(* Audio is a sequence of frames.  whisper.cpp, with its detection of the  *)
(* language, is external: it loads a context or fails, and a run fails or  *)
(* hears each spoken frame of the audio it is given, at its place.         *)
(* cancel_inflight is called by the thread that runs the transcription and *)
(* hence never during one, so that the abort callback never fires.         *)
(*                                                                         *)
(* A definition named X_Something is a deliberately wrong form of the X    *)
(* that follows it; the wrong forms are not part of the specification.     *)
(***************************************************************************)
EXTENDS Integers, Sequences

CONSTANTS
  Voiced,  \* the frames in which somebody speaks
  NoDevice

ASSUME WhisperAssumption == Voiced \subseteq Nat /\ NoDevice \notin {"cpu", "cuda"}

VARIABLES
  feature, \* FEATURE_DEVICE of the build, "cpu" or "cuda"; never changes
  model,   \* is a model path configured; never changes
  ctx,     \* the device of the loaded context, or NoDevice (ctx, active_device)
  notice,  \* pending_device_notice: the effective device, or NoDevice
  stt,     \* "idle", "called", "loaded", "heard", "error"
  audio,   \* the WAV file the transcription was called with
  limit,   \* duration_ms of the call, in frames
  heard,   \* the segments written to the .srt
  tried    \* auxiliary: what has failed in this call: devices, the "disk"

whisperVars ==
  <<feature, model, ctx, notice, stt, audio, limit, heard, tried>>

Devices == {"cpu", "cuda"}

WhisperInit ==
  /\ feature \in Devices /\ model \in BOOLEAN
  /\ ctx = NoDevice /\ notice = NoDevice /\ stt = "idle"
  /\ audio = <<>> /\ limit = 0 /\ heard = {} /\ tried = {}

\* transcribe, whose caller waits for it.
Transcribe(wav, duration) ==
  /\ stt' = "called" /\ audio' = wav /\ limit' = duration
  /\ heard' = {} /\ tried' = {}
  /\ UNCHANGED <<feature, model, ctx, notice>>

\* The caller has what the call has led to.
Return ==
  /\ stt' = "idle" /\ audio' = <<>> /\ limit' = 0 /\ heard' = {} /\ tried' = {}
  /\ UNCHANGED <<feature, model, ctx>>

-----------------------------------------------------------------------------
(* ensure_context                                                          *)

KeepContext ==
  /\ stt = "called" /\ ctx # NoDevice /\ stt' = "loaded"
  /\ UNCHANGED <<feature, model, ctx, notice, audio, limit, heard, tried>>

\* A context is loaded, and the user is to be told on which device.
NoticeOf_Feature(device) == feature

NoticeOf(device) == device

LoadContext ==
  /\ stt = "called" /\ ctx = NoDevice /\ model
  /\ stt' = "loaded" /\ ctx' = feature /\ notice' = NoticeOf(feature)
  /\ UNCHANGED <<feature, model, audio, limit, heard, tried>>

\* The build's device cannot be used: the CPU is, from now on.
FallBackToCpu ==
  /\ stt = "called" /\ ctx = NoDevice /\ model /\ feature = "cuda"
  /\ stt' = "loaded" /\ ctx' = "cpu" /\ notice' = NoticeOf("cpu")
  /\ tried' = {"cuda"}
  /\ UNCHANGED <<feature, model, audio, limit, heard>>

\* No context: no model is configured, or no device can load it.
NoContext ==
  /\ stt = "called" /\ ctx = NoDevice
  /\ stt' = "error" /\ tried' = IF model THEN {feature, "cpu"} ELSE {}
  /\ UNCHANGED <<feature, model, ctx, notice, audio, limit, heard>>

-----------------------------------------------------------------------------
(* load_audio_samples and run_inference                                    *)

\* The audio cannot be read, or is shorter than a millisecond, or what was heard
\* cannot be saved; none of this is repeated.
FileFails ==
  /\ stt = "loaded" /\ stt' = "error" /\ tried' = tried \cup {"disk"}
  /\ UNCHANGED <<feature, model, ctx, notice, audio, limit, heard>>

\* What a run hears: of the audio, no more than was asked for.
Clamp(wav, duration) == IF Len(wav) < duration THEN Len(wav) ELSE duration

Segments(wav, duration) ==
  {[at |-> i - 1, what |-> wav[i]] :
     i \in {j \in 1 .. Clamp(wav, duration) : wav[j] \in Voiced}}

InferenceEnds ==
  /\ stt = "loaded"
  /\ stt' = "heard" /\ heard' = Segments(audio, limit)
  /\ UNCHANGED <<feature, model, ctx, notice, audio, limit, tried>>

\* A run that fails on a GPU is repeated on the CPU with the same audio; the
\* context of the GPU is given up first, so that without one for the CPU there
\* is none at all.
RetryOnCpu ==
  /\ stt = "loaded" /\ ctx = "cuda"
  /\ \/ /\ ctx' = "cpu" /\ notice' = NoticeOf("cpu")
        /\ tried' = tried \cup {"cuda"} /\ UNCHANGED stt
     \/ /\ ctx' = NoDevice /\ stt' = "error"
        /\ tried' = tried \cup {"cuda", "cpu"} /\ UNCHANGED notice
  /\ UNCHANGED <<feature, model, audio, limit, heard>>

\* On the CPU it is not repeated, and the context is kept.
FailsAtOnce_AnyDevice == ctx # NoDevice

FailsAtOnce == ctx = "cpu"

InferenceFails ==
  /\ stt = "loaded" /\ FailsAtOnce
  /\ stt' = "error"
  /\ tried' = tried \cup {ctx}
  /\ UNCHANGED <<feature, model, ctx, notice, audio, limit, heard>>

WhisperStep ==
  \/ KeepContext \/ LoadContext \/ FallBackToCpu \/ NoContext
  \/ FileFails \/ InferenceEnds \/ RetryOnCpu \/ InferenceFails

-----------------------------------------------------------------------------
(* What must hold                                                          *)

WhisperTypeOK ==
  /\ feature \in Devices /\ model \in BOOLEAN
  /\ ctx \in Devices \cup {NoDevice} /\ notice \in Devices \cup {NoDevice}
  /\ stt \in {"idle", "called", "loaded", "heard", "error"}
  /\ limit \in Nat /\ tried \subseteq Devices \cup {"disk"}

\* A transcription that ends in an error has failed on the CPU or at the disk,
\* whatever the build's device is, unless no model is configured: a GPU that
\* cannot be used does not stop the plugin (local_whisper.rs 178-191, 328-351).
ErrorMeansCpuFailed ==
  stt = "error" => tried \cap {"cpu", "disk"} # {} \/ ~model

\* A context on the CPU is the last one: it is neither given up nor replaced by
\* one on the device that has failed (local_whisper.rs 170-172, 340-348).
CpuIsFinal == [][ctx = "cpu" => ctx' = "cpu"]_ctx
===============================================================================
