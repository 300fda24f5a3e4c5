--------------------------- MODULE TranslationQueue ---------------------------
(***************************************************************************)
(* AsyncTranslationQueue of crates/mpv-stt-plugin/src/translate.rs: the    *)
(* plugin thread submits, cancels and fetches; the worker thread collects  *)
(* a batch, runs its translations as futures of one single-threaded        *)
(* runtime, and sends each answer.  Both threads share the channels, the   *)
(* generation counter and the shutdown flag.  A load, a store, a send and  *)
(* a receive are steps of their own but for two pairs: the worker's loads  *)
(* of flag and counter, one after the other, are one step, since the flag  *)
(* is stored once and after the last cancel, so that what the two loads    *)
(* find was true of both at one moment between them; and so are the store  *)
(* and the send of force_shutdown, since between them the worker can only  *)
(* miss a marker that the flag makes superfluous.                          *)
(*                                                                         *)
(* A definition named X_Something is a deliberately wrong form of the X    *)
(* that follows it; the wrong forms are not part of the specification.     *)
(***************************************************************************)
EXTENDS Integers, Sequences, FiniteSets

CONSTANTS
  Tasks,        \* the subtitles that may be submitted, by start time
  MaxGen,       \* bound on the number of cancels
  Concurrency,  \* translate.concurrency, at least 1
  Retries,      \* MAX_TRANSLATE_RETRIES
  Closings,     \* how the plugin may end: "force", "join", "drop"
  Stop          \* the None sent through the task channel

ASSUME SizesAssumption ==
  MaxGen \in Nat /\ Concurrency \in Nat \ {0} /\ Retries \in Nat
ASSUME TasksAssumption ==
  IsFiniteSet(Tasks) /\ Stop \notin [gen : Nat, task : Tasks]
ASSUME ClosingsAssumption == Closings \subseteq {"force", "join", "drop"}

VARIABLES
  main,        \* the plugin thread: "open", "joining", "joined", "forced",
               \* "dropped"
  generation, shutdownFlag, channel, results,
  pc,          \* the worker: "check", "recv", "load", "drain", "run",
               \* "sending", "exited"
  first,       \* the task the batch begins with
  batchGen,    \* current_generation, the batch's task_generation
  fut,         \* what became of each task of the batch
  from,        \* ghost: the generation under which it was submitted
  attempts,    \* how often its call has failed
  hand         \* the answer about to be sent

mainVars   == <<main, generation, shutdownFlag>>
batch      == <<first, batchGen, from>>
workerVars == <<pc, batch, fut, attempts, hand>>
vars == <<main, generation, shutdownFlag, channel, results,
          pc, first, batchGen, fut, from, attempts, hand>>

-----------------------------------------------------------------------------
Entry  == [gen : 0 .. MaxGen, task : Tasks]
Phases == {"idle", "waiting", "calling", "sleeping", "none", "ok"}

\* The futures buffer_unordered has taken from the stream.
Active == {t \in Tasks : fut[t] \notin {"idle", "waiting"}}
Idle   == [t \in Tasks |-> "idle"]

Cancelled == generation # batchGen

TypeOK ==
  /\ main \in {"open", "joining", "joined", "forced", "dropped"}
  /\ generation \in 0 .. MaxGen /\ shutdownFlag \in BOOLEAN
  /\ channel \in Seq(Entry \cup {Stop}) /\ results \subseteq Tasks
  /\ pc \in {"check", "recv", "load", "drain", "run", "sending", "exited"}
  /\ first \in Entry \cup {Stop} /\ batchGen \in 0 .. MaxGen
  /\ fut \in [Tasks -> Phases] /\ from \in [Tasks -> 0 .. MaxGen]
  /\ attempts \in [Tasks -> 0 .. Retries]
  /\ hand \subseteq Tasks

Init ==
  /\ main = "open" /\ generation = 0 /\ shutdownFlag = FALSE
  /\ channel = <<>> /\ results = {}
  /\ pc = "check" /\ first = Stop /\ batchGen = 0
  /\ fut = Idle /\ from = [t \in Tasks |-> 0]
  /\ attempts = [t \in Tasks |-> 0] /\ hand = {}

\* Everything of the current generation that is still to be answered.
LiveTasks ==
  {t \in Tasks :
     \/ \E i \in DOMAIN channel : channel[i] = [gen |-> generation, task |-> t]
     \/ pc = "load" /\ first = [gen |-> generation, task |-> t]
     \/ /\ ~Cancelled
        /\ fut[t] \notin {"idle", "none"} \/ t \in hand}

\* An answer of an earlier generation that has passed the last look at it.
LateTasks == IF Cancelled THEN hand ELSE {}

-----------------------------------------------------------------------------
(* The plugin thread                                                       *)

\* The plugin submits a task only when it is not pending already: after its
\* chunk was merged, or after the cancel of a seek.
Submit(t) ==
  /\ main = "open" /\ t \notin LiveTasks
  /\ channel' = Append(channel, [gen |-> generation, task |-> t])
  /\ UNCHANGED <<mainVars, results, workerVars>>

CancelInflight ==
  /\ main = "open" /\ generation < MaxGen
  /\ generation' = generation + 1
  /\ UNCHANGED <<main, shutdownFlag, channel, results, workerVars>>

TryRecvResults ==
  /\ main = "open" /\ results # {}
  /\ results' = {}
  /\ UNCHANGED <<mainVars, channel, workerVars>>

\* force_shutdown: the flag, then the marker; the thread is left to itself.
ForceShutdown_NoFlag ==
  /\ "force" \in Closings /\ main = "open"
  /\ main' = "forced" /\ channel' = Append(channel, Stop)
  /\ UNCHANGED <<generation, shutdownFlag, results, workerVars>>

ForceShutdown ==
  /\ "force" \in Closings /\ main = "open"
  /\ main' = "forced" /\ shutdownFlag' = TRUE
  /\ channel' = Append(channel, Stop)
  /\ UNCHANGED <<generation, results, workerVars>>

\* shutdown: the marker, then handle.join().
Shutdown ==
  /\ "join" \in Closings /\ main = "open"
  /\ main' = "joining" /\ channel' = Append(channel, Stop)
  /\ UNCHANGED <<generation, shutdownFlag, results, workerVars>>

Join ==
  /\ main = "joining" /\ pc = "exited"
  /\ main' = "joined"
  /\ UNCHANGED <<generation, shutdownFlag, channel, results, workerVars>>

\* Drop sends the marker unless the thread is detached, then both of the
\* plugin's channel ends are gone.
DropQueue ==
  /\ "drop" \in Closings /\ main \in {"open", "forced"}
  /\ main' = "dropped"
  /\ channel' = IF main = "open" THEN Append(channel, Stop) ELSE channel
  /\ UNCHANGED <<generation, shutdownFlag, results, workerVars>>

Plugin ==
  \/ \E t \in Tasks : Submit(t)
  \/ CancelInflight \/ TryRecvResults
  \/ ForceShutdown \/ Shutdown \/ Join \/ DropQueue

-----------------------------------------------------------------------------
(* worker_thread                                                           *)

CheckFlag ==
  /\ pc = "check"
  /\ pc' = IF shutdownFlag THEN "exited" ELSE "recv"
  /\ UNCHANGED <<mainVars, channel, results, batch, fut, attempts, hand>>

\* recv_timeout: a task, the marker, a timeout, or a channel left by its sender.
RecvTask ==
  /\ pc = "recv" /\ channel # <<>> /\ Head(channel) # Stop
  /\ first' = Head(channel) /\ channel' = Tail(channel) /\ pc' = "load"
  /\ UNCHANGED <<mainVars, results, batchGen, from, fut, attempts, hand>>

RecvStop ==
  /\ pc = "recv" /\ channel # <<>> /\ Head(channel) = Stop
  /\ channel' = Tail(channel) /\ pc' = "exited"
  /\ UNCHANGED <<mainVars, results, batch, fut, attempts, hand>>

RecvNothing_IgnoringHangup ==
  /\ pc = "recv" /\ channel = <<>> /\ pc' = "check"
  /\ UNCHANGED <<mainVars, channel, results, batch, fut, attempts, hand>>

RecvNothing ==
  /\ pc = "recv" /\ channel = <<>>
  /\ pc' = IF main = "dropped" THEN "exited" ELSE "check"
  /\ UNCHANGED <<mainVars, channel, results, batch, fut, attempts, hand>>

LoadGeneration ==
  /\ pc = "load"
  /\ batchGen' = generation
  /\ fut' = IF first.gen = generation
              THEN [Idle EXCEPT ![first.task] = "waiting"] ELSE Idle
  /\ from' = [t \in Tasks |-> first.gen]
  /\ attempts' = [t \in Tasks |-> 0]
  /\ first' = Stop /\ pc' = "drain"
  /\ UNCHANGED <<mainVars, channel, results, hand>>

\* One try_recv that returns a task: only those of the batch's generation stay.
DrainTask_Unfiltered ==
  /\ pc = "drain" /\ channel # <<>> /\ Head(channel) # Stop
  /\ fut' = [fut EXCEPT ![Head(channel).task] = "waiting"]
  /\ from' = [from EXCEPT ![Head(channel).task] = Head(channel).gen]
  /\ channel' = Tail(channel)
  /\ UNCHANGED <<mainVars, results, pc, first, batchGen, attempts, hand>>

DrainTask ==
  /\ pc = "drain" /\ channel # <<>> /\ Head(channel) # Stop
  /\ IF Head(channel).gen = batchGen
       THEN /\ fut' = [fut EXCEPT ![Head(channel).task] = "waiting"]
            /\ from' = [from EXCEPT ![Head(channel).task] = Head(channel).gen]
       ELSE UNCHANGED <<fut, from>>
  /\ channel' = Tail(channel)
  /\ UNCHANGED <<mainVars, results, pc, first, batchGen, attempts, hand>>

\* The try_recv that ends the loop: nothing there, or the marker, which is gone.
DrainEnds ==
  /\ pc = "drain"
  /\ \/ channel = <<>> /\ UNCHANGED channel
     \/ channel # <<>> /\ Head(channel) = Stop /\ channel' = Tail(channel)
  /\ pc' = IF fut = Idle THEN "check" ELSE "run"
  /\ UNCHANGED <<mainVars, results, batch, fut, attempts, hand>>

-----------------------------------------------------------------------------
(* process_builtin and translate_single_task_async                         *)

\* The top of the retry loop: both shared variables are looked at.
BeginCall(t) ==
  /\ pc = "run"
  /\ \/ fut[t] = "waiting" /\ Cardinality(Active) < Concurrency
     \/ fut[t] = "sleeping"
  /\ fut' = [fut EXCEPT ![t] =
               IF shutdownFlag \/ Cancelled THEN "none" ELSE "calling"]
  /\ UNCHANGED <<mainVars, channel, results, pc, batch, attempts, hand>>

CallSucceeds(t) ==
  /\ pc = "run" /\ fut[t] = "calling"
  /\ fut' = [fut EXCEPT ![t] = IF Cancelled THEN "none" ELSE "ok"]
  /\ UNCHANGED <<mainVars, channel, results, pc, batch, attempts, hand>>

\* An error or an empty translation.
CallFails_Forever(t) ==
  /\ pc = "run" /\ fut[t] = "calling"
  /\ fut' = [fut EXCEPT ![t] = "sleeping"]
  /\ UNCHANGED <<mainVars, channel, results, pc, batch, attempts, hand>>

CallFails_OneMore(t) ==
  /\ pc = "run" /\ fut[t] = "calling"
  /\ \/ /\ attempts[t] > Retries
        /\ fut' = [fut EXCEPT ![t] = "none"] /\ UNCHANGED attempts
     \/ /\ attempts[t] <= Retries
        /\ fut' = [fut EXCEPT ![t] = "sleeping"]
        /\ attempts' = [attempts EXCEPT ![t] = attempts[t] + 1]
  /\ UNCHANGED <<mainVars, channel, results, pc, batch, hand>>

CallFails(t) ==
  /\ pc = "run" /\ fut[t] = "calling"
  /\ \/ /\ attempts[t] = Retries
        /\ fut' = [fut EXCEPT ![t] = "none"] /\ UNCHANGED attempts
     \/ /\ attempts[t] < Retries
        /\ fut' = [fut EXCEPT ![t] = "sleeping"]
        /\ attempts' = [attempts EXCEPT ![t] = attempts[t] + 1]
  /\ UNCHANGED <<mainVars, channel, results, pc, batch, hand>>

\* futures.next() yields a finished future; a shutdown or a cancel ends the
\* batch here, and its other futures are dropped with it.
Yield_Unchecked(t) ==
  /\ pc = "run" /\ fut[t] \in {"none", "ok"}
  /\ IF shutdownFlag
       THEN fut' = Idle /\ pc' = "check" /\ UNCHANGED hand
       ELSE /\ fut' = [fut EXCEPT ![t] = "idle"]
            /\ pc' = IF fut[t] = "ok" THEN "sending" ELSE "run"
            /\ hand' = IF fut[t] = "ok" THEN {t} ELSE {}
  /\ UNCHANGED <<mainVars, channel, results, batch, attempts>>

Yield(t) ==
  /\ pc = "run" /\ fut[t] \in {"none", "ok"}
  /\ IF shutdownFlag \/ Cancelled
       THEN fut' = Idle /\ pc' = "check" /\ UNCHANGED hand
       ELSE /\ fut' = [fut EXCEPT ![t] = "idle"]
            /\ pc' = IF fut[t] = "ok" THEN "sending" ELSE "run"
            /\ hand' = IF fut[t] = "ok" THEN {t} ELSE {}
  /\ UNCHANGED <<mainVars, channel, results, batch, attempts>>

\* sender.send: fails once the receiver is dropped, which ends the batch.
Send ==
  /\ pc = "sending" /\ hand' = {}
  /\ IF main = "dropped"
       THEN fut' = Idle /\ pc' = "check" /\ UNCHANGED results
       ELSE results' = results \cup hand /\ pc' = "run" /\ UNCHANGED fut
  /\ UNCHANGED <<mainVars, channel, batch, attempts>>

BatchEnds ==
  /\ pc = "run" /\ fut = Idle
  /\ pc' = "check"
  /\ UNCHANGED <<mainVars, channel, results, batch, fut, attempts, hand>>

Worker ==
  \/ CheckFlag \/ RecvTask \/ RecvStop \/ RecvNothing
  \/ LoadGeneration \/ DrainTask \/ DrainEnds
  \/ \E t \in Tasks :
       BeginCall(t) \/ CallSucceeds(t) \/ CallFails(t) \/ Yield(t)
  \/ Send \/ BatchEnds

Next == Plugin \/ Worker
Spec == Init /\ [][Next]_vars

-----------------------------------------------------------------------------
(* Safety                                                                  *)

\* The queue keeps its promise to the plugin: after a cancel at most one
\* answer of the cancelled tasks arrives, and nothing is answered twice or
\* unasked (translate.rs 204-221, 256-287, 334-345).
Service == INSTANCE TranslationService WITH
  live    <- IF main = "open" THEN LiveTasks ELSE {},
  late    <- IF main = "open" THEN LateTasks ELSE {},
  answers <- IF main = "open" THEN results ELSE {},
  open    <- main = "open"
KeepsPromise == Service!Spec

\* Whatever the worker translates, and the answer in its hand, was submitted in
\* the generation it compares with the counter from then on: the plugin may
\* cancel and submit again between the load of the generation and the end of the
\* loop that collects the batch, and an entry of another generation that got in
\* would be sent as an answer of this one, after its cancel
\* (translate.rs 256-267 and 333-345).
BatchOfOneGeneration ==
  \A t \in Tasks : fut[t] # "idle" \/ t \in hand => from[t] = batchGen

\* A cancelled task does not come back to life: only a new submission makes a
\* task live, although old entries stay in the channel and the counter moves
\* while the worker collects (translate.rs 256-267).
CancelledStaysCancelled ==
  [][LiveTasks' \subseteq LiveTasks \/ \E t \in Tasks : Submit(t)]_vars

\* After force_shutdown no further answer is sent than the one that has passed
\* the worker's last look at the flag (translate.rs 334-336, 432-453).
ForcedIsQuiet ==
  [][main = "forced" /\ pc # "sending" => pc' # "sending"]_vars

-----------------------------------------------------------------------------
(* Liveness: both threads go on, and every call ends, since the translator  *)
(* has a timeout.                                                           *)

Fairness ==
  /\ WF_vars(CheckFlag) /\ WF_vars(RecvTask) /\ WF_vars(RecvStop)
  /\ WF_vars(RecvNothing) /\ WF_vars(LoadGeneration) /\ WF_vars(DrainTask)
  /\ WF_vars(DrainEnds) /\ WF_vars(Send) /\ WF_vars(BatchEnds) /\ WF_vars(Join)
  /\ \A t \in Tasks :
       /\ WF_vars(BeginCall(t)) /\ WF_vars(CallSucceeds(t) \/ CallFails(t))
       /\ WF_vars(Yield(t))

FairSpec == Spec /\ Fairness

\* What was submitted is settled in the end: answered, given up after its
\* retries, cancelled, or dropped because it is newer than the generation that
\* was loaded before it was collected (translate.rs 224-413).
TasksAreSettled ==
  \A t \in Tasks : main = "open" /\ t \in LiveTasks ~>
                     main # "open" \/ t \notin LiveTasks

\* The worker ends after force_shutdown and after a drop, although the marker
\* may be swallowed by the loop that collects a batch.  The same does not hold
\* of shutdown: it relies on the marker alone, and its join may never return
\* (translate.rs 263, 419-424).
WorkerEnds == main \in {"forced", "dropped"} ~> pc = "exited"
=============================================================================
