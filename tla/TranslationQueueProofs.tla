------------------------ MODULE TranslationQueueProofs ------------------------
(***************************************************************************)
(* The queue keeps its promise for any number of tasks, cancels, futures   *)
(* and retries: a task that is live is in one place only, in the channel,  *)
(* in the worker's hands as the beginning of a batch, or in the batch.     *)
(***************************************************************************)
EXTENDS TranslationQueue, TLAPS

USE DEF batch

-----------------------------------------------------------------------------
(* Channels                                                                *)

\* Taking the first of a sequence leaves the others in their order.
LEMMA TakeFirst ==
  ASSUME NEW S, NEW c \in Seq(S), c # <<>>
  PROVE  /\ Head(c) \in S /\ Tail(c) \in Seq(S)
         /\ 1 \in DOMAIN c /\ Head(c) = c[1]
         /\ \A i \in DOMAIN Tail(c) :
              i \in Nat /\ i + 1 \in DOMAIN c /\ i + 1 # 1 /\ Tail(c)[i] = c[i + 1]
         /\ \A i \in DOMAIN c :
              i # 1 => i - 1 \in DOMAIN Tail(c) /\ Tail(c)[i - 1] = c[i]
OBVIOUS

\* Appending leaves the others where they were.
LEMMA AppendLast ==
  ASSUME NEW S, NEW c \in Seq(S), NEW x \in S
  PROVE  /\ Append(c, x) \in Seq(S)
         /\ \A i \in DOMAIN c : i \in DOMAIN Append(c, x) /\ Append(c, x)[i] = c[i]
         /\ Len(c) + 1 \in DOMAIN Append(c, x) /\ Append(c, x)[Len(c) + 1] = x
         /\ \A i \in DOMAIN Append(c, x) : i \in DOMAIN c \/ i = Len(c) + 1
OBVIOUS

-----------------------------------------------------------------------------
(* The invariant                                                           *)

Live(t) == [gen |-> generation, task |-> t]

\* The three places.
Queued(t) == \E i \in DOMAIN channel : channel[i] = Live(t)
Taken(t)  == pc = "load" /\ first = Live(t)
Held(t)   == ~Cancelled /\ (fut[t] \notin {"idle", "none"} \/ t \in hand)

\* At most one entry of the channel is live for a task, and then nothing else is.
QueuedOnce ==
  \A t \in Tasks, i, j \in DOMAIN channel :
    channel[i] = Live(t) /\ channel[j] = Live(t) => i = j

OnePlace ==
  /\ QueuedOnce
  /\ \A t \in Tasks : Queued(t) => ~Taken(t) /\ ~Held(t)

\* The worker's hand, the batch's first task, and the flag.
Handling ==
  /\ pc = "sending" => \E t \in Tasks : hand = {t} /\ fut[t] = "idle"
  /\ pc # "sending" => hand = {}
  /\ pc = "load" => first # Stop /\ first.gen <= generation
  /\ pc \in {"recv", "check", "load", "exited"} => fut = Idle
  /\ shutdownFlag => main \in {"forced", "dropped"}
  /\ main = "forced" => shutdownFlag

\* No generation is newer than the counter.
Generations ==
  /\ batchGen <= generation
  /\ \A i \in DOMAIN channel : channel[i] # Stop => channel[i].gen <= generation

QueueInv == TypeOK /\ Handling /\ Generations /\ OnePlace /\ BatchOfOneGeneration

\* What is not the marker is a task.
LEMMA EntryFacts ==
  ASSUME NEW e \in Entry \cup {Stop}
  PROVE  /\ e # Stop => e \in Entry /\ e.gen \in 0 .. MaxGen /\ e.gen \in Nat
                        /\ e.task \in Tasks /\ e = [gen |-> e.gen, task |-> e.task]
         /\ e = Stop => \A g \in Nat, t \in Tasks : e # [gen |-> g, task |-> t]
BY SizesAssumption, TasksAssumption DEF Entry

LEMMA LiveFacts ==
  ASSUME TypeOK
  PROVE  /\ generation \in Nat /\ batchGen \in Nat
         /\ \A t \in Tasks : Live(t) # Stop /\ Live(t) \in Entry
         /\ \A t \in Tasks : t \in LiveTasks <=> Queued(t) \/ Taken(t) \/ Held(t)
<1>1. generation \in Nat /\ batchGen \in Nat /\ generation \in 0 .. MaxGen
  BY SizesAssumption DEF TypeOK
<1>2. \A t \in Tasks : Live(t) # Stop /\ Live(t) \in Entry
  BY <1>1, TasksAssumption DEF Live, Entry
<1>3. \A t \in Tasks : t \in LiveTasks <=> Queued(t) \/ Taken(t) \/ Held(t)
  BY DEF LiveTasks, Queued, Taken, Held, Live
<1> QED
  BY <1>1, <1>2, <1>3

\* The first of the channel is taken out of it.
LEMMA Received ==
  ASSUME QueueInv, channel # <<>>, channel' = Tail(channel), generation' = generation
  PROVE  /\ Head(channel) \in Entry \cup {Stop}
         /\ Head(channel) # Stop => Head(channel).gen <= generation
         /\ channel' \in Seq(Entry \cup {Stop})
         /\ \A i \in DOMAIN channel' :
              channel'[i] # Stop => channel'[i].gen <= generation'
         /\ QueuedOnce'
         /\ \A t \in Tasks : Queued(t) <=> Head(channel) = Live(t) \/ Queued(t)'
         /\ \A t \in Tasks : Head(channel) = Live(t) => ~Queued(t)'
<1> DEFINE c == channel  d == channel'
<1>1. /\ Head(c) \in Entry \cup {Stop} /\ d \in Seq(Entry \cup {Stop})
      /\ 1 \in DOMAIN c /\ Head(c) = c[1]
      /\ \A i \in DOMAIN d :
           i \in Nat /\ i + 1 \in DOMAIN c /\ i + 1 # 1 /\ d[i] = c[i + 1]
      /\ \A i \in DOMAIN c : i # 1 => i - 1 \in DOMAIN d /\ d[i - 1] = c[i]
  BY TakeFirst DEF QueueInv, TypeOK
<1>2. \A t : Live(t)' = Live(t)
  BY DEF Live
<1>3. \A i \in DOMAIN c : c[i] # Stop => c[i].gen <= generation
  BY DEF QueueInv, Generations
<1>4. \A t \in Tasks, i, j \in DOMAIN c : c[i] = Live(t) /\ c[j] = Live(t) => i = j
  BY DEF QueueInv, OnePlace, QueuedOnce
<1>5. \A t : /\ Queued(t) <=> \E i \in DOMAIN c : c[i] = Live(t)
             /\ Queued(t)' <=> \E i \in DOMAIN d : d[i] = Live(t)
  BY <1>2 DEF Queued
<1> HIDE DEF c, d
<1>6. /\ Head(c) # Stop => Head(c).gen <= generation
      /\ \A i \in DOMAIN d : d[i] # Stop => d[i].gen <= generation
  BY <1>1, <1>3
<1>7. ASSUME NEW t \in Tasks, NEW i \in DOMAIN d, NEW j \in DOMAIN d,
             d[i] = Live(t), d[j] = Live(t)
      PROVE  i = j
  <2>1. i + 1 = j + 1 /\ i \in Nat /\ j \in Nat
    BY <1>1, <1>4, <1>7
  <2> QED
    BY <2>1
<1>8. ASSUME NEW t \in Tasks
      PROVE  /\ Queued(t) <=> Head(c) = Live(t) \/ Queued(t)'
             /\ Head(c) = Live(t) => ~Queued(t)'
  BY <1>1, <1>4, <1>5
<1> QED
  BY <1>1, <1>2, <1>6, <1>7, <1>8 DEF c, d, QueuedOnce

\* Something is put at the end of the channel.
LEMMA Sent ==
  ASSUME QueueInv, NEW e \in Entry \cup {Stop}, channel' = Append(channel, e),
         generation' = generation, e # Stop => e.gen <= generation
  PROVE  /\ channel' \in Seq(Entry \cup {Stop})
         /\ \A i \in DOMAIN channel' :
              channel'[i] # Stop => channel'[i].gen <= generation'
         /\ \A t \in Tasks : Queued(t)' <=> Queued(t) \/ e = Live(t)
         /\ (\A t \in Tasks : e = Live(t) => ~Queued(t)) => QueuedOnce'
<1> DEFINE c == channel  d == channel'
<1>1. /\ d \in Seq(Entry \cup {Stop})
      /\ \A i \in DOMAIN c : i \in DOMAIN d /\ d[i] = c[i]
      /\ Len(c) + 1 \in DOMAIN d /\ d[Len(c) + 1] = e
      /\ \A i \in DOMAIN d : i \in DOMAIN c \/ i = Len(c) + 1
  BY AppendLast DEF QueueInv, TypeOK
<1>2. \A t : Live(t)' = Live(t)
  BY DEF Live
<1>3. \A i \in DOMAIN c : c[i] # Stop => c[i].gen <= generation
  BY DEF QueueInv, Generations
<1>4. \A t \in Tasks, i, j \in DOMAIN c : c[i] = Live(t) /\ c[j] = Live(t) => i = j
  BY DEF QueueInv, OnePlace, QueuedOnce
<1>5. \A t : /\ Queued(t) <=> \E i \in DOMAIN c : c[i] = Live(t)
             /\ Queued(t)' <=> \E i \in DOMAIN d : d[i] = Live(t)
  BY <1>2 DEF Queued
<1> HIDE DEF c, d
<1>6. \A i \in DOMAIN d : d[i] # Stop => d[i].gen <= generation
  BY <1>1, <1>3
<1>7. \A t \in Tasks : Queued(t)' <=> Queued(t) \/ e = Live(t)
  BY <1>1, <1>5
<1>8. ASSUME \A t \in Tasks : e = Live(t) => ~Queued(t),
             NEW t \in Tasks, NEW i \in DOMAIN d, NEW j \in DOMAIN d,
             d[i] = Live(t), d[j] = Live(t)
      PROVE  i = j
  BY <1>1, <1>4, <1>5, <1>8
<1> QED
  BY <1>1, <1>2, <1>6, <1>7, <1>8 DEF c, d, QueuedOnce

-----------------------------------------------------------------------------
(* What the steps do to the parts                                          *)

\* Nothing is in the channel but what is submitted and the marker; a step puts
\* one thing in, or takes the first out, or neither.
LEMMA ChannelSteps ==
  ASSUME QueueInv, [Next]_vars
  PROVE  \/ UNCHANGED channel
         \/ \E t \in Tasks : Submit(t)
         \/ channel' = Append(channel, Stop) /\ UNCHANGED generation
         \/ channel # <<>> /\ channel' = Tail(channel) /\ UNCHANGED generation
BY DEF Next, Plugin, Worker, CancelInflight, TryRecvResults, ForceShutdown, Shutdown,
       Join, DropQueue, CheckFlag, RecvTask, RecvStop, RecvNothing, LoadGeneration,
       DrainTask, DrainEnds, BeginCall, CallSucceeds, CallFails, Yield, Send,
       BatchEnds, mainVars, vars

LEMMA IdleFacts ==
  Idle \in [Tasks -> Phases] /\ \A t \in Tasks : Idle[t] = "idle"
BY DEF Idle, Phases

LEMMA TypeStep == QueueInv /\ [Next]_vars => TypeOK'
<1> SUFFICES ASSUME QueueInv, [Next]_vars PROVE TypeOK'
  OBVIOUS
<1> USE DEF mainVars, workerVars
<1>1. TypeOK
  BY DEF QueueInv
<1>2. shutdownFlag' \in BOOLEAN
  <2>1. shutdownFlag' = shutdownFlag \/ shutdownFlag' = TRUE
    BY DEF Next, Plugin, Worker, Submit, CancelInflight, TryRecvResults, ForceShutdown,
           Shutdown, Join, DropQueue, CheckFlag, RecvTask, RecvStop, RecvNothing,
           LoadGeneration, DrainTask, DrainEnds, BeginCall, CallSucceeds, CallFails,
           Yield, Send, BatchEnds, vars
  <2> QED
    BY <1>1, <2>1, Zenon DEF TypeOK
<1>3. channel' \in Seq(Entry \cup {Stop})
  <2>1. CASE \E t \in Tasks : Submit(t)
    <3>1. PICK t \in Tasks : Submit(t)
      BY <2>1
    <3>2. Live(t) \in Entry
      BY <1>1, LiveFacts
    <3> QED
      BY <1>1, <3>1, <3>2, AppendLast DEF Submit, Live, TypeOK
  <2>2. CASE channel' = Append(channel, Stop)
    BY <1>1, <2>2, AppendLast DEF TypeOK
  <2>3. CASE channel # <<>> /\ channel' = Tail(channel)
    BY <1>1, <2>3, TakeFirst DEF TypeOK
  <2> QED
    BY <1>1, <2>1, <2>2, <2>3, ChannelSteps DEF TypeOK
<1>4. main' \in {"open", "joining", "joined", "forced", "dropped"}
  BY <1>1
     DEF TypeOK, Next, Plugin, Worker, Submit, CancelInflight, TryRecvResults,
         ForceShutdown, Shutdown, Join, DropQueue, CheckFlag, RecvTask, RecvStop,
         RecvNothing, LoadGeneration, DrainTask, DrainEnds, BeginCall,
         CallSucceeds, CallFails, Yield, Send, BatchEnds, vars
<1>5. generation' \in 0 .. MaxGen
  <2>1. \/ generation' = generation
        \/ generation < MaxGen /\ generation' = generation + 1
    BY DEF Next, Plugin, Worker, Submit, CancelInflight, TryRecvResults,
           ForceShutdown, Shutdown, Join, DropQueue, CheckFlag, RecvTask, RecvStop,
           RecvNothing, LoadGeneration, DrainTask, DrainEnds, BeginCall,
           CallSucceeds, CallFails, Yield, Send, BatchEnds, vars
  <2> QED
    BY <1>1, <2>1, SizesAssumption DEF TypeOK
<1>6. /\ pc' \in {"check", "recv", "load", "drain", "run", "sending", "exited"}
      /\ batchGen' \in 0 .. MaxGen
  BY <1>1
     DEF TypeOK, Next, Plugin, Worker, Submit, CancelInflight, TryRecvResults,
         ForceShutdown, Shutdown, Join, DropQueue, CheckFlag, RecvTask, RecvStop,
         RecvNothing, LoadGeneration, DrainTask, DrainEnds, BeginCall,
         CallSucceeds, CallFails, Yield, Send, BatchEnds, vars
<1>7. first' \in Entry \cup {Stop}
  <2>1. CASE RecvTask
    BY <1>1, <2>1, TakeFirst DEF RecvTask, TypeOK
  <2>2. CASE first' = first \/ first' = Stop
    BY <1>1, <2>2 DEF TypeOK
  <2> QED
    BY <2>1, <2>2
       DEF Next, Plugin, Worker, Submit, CancelInflight, TryRecvResults,
           ForceShutdown, Shutdown, Join, DropQueue, CheckFlag, RecvStop,
           RecvNothing, LoadGeneration, DrainTask, DrainEnds, BeginCall,
           CallSucceeds, CallFails, Yield, Send, BatchEnds, vars
<1>8. results' \subseteq Tasks /\ hand' \subseteq Tasks
  BY <1>1
     DEF TypeOK, Next, Plugin, Worker, Submit, CancelInflight, TryRecvResults,
         ForceShutdown, Shutdown, Join, DropQueue, CheckFlag, RecvTask, RecvStop,
         RecvNothing, LoadGeneration, DrainTask, DrainEnds, BeginCall,
         CallSucceeds, CallFails, Yield, Send, BatchEnds, vars
<1>9. fut' \in [Tasks -> Phases] /\ attempts' \in [Tasks -> 0 .. Retries]
  <2>1. CASE LoadGeneration
    <3>1. fut' = [Idle EXCEPT ![first.task] = "waiting"] \/ fut' = Idle
      BY <2>1 DEF LoadGeneration
    <3>2. fut' \in [Tasks -> Phases]
      BY <3>1, IdleFacts DEF Phases
    <3> QED
      BY <2>1, <3>2, SizesAssumption DEF LoadGeneration
  <2>2. CASE DrainTask
    <3>1. /\ fut' = fut \/ fut' = [fut EXCEPT ![Head(channel).task] = "waiting"]
          /\ attempts' = attempts
      BY <2>2 DEF DrainTask
    <3> QED
      BY <1>1, <3>1 DEF TypeOK, Phases
  <2>3. ASSUME NEW t \in Tasks,
               BeginCall(t) \/ CallSucceeds(t) \/ CallFails(t) \/ Yield(t)
        PROVE  fut' \in [Tasks -> Phases] /\ attempts' \in [Tasks -> 0 .. Retries]
    <3>1. /\ fut' = Idle \/ \E p \in Phases : fut' = [fut EXCEPT ![t] = p]
          /\ \/ attempts' = attempts
             \/ /\ attempts[t] < Retries
                /\ attempts' = [attempts EXCEPT ![t] = attempts[t] + 1]
      BY <2>3 DEF BeginCall, CallSucceeds, CallFails, Yield, Phases
    <3>2. fut' \in [Tasks -> Phases]
      BY <1>1, <3>1, IdleFacts DEF TypeOK
    <3>3. attempts' \in [Tasks -> 0 .. Retries]
      <4>1. attempts \in [Tasks -> 0 .. Retries] /\ attempts[t] \in 0 .. Retries
        BY <1>1 DEF TypeOK
      <4>2. attempts[t] < Retries => attempts[t] + 1 \in 0 .. Retries
        BY <4>1, SizesAssumption
      <4> QED
        BY <3>1, <4>1, <4>2
    <3> QED
      BY <3>2, <3>3
  <2>4. CASE Send
    BY <1>1, <2>4, IdleFacts DEF Send, TypeOK
  <2>5. CASE UNCHANGED <<fut, attempts>>
    BY <1>1, <2>5 DEF TypeOK
  <2> QED
    BY <2>1, <2>2, <2>3, <2>4, <2>5
       DEF Next, Plugin, Worker, Submit, CancelInflight, TryRecvResults,
           ForceShutdown, Shutdown, Join, DropQueue, CheckFlag, RecvTask, RecvStop,
           RecvNothing, DrainEnds, BatchEnds, vars
<1>10. from' \in [Tasks -> 0 .. MaxGen]
  <2>1. CASE LoadGeneration
    <3>1. first.gen \in 0 .. MaxGen
      BY <1>1, <2>1, EntryFacts DEF LoadGeneration, QueueInv, Handling, TypeOK
    <3> QED
      BY <2>1, <3>1 DEF LoadGeneration
  <2>2. CASE DrainTask
    <3>1. Head(channel) \in Entry
      BY <1>1, <2>2, TakeFirst DEF DrainTask, TypeOK
    <3>2. Head(channel).gen \in 0 .. MaxGen
      BY <3>1 DEF Entry
    <3>3. \/ from' = from
          \/ from' = [from EXCEPT ![Head(channel).task] = Head(channel).gen]
      BY <2>2 DEF DrainTask
    <3> QED
      BY <1>1, <3>2, <3>3 DEF TypeOK
  <2>3. CASE UNCHANGED from
    BY <1>1, <2>3 DEF TypeOK
  <2> QED
    BY <2>1, <2>2, <2>3
       DEF Next, Plugin, Worker, Submit, CancelInflight, TryRecvResults,
           ForceShutdown, Shutdown, Join, DropQueue, CheckFlag, RecvTask, RecvStop,
           RecvNothing, DrainEnds, BeginCall, CallSucceeds, CallFails, Yield, Send,
           BatchEnds, vars
<1> QED
  BY <1>2, <1>3, <1>4, <1>5, <1>6, <1>7, <1>8, <1>9, <1>10 DEF TypeOK

\* Only a cancel moves the counter, and a batch is of the generation it has read.
LEMMA GenerationSteps ==
  ASSUME [Next]_vars
  PROVE  /\ UNCHANGED generation \/ CancelInflight
         /\ \/ UNCHANGED batchGen
            \/ batchGen' = generation /\ UNCHANGED generation
BY DEF Next, Plugin, Worker, Submit, CancelInflight, TryRecvResults,
       ForceShutdown, Shutdown, Join, DropQueue, CheckFlag, RecvTask, RecvStop,
       RecvNothing, LoadGeneration, DrainTask, DrainEnds, BeginCall, CallSucceeds,
       CallFails, Yield, Send, BatchEnds, vars, mainVars, workerVars

LEMMA CounterGrows ==
  ASSUME TypeOK, [Next]_vars
  PROVE  /\ generation \in Nat /\ generation' \in Nat
         /\ generation' = generation \/ generation' = generation + 1
         /\ generation <= generation'
<1>1. generation \in Nat
  BY LiveFacts
<1>2. generation' = generation \/ generation' = generation + 1
  BY GenerationSteps DEF CancelInflight
<1> QED
  BY <1>1, <1>2

\* The flag, the counter and the worker's hands agree after every step.
LEMMA HandlingStep == QueueInv /\ [Next]_vars => Handling'
<1> SUFFICES ASSUME QueueInv, [Next]_vars PROVE Handling'
  OBVIOUS
<1> USE DEF mainVars, workerVars
<1>1. Handling /\ TypeOK
  BY DEF QueueInv
<1>2. CASE Plugin \/ UNCHANGED vars
  <2>1. UNCHANGED workerVars
    BY <1>2 DEF Plugin, Submit, CancelInflight, TryRecvResults, ForceShutdown,
                Shutdown, Join, DropQueue, vars
  <2>2. generation \in Nat /\ generation' \in Nat /\ generation <= generation'
    BY <1>1, CounterGrows
  <2>3. first \in Entry => first.gen \in Nat
    BY EntryFacts, SizesAssumption DEF Entry
  <2>4. /\ shutdownFlag' => main' \in {"forced", "dropped"}
        /\ main' = "forced" => shutdownFlag'
    <3>1. CASE UNCHANGED <<main, shutdownFlag>>
      BY <1>1, <3>1 DEF Handling
    <3>2. CASE ForceShutdown
      BY <3>2 DEF ForceShutdown
    <3>3. CASE Shutdown \/ Join
      BY <1>1, <3>3 DEF Shutdown, Join, Handling
    <3>4. CASE DropQueue
      BY <3>4 DEF DropQueue
    <3> QED
      BY <1>2, <3>1, <3>2, <3>3, <3>4
         DEF Plugin, Submit, CancelInflight, TryRecvResults, vars
  <2>5. pc' = "load" => first' # Stop /\ first'.gen <= generation'
    BY <1>1, <2>1, <2>2, <2>3 DEF Handling, TypeOK
  <2> QED
    BY <1>1, <2>1, <2>4, <2>5 DEF Handling
<1>3. CASE CheckFlag \/ RecvStop \/ RecvNothing
  BY <1>1, <1>3 DEF CheckFlag, RecvStop, RecvNothing, Handling
<1>4. CASE RecvTask
  <2>1. Head(channel) # Stop /\ Head(channel).gen <= generation
    BY <1>4, TakeFirst, Received DEF RecvTask
  <2> QED
    BY <1>1, <1>4, <2>1 DEF RecvTask, Handling
<1>5. CASE LoadGeneration \/ DrainTask \/ DrainEnds
  BY <1>1, <1>5 DEF LoadGeneration, DrainTask, DrainEnds, Handling
<1>6. CASE \E t \in Tasks : BeginCall(t) \/ CallSucceeds(t) \/ CallFails(t)
  BY <1>1, <1>6 DEF BeginCall, CallSucceeds, CallFails, Handling
<1>7. CASE \E t \in Tasks : Yield(t)
  BY <1>1, <1>7 DEF Yield, Handling, TypeOK
<1>8. CASE Send \/ BatchEnds
  BY <1>1, <1>8 DEF Send, BatchEnds, Handling
<1> QED
  BY <1>2, <1>3, <1>4, <1>5, <1>6, <1>7, <1>8 DEF Next, Worker

\* A new generation is newer than all that has been submitted.
LEMMA GenerationsStep == QueueInv /\ [Next]_vars => Generations'
<1> SUFFICES ASSUME QueueInv, [Next]_vars PROVE Generations'
  OBVIOUS
<1>1. Generations /\ TypeOK /\ generation \in Nat /\ batchGen \in Nat
  BY LiveFacts DEF QueueInv
<1>2. batchGen' <= generation' /\ (generation' = generation \/ generation' = generation + 1)
  BY <1>1, GenerationSteps, CounterGrows DEF Generations
<1>3. \A i \in DOMAIN channel' : channel'[i] # Stop => channel'[i].gen <= generation'
  <2>1. CASE UNCHANGED channel
    <3>1. \A i \in DOMAIN channel : channel[i] # Stop => channel[i].gen \in Nat
      BY <1>1, EntryFacts DEF TypeOK
    <3> QED
      BY <1>1, <1>2, <2>1, <3>1 DEF Generations
  <2>2. CASE \E t \in Tasks : Submit(t)
    <3>1. PICK t \in Tasks : Submit(t)
      BY <2>2
    <3>2. /\ Live(t) \in Entry /\ Live(t).gen <= generation
          /\ channel' = Append(channel, Live(t)) /\ generation' = generation
      BY <1>1, <3>1, LiveFacts DEF Submit, Live, mainVars
    <3> QED
      BY <3>2, Sent
  <2>3. CASE channel' = Append(channel, Stop) /\ UNCHANGED generation
    BY <2>3, Sent
  <2>4. CASE channel # <<>> /\ channel' = Tail(channel) /\ UNCHANGED generation
    BY <2>4, Received
  <2> QED
    BY <2>1, <2>2, <2>3, <2>4, ChannelSteps
<1> QED
  BY <1>2, <1>3 DEF Generations

\* Only what was submitted in the batch's generation gets into the batch, and
\* only from the batch into the hand.
LEMMA OneGenerationStep == QueueInv /\ [Next]_vars => BatchOfOneGeneration'
<1> SUFFICES ASSUME QueueInv, [Next]_vars PROVE BatchOfOneGeneration'
  OBVIOUS
<1>1. /\ fut \in [Tasks -> Phases] /\ from \in [Tasks -> 0 .. MaxGen]
      /\ \A t \in Tasks : fut[t] # "idle" \/ t \in hand => from[t] = batchGen
      /\ pc # "sending" => hand = {}
  BY DEF QueueInv, TypeOK, Handling, BatchOfOneGeneration
<1>2. ASSUME UNCHANGED <<from, batchGen>>,
             \A t \in Tasks : fut'[t] # "idle" \/ t \in hand' =>
                              fut[t] # "idle" \/ t \in hand
      PROVE  BatchOfOneGeneration'
  BY <1>1, <1>2 DEF BatchOfOneGeneration
<1>3. CASE LoadGeneration
  <2>1. /\ hand' = {} /\ batchGen' = generation
        /\ \A t \in Tasks : from'[t] = first.gen
        /\ fut' = IF first.gen = generation
                    THEN [Idle EXCEPT ![first.task] = "waiting"] ELSE Idle
    BY <1>1, <1>3 DEF LoadGeneration
  <2> QED
    BY <2>1, IdleFacts DEF BatchOfOneGeneration
<1>4. CASE DrainTask
  <2>1. hand' = {} /\ batchGen' = batchGen
    BY <1>1, <1>4 DEF DrainTask
  <2>2. CASE Head(channel).gen = batchGen
    <3>1. /\ fut' = [fut EXCEPT ![Head(channel).task] = "waiting"]
          /\ from' = [from EXCEPT ![Head(channel).task] = batchGen]
      BY <1>4, <2>2 DEF DrainTask
    <3> QED
      BY <1>1, <2>1, <3>1 DEF BatchOfOneGeneration
  <2>3. CASE Head(channel).gen # batchGen
    BY <1>2, <1>4, <2>1, <2>3 DEF DrainTask
  <2> QED
    BY <2>2, <2>3
<1>5. ASSUME NEW t \in Tasks,
             BeginCall(t) \/ CallSucceeds(t) \/ CallFails(t) \/ Yield(t)
      PROVE  BatchOfOneGeneration'
  <2>1. /\ UNCHANGED <<from, batchGen>> /\ fut[t] # "idle"
        /\ hand' \subseteq hand \cup {t}
    BY <1>5 DEF BeginCall, CallSucceeds, CallFails, Yield
  <2>2. fut' = Idle \/ \E p \in Phases : fut' = [fut EXCEPT ![t] = p]
    BY <1>5 DEF BeginCall, CallSucceeds, CallFails, Yield, Phases
  <2> QED
    BY <1>1, <1>2, <2>1, <2>2, IdleFacts
<1>6. CASE Send
  <2>1. fut' = fut \/ fut' = Idle
    BY <1>6 DEF Send
  <2> QED
    BY <1>2, <1>6, <2>1, IdleFacts DEF Send
<1>7. CASE UNCHANGED <<fut, from, batchGen, hand>>
  BY <1>2, <1>7
<1> QED
  BY <1>3, <1>4, <1>5, <1>6, <1>7
     DEF Next, Plugin, Worker, Submit, CancelInflight, TryRecvResults,
         ForceShutdown, Shutdown, Join, DropQueue, CheckFlag, RecvTask, RecvStop,
         RecvNothing, DrainEnds, BatchEnds, vars, workerVars

-----------------------------------------------------------------------------
(* Where the live tasks are after a step                                   *)

LEMMA LiveMembers ==
  /\ LiveTasks \subseteq Tasks
  /\ \A t \in Tasks : t \in LiveTasks <=> Queued(t) \/ Taken(t) \/ Held(t)
BY DEF LiveTasks, Queued, Taken, Held, Live

LEMMA LiveMembersNext ==
  /\ LiveTasks' \subseteq Tasks
  /\ \A t \in Tasks : t \in LiveTasks' <=> Queued(t)' \/ Taken(t)' \/ Held(t)'
BY DEF LiveTasks, Queued, Taken, Held, Live

\* A task may stay where it is, move on from the channel, or go.
LEMMA Fewer ==
  ASSUME QueueInv, QueuedOnce',
         \A t \in Tasks : Queued(t)' => Queued(t),
         \A t \in Tasks : Taken(t)' \/ Held(t)' =>
           Taken(t) \/ Held(t) \/ (Queued(t) /\ ~Queued(t)')
  PROVE  OnePlace' /\ LiveTasks' \subseteq LiveTasks
<1>1. OnePlace'
  BY DEF QueueInv, OnePlace
<1>2. LiveTasks' \subseteq LiveTasks
  BY LiveMembers, LiveMembersNext
<1> QED
  BY <1>1, <1>2

\* The channel and the counter are left alone.
LEMMA SameChannel ==
  ASSUME QueueInv, UNCHANGED <<channel, generation>>
  PROVE  /\ QueuedOnce'
         /\ \A t \in Tasks : (Queued(t)' <=> Queued(t)) /\ Live(t)' = Live(t)
BY DEF QueueInv, OnePlace, QueuedOnce, Queued, Live

\* What the plugin does apart from submitting and cancelling.
LEMMA PluginLive ==
  ASSUME QueueInv,
         TryRecvResults \/ ForceShutdown \/ Shutdown \/ Join \/ DropQueue
         \/ UNCHANGED vars
  PROVE  OnePlace' /\ LiveTasks' = LiveTasks /\ LateTasks' = LateTasks
<1>1. /\ UNCHANGED workerVars /\ UNCHANGED generation
      /\ UNCHANGED channel \/ channel' = Append(channel, Stop)
  BY DEF TryRecvResults, ForceShutdown, Shutdown, Join, DropQueue, vars, mainVars,
         workerVars
<1>2. /\ QueuedOnce' /\ \A t \in Tasks : Queued(t)' <=> Queued(t)
  <2>1. CASE UNCHANGED channel
    BY <1>1, <2>1, SameChannel
  <2>2. CASE channel' = Append(channel, Stop)
    <3>1. \A t \in Tasks : Stop # Live(t)
      BY LiveFacts DEF QueueInv
    <3> QED
      BY <1>1, <2>2, <3>1, Sent
  <2> QED
    BY <1>1, <2>1, <2>2
<1>3. \A t \in Tasks : (Taken(t)' <=> Taken(t)) /\ (Held(t)' <=> Held(t))
  BY <1>1 DEF Taken, Held, Live, Cancelled, workerVars
<1>4. OnePlace'
  BY <1>2, <1>3, Fewer
<1>5. LiveTasks' = LiveTasks
  BY <1>2, <1>3, LiveMembers, LiveMembersNext
<1>6. LateTasks' = LateTasks
  BY <1>1 DEF LateTasks, Cancelled, workerVars
<1> QED
  BY <1>4, <1>5, <1>6

LEMMA SubmitLive ==
  ASSUME QueueInv, NEW t \in Tasks, Submit(t)
  PROVE  OnePlace' /\ LiveTasks' = LiveTasks \cup {t} /\ LateTasks' = LateTasks
<1>1. /\ UNCHANGED <<workerVars, generation>> /\ ~Queued(t) /\ ~Taken(t) /\ ~Held(t)
      /\ channel' = Append(channel, Live(t)) /\ Live(t) \in Entry
      /\ Live(t).gen <= generation
  BY LiveFacts DEF QueueInv, Submit, mainVars, Live
<1>2. \A s \in Tasks : Live(s) = Live(t) => s = t
  BY DEF Live
<1>3. QueuedOnce' /\ \A s \in Tasks : Queued(s)' <=> Queued(s) \/ s = t
  BY <1>1, <1>2, Sent
<1>4. \A s \in Tasks : (Taken(s)' <=> Taken(s)) /\ (Held(s)' <=> Held(s))
  BY <1>1 DEF Taken, Held, Live, Cancelled, workerVars
<1>5. OnePlace'
  BY <1>1, <1>3, <1>4 DEF QueueInv, OnePlace
<1>6. LiveTasks' = LiveTasks \cup {t}
  BY <1>3, <1>4, LiveMembers, LiveMembersNext
<1>7. LateTasks' = LateTasks
  BY <1>1 DEF LateTasks, Cancelled, workerVars
<1> QED
  BY <1>5, <1>6, <1>7

\* Nothing in the queue is of the new generation.
LEMMA CancelLive ==
  ASSUME QueueInv, CancelInflight
  PROVE  /\ OnePlace' /\ LiveTasks' = {} /\ LateTasks' = hand
         /\ hand \subseteq LiveTasks \cup LateTasks
<1>1. /\ UNCHANGED workerVars /\ UNCHANGED channel
      /\ generation' = generation + 1 /\ generation \in Nat /\ batchGen \in Nat
  BY LiveFacts DEF QueueInv, CancelInflight
<1>2. \A t \in Tasks, i \in DOMAIN channel : channel[i] # Live(t)'
  <2>1. \A t : Live(t)' = [gen |-> generation + 1, task |-> t]
    BY <1>1 DEF Live
  <2>2. \A t \in Tasks : Live(t)' # Stop /\ Live(t)'.gen = generation + 1
    BY <1>1, <2>1, TasksAssumption
  <2>3. \A i \in DOMAIN channel : channel[i] # Stop => channel[i].gen <= generation
    BY DEF QueueInv, Generations
  <2> QED
    BY <1>1, <2>2, <2>3
<1>3. \A t \in Tasks : ~Queued(t)' /\ ~Taken(t)' /\ ~Held(t)'
  <2>1. batchGen <= generation
    BY DEF QueueInv, Generations
  <2>2. Cancelled'
    BY <1>1, <2>1 DEF Cancelled, workerVars
  <2>3. \A t \in Tasks : ~Taken(t)'
    BY <1>1 DEF Taken, Live, QueueInv, Handling, workerVars
  <2> QED
    BY <1>1, <1>2, <2>2, <2>3 DEF Queued, Held
<1>4. OnePlace' /\ LiveTasks' = {}
  BY <1>1, <1>2, <1>3, LiveMembersNext DEF OnePlace, QueuedOnce
<1>5. LateTasks' = hand
  <2>1. Cancelled'
    BY <1>1 DEF QueueInv, Generations, Cancelled, workerVars
  <2> QED
    BY <1>1, <2>1 DEF LateTasks, workerVars
<1>6. hand \subseteq LiveTasks \cup LateTasks
  BY DEF LiveTasks, LateTasks, QueueInv, TypeOK
<1> QED
  BY <1>4, <1>5, <1>6

\* What the plugin sees of a step of the worker: nothing; a task is given up; or
\* an answer, of a live task or of one that was cancelled late.
Settles ==
  \/ LiveTasks' = LiveTasks /\ LateTasks' = LateTasks /\ UNCHANGED results
  \/ \E t \in LiveTasks : /\ LiveTasks' = LiveTasks \ {t}
                          /\ LateTasks' = LateTasks /\ UNCHANGED results
  \/ \E t \in Tasks :
       /\ results' = results \cup {t}
       /\ \/ /\ t \in LiveTasks /\ LiveTasks' = LiveTasks \ {t}
             /\ LateTasks' = LateTasks
          \/ /\ t \in LateTasks /\ LateTasks' = LateTasks \ {t}
             /\ LiveTasks' = LiveTasks

WorkerFacts ==
  OnePlace' /\ LiveTasks' \subseteq LiveTasks /\ (main = "open" => Settles)

\* The three places hold the same tasks as before, or the same but one.
LEMMA NothingSeen ==
  ASSUME QueueInv, QueuedOnce', \A t \in Tasks : Queued(t)' => Queued(t),
         \A t \in Tasks : Queued(t) /\ ~Queued(t)' => Taken(t)' \/ Held(t)',
         \A t \in Tasks : Taken(t)' \/ Held(t)' <=>
           Taken(t) \/ Held(t) \/ (Queued(t) /\ ~Queued(t)'),
         UNCHANGED results, LateTasks' = LateTasks
  PROVE  WorkerFacts
<1>1. OnePlace' /\ LiveTasks' \subseteq LiveTasks
  BY Fewer
<1>2. LiveTasks' = LiveTasks
  BY LiveMembers, LiveMembersNext
<1> QED
  BY <1>1, <1>2 DEF WorkerFacts, Settles

\* The worker moves between its points with an empty hand and no task at all.
LEMMA PointsLive ==
  ASSUME QueueInv, CheckFlag \/ RecvStop \/ RecvNothing \/ DrainEnds \/ BatchEnds
  PROVE  WorkerFacts
<1>1. /\ UNCHANGED <<generation, results, batchGen, fut, hand>>
      /\ pc # "load" /\ pc' # "load"
      /\ \/ UNCHANGED channel
         \/ channel # <<>> /\ Head(channel) = Stop /\ channel' = Tail(channel)
  BY DEF CheckFlag, RecvStop, RecvNothing, DrainEnds, BatchEnds, mainVars
<1>2. QueuedOnce' /\ \A t \in Tasks : Queued(t)' <=> Queued(t)
  <2>1. \A t \in Tasks : Stop # Live(t)
    BY LiveFacts DEF QueueInv
  <2> QED
    BY <1>1, <2>1, SameChannel, Received
<1>3. \A t \in Tasks : ~Taken(t) /\ ~Taken(t)' /\ (Held(t)' <=> Held(t))
  BY <1>1 DEF Taken, Held, Cancelled
<1>4. LateTasks' = LateTasks
  BY <1>1 DEF LateTasks, Cancelled
<1> QED
  BY <1>1, <1>2, <1>3, <1>4, NothingSeen

LEMMA RecvTaskLive ==
  ASSUME QueueInv, RecvTask
  PROVE  WorkerFacts
<1>1. /\ UNCHANGED <<generation, results, batchGen, fut, hand>>
      /\ pc = "recv" /\ pc' = "load" /\ first' = Head(channel)
      /\ channel # <<>> /\ channel' = Tail(channel)
  BY DEF RecvTask, mainVars
<1>2. /\ QueuedOnce'
      /\ \A t \in Tasks : Queued(t) <=> Head(channel) = Live(t) \/ Queued(t)'
      /\ \A t \in Tasks : Head(channel) = Live(t) => ~Queued(t)'
  BY <1>1, Received
<1>3. \A t \in Tasks : ~Taken(t) /\ (Taken(t)' <=> Head(channel) = Live(t))
  BY <1>1 DEF Taken, Live
<1>4. \A t \in Tasks : Held(t)' <=> Held(t)
  BY <1>1 DEF Held, Cancelled
<1>5. LateTasks' = LateTasks
  BY <1>1 DEF LateTasks, Cancelled
<1> QED
  BY <1>1, <1>2, <1>3, <1>4, <1>5, NothingSeen

LEMMA LoadLive ==
  ASSUME QueueInv, LoadGeneration
  PROVE  WorkerFacts
<1>1. /\ UNCHANGED <<generation, results, channel, hand>>
      /\ pc = "load" /\ pc' # "load" /\ batchGen' = generation
      /\ fut' = IF first.gen = generation
                  THEN [Idle EXCEPT ![first.task] = "waiting"] ELSE Idle
  BY DEF LoadGeneration, mainVars
<1>2. fut = Idle /\ hand = {} /\ first \in Entry \cup {Stop} /\ first # Stop
  BY <1>1 DEF QueueInv, Handling, TypeOK
<1>3. first.task \in Tasks /\ first = [gen |-> first.gen, task |-> first.task]
  BY <1>2, EntryFacts
<1>4. QueuedOnce' /\ \A t \in Tasks : Queued(t)' <=> Queued(t)
  BY <1>1, SameChannel
<1>5. ASSUME NEW t \in Tasks
      PROVE  ~Held(t) /\ ~Taken(t)' /\ (Held(t)' <=> Taken(t))
  <2>1. ~Held(t)
    BY <1>2, IdleFacts DEF Held
  <2>2. ~Taken(t)'
    BY <1>1 DEF Taken
  <2>3. Taken(t) <=> first.gen = generation /\ t = first.task
    BY <1>1, <1>3 DEF Taken, Live
  <2>4. Held(t)' <=> fut'[t] \notin {"idle", "none"}
    BY <1>1, <1>2 DEF Held, Cancelled
  <2>5. fut'[t] = IF first.gen = generation /\ t = first.task
                    THEN "waiting" ELSE "idle"
    BY <1>1, <1>3, IdleFacts
  <2> QED
    BY <2>1, <2>2, <2>3, <2>4, <2>5
<1>6. LateTasks' = LateTasks
  BY <1>1, <1>2 DEF LateTasks
<1> QED
  BY <1>1, <1>4, <1>5, <1>6, NothingSeen

\* A task of the batch's generation joins the batch; another one is dropped.
LEMMA DrainLive ==
  ASSUME QueueInv, DrainTask
  PROVE  WorkerFacts
<1> DEFINE h == Head(channel)
<1>1. /\ UNCHANGED <<generation, results, batchGen, hand>>
      /\ pc = "drain" /\ pc' = "drain"
      /\ channel # <<>> /\ channel' = Tail(channel) /\ h # Stop
      /\ fut' = IF h.gen = batchGen THEN [fut EXCEPT ![h.task] = "waiting"] ELSE fut
  BY DEF DrainTask, mainVars
<1>2. /\ QueuedOnce'
      /\ \A t \in Tasks : Queued(t) <=> h = Live(t) \/ Queued(t)'
      /\ \A t \in Tasks : h = Live(t) => ~Queued(t)'
      /\ h \in Entry \cup {Stop}
  BY <1>1, Received
<1>3. h.task \in Tasks /\ h = [gen |-> h.gen, task |-> h.task]
  BY <1>1, <1>2, EntryFacts
<1>4. \A t \in Tasks : h = Live(t) <=> h.gen = generation /\ t = h.task
  BY <1>3 DEF Live
<1>5. hand = {} /\ fut \in [Tasks -> Phases]
  BY <1>1 DEF QueueInv, Handling, TypeOK
<1>6. \A t \in Tasks : ~Taken(t) /\ ~Taken(t)'
  BY <1>1 DEF Taken
<1>7. LateTasks' = LateTasks
  BY <1>1, <1>5 DEF LateTasks
<1> HIDE DEF h
<1>8. CASE h.gen = batchGen /\ batchGen = generation
  <2>1. \A t \in Tasks : Held(t)' <=> Held(t) \/ h = Live(t)
    BY <1>1, <1>3, <1>4, <1>5, <1>8 DEF Held, Cancelled
  <2> QED
    BY <1>1, <1>2, <1>6, <1>7, <2>1, NothingSeen
<1>9. CASE h.gen # generation
  <2>1. \A t \in Tasks : Held(t)' <=> Held(t)
    BY <1>1, <1>5, <1>9 DEF Held, Cancelled
  <2> QED
    BY <1>1, <1>2, <1>4, <1>6, <1>7, <1>9, <2>1, NothingSeen
<1>10. CASE h.gen = generation /\ h.gen # batchGen
  <2>1. \A t \in Tasks : ~Held(t) /\ ~Held(t)'
    BY <1>1, <1>10 DEF Held, Cancelled
  <2>2. OnePlace' /\ LiveTasks' \subseteq LiveTasks
    BY <1>2, <1>6, <2>1, Fewer
  <2>3. h.task \in LiveTasks /\ LiveTasks' = LiveTasks \ {h.task}
    BY <1>2, <1>3, <1>4, <1>6, <1>10, <2>1, LiveMembers, LiveMembersNext
  <2> QED
    BY <1>1, <1>7, <2>2, <2>3 DEF WorkerFacts, Settles
<1> QED
  BY <1>8, <1>9, <1>10

\* A step of a future changes where the batch holds tasks, and nothing else.
LEMMA FutureLive ==
  ASSUME QueueInv, pc = "run", pc' # "load",
         UNCHANGED <<generation, results, channel, batchGen>>,
         LateTasks' = LateTasks,
         \A t \in Tasks : Held(t)' => Held(t)
  PROVE  /\ OnePlace' /\ LiveTasks' \subseteq LiveTasks
         /\ (\A t \in Tasks : Held(t) => Held(t)') => WorkerFacts
         /\ \A s \in Tasks :
              Held(s) /\ ~Held(s)' /\ (\A t \in Tasks \ {s} : Held(t) => Held(t)')
                => WorkerFacts
<1>1. QueuedOnce' /\ \A t \in Tasks : Queued(t)' <=> Queued(t)
  BY SameChannel
<1>2. \A t \in Tasks : ~Taken(t) /\ ~Taken(t)'
  BY DEF Taken
<1>3. OnePlace' /\ LiveTasks' \subseteq LiveTasks
  BY <1>1, <1>2, Fewer
<1>4. (\A t \in Tasks : Held(t) => Held(t)') => WorkerFacts
  BY <1>1, <1>2, NothingSeen
<1>5. ASSUME NEW s \in Tasks, Held(s), ~Held(s)',
             \A t \in Tasks \ {s} : Held(t) => Held(t)'
      PROVE  WorkerFacts
  <2>1. ~Queued(s)
    BY <1>5 DEF QueueInv, OnePlace
  <2>2. s \in LiveTasks /\ LiveTasks' = LiveTasks \ {s}
    BY <1>1, <1>2, <1>5, <2>1, LiveMembers, LiveMembersNext
  <2> QED
    BY <1>3, <2>2 DEF WorkerFacts, Settles
<1> QED
  BY <1>3, <1>4, <1>5

\* Where there is no batch any more, nothing is held.
LEMMA DroppedBatch ==
  ASSUME hand' = {}, fut' = Idle
  PROVE  LateTasks' = {} /\ \A t \in Tasks : ~Held(t)'
BY IdleFacts DEF LateTasks, Held

LEMMA CallLive ==
  ASSUME QueueInv, NEW t \in Tasks, BeginCall(t) \/ CallSucceeds(t) \/ CallFails(t)
  PROVE  WorkerFacts
<1>1. /\ UNCHANGED <<main, generation, results, channel, batchGen, hand>>
      /\ pc = "run" /\ pc' = "run"
  BY DEF BeginCall, CallSucceeds, CallFails, mainVars
<1>2. hand = {} /\ fut \in [Tasks -> Phases]
  BY <1>1 DEF QueueInv, Handling, TypeOK
<1>3. LateTasks' = LateTasks /\ (Cancelled' <=> Cancelled)
  BY <1>1 DEF LateTasks, Cancelled
<1>4. \A s \in Tasks : /\ Held(s) <=> ~Cancelled /\ fut[s] \notin {"idle", "none"}
                       /\ Held(s)' <=> ~Cancelled /\ fut'[s] \notin {"idle", "none"}
  BY <1>1, <1>2, <1>3 DEF Held
<1>5. /\ fut[t] \in {"waiting", "sleeping", "calling"}
      /\ \E p \in Phases : fut' = [fut EXCEPT ![t] = p]
  BY DEF BeginCall, CallSucceeds, CallFails, Phases
<1>6. \A s \in Tasks \ {t} : fut'[s] = fut[s]
  BY <1>2, <1>5
<1>7. \A s \in Tasks : Held(s)' => Held(s)
  BY <1>4, <1>5, <1>6
<1>8. CASE Held(t) => Held(t)'
  BY <1>1, <1>3, <1>4, <1>6, <1>7, <1>8, FutureLive
<1>9. CASE Held(t) /\ ~Held(t)'
  BY <1>1, <1>3, <1>4, <1>6, <1>7, <1>9, FutureLive
<1> QED
  BY <1>8, <1>9

LEMMA YieldLive ==
  ASSUME QueueInv, NEW t \in Tasks, Yield(t)
  PROVE  WorkerFacts
<1>1. /\ UNCHANGED <<main, generation, results, channel, batchGen>>
      /\ pc = "run" /\ pc' # "load" /\ fut[t] \in {"none", "ok"}
  BY DEF Yield, mainVars
<1>2. hand = {} /\ fut \in [Tasks -> Phases]
  BY <1>1 DEF QueueInv, Handling, TypeOK
<1>3. Cancelled' <=> Cancelled
  BY <1>1 DEF Cancelled
<1>4. CASE shutdownFlag \/ Cancelled
  <2>1. hand' = {} /\ fut' = Idle
    BY <1>2, <1>4 DEF Yield
  <2>2. LateTasks' = LateTasks /\ \A s \in Tasks : ~Held(s)'
    BY <1>2, <2>1, DroppedBatch DEF LateTasks
  <2>3. CASE Cancelled
    <3>1. \A s \in Tasks : ~Held(s)
      BY <2>3 DEF Held
    <3> QED
      BY <1>1, <2>2, <3>1, FutureLive
  <2>4. CASE shutdownFlag
    <3>1. main # "open"
      BY <2>4 DEF QueueInv, Handling
    <3> QED
      BY <1>1, <2>2, <3>1, FutureLive DEF WorkerFacts
  <2> QED
    BY <1>4, <2>3, <2>4
<1>5. CASE ~(shutdownFlag \/ Cancelled)
  <2>1. /\ fut' = [fut EXCEPT ![t] = "idle"]
        /\ hand' = IF fut[t] = "ok" THEN {t} ELSE {}
    BY <1>5 DEF Yield
  <2>2. LateTasks' = LateTasks
    BY <1>3, <1>5 DEF LateTasks
  <2>3. \A s \in Tasks : Held(s)' <=> Held(s)
    BY <1>1, <1>2, <1>3, <1>5, <2>1 DEF Held
  <2> QED
    BY <1>1, <2>2, <2>3, FutureLive
<1> QED
  BY <1>4, <1>5

LEMMA SendLive ==
  ASSUME QueueInv, Send
  PROVE  WorkerFacts
<1>1. /\ UNCHANGED <<main, generation, channel, batchGen>>
      /\ pc = "sending" /\ pc' # "load" /\ hand' = {}
  BY DEF Send, mainVars
<1>2. PICK t \in Tasks : hand = {t} /\ fut[t] = "idle"
  BY <1>1 DEF QueueInv, Handling
<1>3. Cancelled' <=> Cancelled
  BY <1>1 DEF Cancelled
<1>4. QueuedOnce' /\ \A s \in Tasks : Queued(s)' <=> Queued(s)
  BY <1>1, SameChannel
<1>5. \A s \in Tasks : ~Taken(s) /\ ~Taken(s)'
  BY <1>1 DEF Taken
<1>6. CASE main = "dropped"
  <2>1. \A s \in Tasks : ~Held(s)'
    BY <1>1, <1>6, DroppedBatch DEF Send
  <2> QED
    BY <1>4, <1>5, <1>6, <2>1, Fewer DEF WorkerFacts
<1>7. CASE main # "dropped"
  <2>1. results' = results \cup {t} /\ fut' = fut
    BY <1>2, <1>7 DEF Send
  <2>2. \A s \in Tasks : Held(s)' <=> Held(s) /\ s # t
    BY <1>1, <1>2, <1>3, <2>1 DEF Held
  <2>3. OnePlace' /\ LiveTasks' \subseteq LiveTasks
    BY <1>4, <1>5, <2>2, Fewer
  <2>4. CASE Cancelled
    <3>1. t \in LateTasks /\ LateTasks' = LateTasks \ {t}
      BY <1>1, <1>2, <1>3, <2>4 DEF LateTasks
    <3>2. \A s \in Tasks : ~Held(s)
      BY <2>4 DEF Held
    <3>3. LiveTasks' = LiveTasks
      BY <1>4, <1>5, <2>2, <3>2, LiveMembers, LiveMembersNext
    <3> QED
      BY <2>1, <2>3, <3>1, <3>3 DEF WorkerFacts, Settles
  <2>5. CASE ~Cancelled
    <3>1. LateTasks' = LateTasks
      BY <1>3, <2>5 DEF LateTasks
    <3>2. Held(t)
      BY <1>2, <2>5 DEF Held
    <3>3. ~Queued(t)
      BY <3>2 DEF QueueInv, OnePlace
    <3>4. t \in LiveTasks /\ LiveTasks' = LiveTasks \ {t}
      BY <1>4, <1>5, <2>2, <3>2, <3>3, LiveMembers, LiveMembersNext
    <3> QED
      BY <2>1, <2>3, <3>1, <3>4 DEF WorkerFacts, Settles
  <2> QED
    BY <2>4, <2>5
<1> QED
  BY <1>6, <1>7

LEMMA WorkerLive ==
  ASSUME QueueInv, Worker
  PROVE  WorkerFacts
BY PointsLive, RecvTaskLive, LoadLive, DrainLive, CallLive, YieldLive, SendLive
   DEF Worker

-----------------------------------------------------------------------------
(* The theorems                                                            *)

LEMMA OnePlaceStep == QueueInv /\ [Next]_vars => OnePlace'
BY PluginLive, SubmitLive, CancelLive, WorkerLive DEF WorkerFacts, Next, Plugin

LEMMA QueueInit == Init => QueueInv
<1> SUFFICES ASSUME Init PROVE QueueInv
  OBVIOUS
<1>1. TypeOK
  <2>1. shutdownFlag \in BOOLEAN
    BY DEF Init
  <2>2. channel \in Seq(Entry \cup {Stop})
    BY DEF Init
  <2>3. /\ fut \in [Tasks -> Phases] /\ attempts \in [Tasks -> 0 .. Retries]
        /\ from \in [Tasks -> 0 .. MaxGen]
    BY IdleFacts, SizesAssumption DEF Init
  <2>4. /\ main = "open" /\ pc = "check" /\ first = Stop /\ hand = {} /\ results = {}
        /\ generation \in 0 .. MaxGen /\ batchGen \in 0 .. MaxGen
    BY SizesAssumption DEF Init
  <2> QED
    BY <2>1, <2>2, <2>3, <2>4 DEF TypeOK
<1>2. Handling /\ Generations
  BY SizesAssumption DEF Init, Handling, Generations
<1>3. OnePlace
  BY DEF Init, OnePlace, QueuedOnce, Queued
<1>4. BatchOfOneGeneration
  BY IdleFacts DEF Init, BatchOfOneGeneration
<1> QED
  BY <1>1, <1>2, <1>3, <1>4 DEF QueueInv

LEMMA QueueCorrect == Spec => []QueueInv
<1>1. QueueInv /\ [Next]_vars => QueueInv'
  BY TypeStep, HandlingStep, GenerationsStep, OnePlaceStep, OneGenerationStep
     DEF QueueInv
<1> QED
  BY <1>1, QueueInit, PTL DEF Spec

\* Every variable keeps its type; no call is repeated more than
\* MAX_TRANSLATE_RETRIES times (translate.rs 290-413).
THEOREM QueueTypesHold == Spec => []TypeOK
<1>1. QueueInv => TypeOK
  BY DEF QueueInv
<1> QED
  BY <1>1, QueueCorrect, PTL

\* Whatever the worker translates or is about to send was submitted in the
\* generation of the batch, however cancels and submissions fall between the load
\* of the counter and the end of the collecting loop (translate.rs 256-267,
\* 333-345).
THEOREM BatchesAreOfOneGeneration == Spec => []BatchOfOneGeneration
<1>1. QueueInv => BatchOfOneGeneration
  BY DEF QueueInv
<1> QED
  BY <1>1, QueueCorrect, PTL

\* Only a new submission makes a task live (translate.rs 256-267).
THEOREM CancelsAreFinal == Spec => CancelledStaysCancelled
<1>1. QueueInv /\ [Next]_vars =>
        [LiveTasks' \subseteq LiveTasks \/ \E t \in Tasks : Submit(t)]_vars
  BY PluginLive, CancelLive, WorkerLive DEF WorkerFacts, Next, Plugin
<1> QED
  BY <1>1, QueueCorrect, PTL DEF Spec, CancelledStaysCancelled

\* force_shutdown lets at most the answer through that is being sent
\* (translate.rs 334-336, 432-453).
THEOREM ForceShutdownIsQuiet == Spec => ForcedIsQuiet
<1>1. QueueInv /\ [Next]_vars =>
        [main = "forced" /\ pc # "sending" => pc' # "sending"]_vars
  <2> SUFFICES ASSUME QueueInv, [Next]_vars, main = "forced", pc # "sending"
               PROVE  pc' # "sending"
    OBVIOUS
  <2>1. shutdownFlag
    BY DEF QueueInv, Handling
  <2> QED
    BY <2>1
       DEF Next, Plugin, Worker, Submit, CancelInflight, TryRecvResults,
           ForceShutdown, Shutdown, Join, DropQueue, CheckFlag, RecvTask, RecvStop,
           RecvNothing, LoadGeneration, DrainTask, DrainEnds, BeginCall,
           CallSucceeds, CallFails, Yield, Send, BatchEnds, vars, workerVars
<1> QED
  BY <1>1, QueueCorrect, PTL DEF Spec, ForcedIsQuiet

\* Every step of the two threads is one of the service, or is not seen.
LEMMA ServiceStep ==
  ASSUME QueueInv, [Next]_vars
  PROVE  [Service!Next]_(Service!vars)
<1>1. CASE main # "open"
  <2>1. main' # "open"
    BY <1>1 DEF Next, Plugin, Worker, Submit, CancelInflight, TryRecvResults,
                ForceShutdown, Shutdown, Join, DropQueue, CheckFlag, RecvTask,
                RecvStop, RecvNothing, LoadGeneration, DrainTask, DrainEnds,
                BeginCall, CallSucceeds, CallFails, Yield, Send, BatchEnds, vars,
                mainVars
  <2> QED
    BY <1>1, <2>1 DEF Service!vars
<1>2. CASE main = "open" /\ main' # "open"
  BY <1>2 DEF Service!Next, Service!Close
<1>3. CASE main = "open" /\ main' = "open"
  <2>1. ASSUME NEW t \in Tasks, Submit(t)
        PROVE  Service!Next
    <3>1. LiveTasks' = LiveTasks \cup {t} /\ LateTasks' = LateTasks
      BY <2>1, SubmitLive
    <3>2. results' = results
      BY <2>1 DEF Submit
    <3>3. Service!Submit(t)
      BY <1>3, <3>1, <3>2 DEF Service!Submit
    <3> QED
      BY <3>3 DEF Service!Next
  <2>2. CASE CancelInflight
    <3>1. /\ LiveTasks' = {} /\ LateTasks' = hand
          /\ hand \subseteq LiveTasks \cup LateTasks
      BY <2>2, CancelLive
    <3>2. hand = {} \/ \E t \in Tasks : hand = {t}
      BY DEF QueueInv, Handling
    <3>3. hand \in {{}} \cup {{t} : t \in LiveTasks \cup LateTasks}
      BY <3>1, <3>2
    <3>4. results' = results
      BY <2>2 DEF CancelInflight
    <3>5. Service!Cancel({})
      BY <1>3, <3>1, <3>3, <3>4 DEF Service!Cancel
    <3> QED
      BY <3>5 DEF Service!Next
  <2>3. CASE TryRecvResults
    <3>1. LiveTasks' = LiveTasks /\ LateTasks' = LateTasks
      BY <2>3, PluginLive
    <3>2. Service!Receive
      BY <1>3, <2>3, <3>1 DEF TryRecvResults, Service!Receive
    <3> QED
      BY <3>2 DEF Service!Next
  <2>4. CASE Worker
    <3>1. Settles
      BY <1>3, <2>4, WorkerLive DEF WorkerFacts
    <3>2. CASE LiveTasks' = LiveTasks /\ LateTasks' = LateTasks /\ UNCHANGED results
      BY <1>3, <3>2 DEF Service!vars
    <3>3. CASE \E t \in LiveTasks : /\ LiveTasks' = LiveTasks \ {t}
                                    /\ LateTasks' = LateTasks /\ UNCHANGED results
      <4>1. PICK t \in LiveTasks : /\ LiveTasks' = LiveTasks \ {t}
                                   /\ LateTasks' = LateTasks /\ UNCHANGED results
        BY <3>3
      <4>2. t \in Tasks /\ Service!GiveUp(t)
        BY <1>3, <4>1, LiveMembers DEF Service!GiveUp
      <4> QED
        BY <4>2 DEF Service!Next
    <3>4. ASSUME NEW t \in Tasks, results' = results \cup {t},
                 \/ /\ t \in LiveTasks /\ LiveTasks' = LiveTasks \ {t}
                    /\ LateTasks' = LateTasks
                 \/ /\ t \in LateTasks /\ LateTasks' = LateTasks \ {t}
                    /\ LiveTasks' = LiveTasks
          PROVE  Service!Next
      <4>1. Service!Answer(t)
        BY <1>3, <3>4 DEF Service!Answer
      <4> QED
        BY <4>1 DEF Service!Next
    <3> QED
      BY <3>1, <3>2, <3>3, <3>4 DEF Settles
  <2>5. CASE UNCHANGED vars
    <3>1. LiveTasks' = LiveTasks /\ LateTasks' = LateTasks
      BY <2>5, PluginLive
    <3> QED
      BY <1>3, <2>5, <3>1 DEF vars, Service!vars
  <2>6. CASE ForceShutdown \/ Shutdown \/ Join \/ DropQueue
    BY <1>3, <2>6 DEF ForceShutdown, Shutdown, Join, DropQueue
  <2> QED
    BY <2>1, <2>2, <2>3, <2>4, <2>5, <2>6 DEF Next, Plugin
<1> QED
  BY <1>1, <1>2, <1>3

\* The queue implements TranslationService: after a cancel at most one answer of
\* the cancelled tasks arrives, and nothing is answered twice or unasked
\* (translate.rs 204-221, 256-287, 334-345).
THEOREM PromiseIsKept == Spec => KeepsPromise
<1>1. Init => Service!Init
  <2> SUFFICES ASSUME Init PROVE Service!Init
    OBVIOUS
  <2>1. \A t \in Tasks : ~Queued(t) /\ ~Taken(t) /\ ~Held(t)
    BY IdleFacts DEF Init, Queued, Taken, Held
  <2>2. LiveTasks = {} /\ LateTasks = {}
    BY <2>1, LiveMembers DEF Init, LateTasks
  <2> QED
    BY <2>2 DEF Init, Service!Init
<1>2. QueueInv /\ [Next]_vars => [Service!Next]_(Service!vars)
  BY ServiceStep
<1> QED
  BY <1>1, <1>2, QueueCorrect, PTL DEF Spec, KeepsPromise, Service!Spec
===============================================================================
