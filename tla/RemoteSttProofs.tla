---------------------------- MODULE RemoteSttProofs ----------------------------
(***************************************************************************)
(* Results are handed out once, and a chunk's subtitles come from its own  *)
(* audio, for any number of clients, chunks, attempts and workers, and     *)
(* whatever fails: whoever reads the stream takes what it reads out of it. *)
(* The lock never stays with a handler that is gone, and one patient       *)
(* client loses no result it waits for.                                    *)
(***************************************************************************)
EXTENDS RemoteStt, SequenceTheorems, TLAPS

-----------------------------------------------------------------------------
(* The invariant                                                           *)

Types ==
  /\ jobs \in Seq(Requests) /\ stream \in Seq(Server!Result)
  /\ busy \in [Workers -> Requests \cup {Nil}]
  /\ answer \in [Requests -> Server!Result \cup {Nil}]
  /\ handler \in [Requests -> {"absent"} \cup Server!InFlight \cup Server!Finished]

ClientTypes ==
  /\ client \in [Clients -> {"idle", "waiting", "backoff", "failed"}]
  /\ chunk \in [Clients -> 1 .. Chunks + 1]
  /\ attempt \in [Clients -> 1 .. MaxRetry]
  /\ \A c \in Clients : client[c] = "waiting" => chunk[c] <= Chunks

\* Where the audio or the result of a request may be.
InJobs(r)   == \E i \in DOMAIN jobs : jobs[i] = r
InBusy(r)   == \E w \in Workers : busy[w] = r
InStream(r) == \E i \in DOMAIN stream : stream[i].job = r
InAnswer(r) == \E q \in Requests : answer[q] # Nil /\ answer[q].job = r

\* A request is in one of these places at most, and there once.
Once ==
  /\ \A i, j \in DOMAIN jobs : jobs[i] = jobs[j] => i = j
  /\ \A v, w \in Workers : busy[v] = busy[w] /\ busy[v] # Nil => v = w
  /\ \A i, j \in DOMAIN stream : stream[i].job = stream[j].job => i = j
  /\ DeliveredOnce

Apart ==
  \A r \in Requests :
    /\ InJobs(r) => ~InBusy(r) /\ ~InStream(r) /\ ~InAnswer(r)
    /\ InBusy(r) => ~InStream(r) /\ ~InAnswer(r)
    /\ InStream(r) => ~InAnswer(r)

\* A request that has not arrived is nowhere.
Arrived ==
  \A r \in Requests :
    handler[r] = "absent" =>
      ~InJobs(r) /\ ~InBusy(r) /\ ~InStream(r) /\ ~InAnswer(r)

PlaceInv == Types /\ Once /\ Apart /\ Arrived

\* What a handler answers with belongs to its request id, and it answers once.
Answered ==
  /\ \A r \in Requests : handler[r] = "ok" =>
       /\ answer[r] # Nil /\ answer[r].ok
       /\ answer[r].job[1] = r[1] /\ answer[r].job[2] = r[2]
  /\ \A r \in Requests : answer[r] # Nil => handler[r] \in {"ok", "failed"}

-----------------------------------------------------------------------------
(* Sequences and requests                                                  *)

\* Taking the first of a sequence leaves the others in their order.
LEMMA TakeFirst ==
  ASSUME NEW S, NEW c \in Seq(S), c # <<>>
  PROVE  /\ Head(c) \in S /\ Tail(c) \in Seq(S)
         /\ 1 \in DOMAIN c /\ Head(c) = c[1]
         /\ \A i \in DOMAIN Tail(c) :
              i \in Nat /\ i + 1 \in DOMAIN c /\ i + 1 # 1 /\ Tail(c)[i] = c[i + 1]
         /\ \A i \in DOMAIN c :
              i # 1 => i - 1 \in DOMAIN Tail(c) /\ Tail(c)[i - 1] = c[i]
OBVIOUS

\* Appending leaves the others where they were.
LEMMA AppendLast ==
  ASSUME NEW S, NEW c \in Seq(S), NEW x \in S
  PROVE  /\ Append(c, x) \in Seq(S)
         /\ \A i \in DOMAIN c : i \in DOMAIN Append(c, x) /\ Append(c, x)[i] = c[i]
         /\ Len(c) + 1 \in DOMAIN Append(c, x) /\ Append(c, x)[Len(c) + 1] = x
         /\ \A i \in DOMAIN Append(c, x) : i \in DOMAIN c \/ i = Len(c) + 1
OBVIOUS

LEMMA RequestFacts ==
  ASSUME NEW r \in Requests
  PROVE  /\ r = <<r[1], r[2], r[3]>> /\ r[1] \in Clients /\ r[2] \in 1 .. Chunks
         /\ r[3] \in 1 .. MaxRetry /\ Id[r] = <<r[1], r[2]>> /\ r # Nil
<1>1. /\ r = <<r[1], r[2], r[3]>> /\ r[1] \in Clients /\ r[2] \in 1 .. Chunks
      /\ r[3] \in 1 .. MaxRetry
  BY DEF Requests
<1>2. Id[r] = <<r[1], r[2]>>
  BY DEF Id
<1> QED
  BY <1>1, <1>2, NilAssumption

LEMMA CurrentFacts ==
  ASSUME ClientTypes, NEW c \in Clients, chunk[c] <= Chunks
  PROVE  /\ Current(c) \in Requests /\ Current(c)[1] = c /\ Current(c)[2] = chunk[c]
BY SizesAssumption DEF ClientTypes, Current, Requests

-----------------------------------------------------------------------------
(* The steps of the server, one by one                                     *)

\* The places do not change, and no request un-arrives.
LEMMA PlacesStay ==
  ASSUME PlaceInv, Types', UNCHANGED <<jobs, busy, stream, answer>>,
         \A r \in Requests : handler'[r] = "absent" => handler[r] = "absent"
  PROVE  PlaceInv'
BY DEF PlaceInv, Once, DeliveredOnce, Apart, Arrived, InJobs, InBusy, InStream, InAnswer

LEMMA AcceptStep ==
  ASSUME PlaceInv, NEW r \in Requests, Server!Accept(r)
  PROVE  PlaceInv'
<1>1. /\ handler[r] = "absent" /\ handler' = [handler EXCEPT ![r] = "top"]
      /\ jobs' = Append(jobs, r) /\ UNCHANGED <<busy, stream, answer>>
  BY DEF Server!Accept
<1>2. /\ jobs' \in Seq(Requests)
      /\ \A i \in DOMAIN jobs : i \in DOMAIN jobs' /\ jobs'[i] = jobs[i]
      /\ Len(jobs) + 1 \in DOMAIN jobs' /\ jobs'[Len(jobs) + 1] = r
      /\ \A i \in DOMAIN jobs' : i \in DOMAIN jobs \/ i = Len(jobs) + 1
  BY <1>1, AppendLast DEF PlaceInv, Types
<1>3. ~InJobs(r) /\ ~InBusy(r) /\ ~InStream(r) /\ ~InAnswer(r)
  BY <1>1 DEF PlaceInv, Arrived
<1>4. Types'
  BY <1>1, <1>2 DEF PlaceInv, Types, Server!InFlight
<1>5. /\ \A q \in Requests : InJobs(q)' <=> InJobs(q) \/ q = r
      /\ \A q : (InBusy(q)' <=> InBusy(q)) /\ (InStream(q)' <=> InStream(q))
      /\ \A q : InAnswer(q)' <=> InAnswer(q)
  BY <1>1, <1>2 DEF InJobs, InBusy, InStream, InAnswer
<1>6. Once'
  <2>1. \A i, j \in DOMAIN jobs' : jobs'[i] = jobs'[j] => i = j
    BY <1>2, <1>3 DEF PlaceInv, Once, InJobs
  <2> QED
    BY <1>1, <2>1 DEF PlaceInv, Once, DeliveredOnce
<1>7. Apart'
  BY <1>3, <1>5 DEF PlaceInv, Apart
<1>8. \A q \in Requests : handler'[q] = "absent" => handler[q] = "absent" /\ q # r
  BY <1>1 DEF PlaceInv, Types
<1>9. Arrived'
  BY <1>5, <1>8 DEF PlaceInv, Arrived
<1> QED
  BY <1>4, <1>6, <1>7, <1>9 DEF PlaceInv

LEMMA TakeJobStep ==
  ASSUME PlaceInv, NEW w \in Workers, Server!TakeJob(w)
  PROVE  PlaceInv'
<1> DEFINE r == Head(jobs)
<1>1. /\ busy[w] = Nil /\ jobs # <<>> /\ jobs' = Tail(jobs)
      /\ busy' = [busy EXCEPT ![w] = r] /\ UNCHANGED <<handler, stream, answer>>
  BY DEF Server!TakeJob
<1>2. /\ r \in Requests /\ jobs' \in Seq(Requests)
      /\ 1 \in DOMAIN jobs /\ r = jobs[1]
      /\ \A i \in DOMAIN jobs' :
           i \in Nat /\ i + 1 \in DOMAIN jobs /\ i + 1 # 1 /\ jobs'[i] = jobs[i + 1]
      /\ \A i \in DOMAIN jobs :
           i # 1 => i - 1 \in DOMAIN jobs' /\ jobs'[i - 1] = jobs[i]
  BY <1>1, TakeFirst DEF PlaceInv, Types
<1> HIDE DEF r
<1>3. r # Nil /\ InJobs(r)
  BY <1>2, RequestFacts DEF InJobs
<1>4. ~InBusy(r) /\ ~InStream(r) /\ ~InAnswer(r)
  BY <1>2, <1>3 DEF PlaceInv, Apart
<1>5. Types'
  BY <1>1, <1>2 DEF PlaceInv, Types
<1>6. \A i, j \in DOMAIN jobs : jobs[i] = jobs[j] => i = j
  BY DEF PlaceInv, Once
<1>7. \A v \in Workers : busy'[v] = IF v = w THEN r ELSE busy[v]
  BY <1>1 DEF PlaceInv, Types
<1>8. ASSUME NEW q \in Requests
      PROVE  /\ InJobs(q)' <=> InJobs(q) /\ q # r
             /\ InBusy(q)' <=> InBusy(q) \/ q = r
             /\ InStream(q)' <=> InStream(q)
             /\ InAnswer(q)' <=> InAnswer(q)
  <2>1. InJobs(q)' <=> InJobs(q) /\ q # r
    BY <1>2, <1>6 DEF InJobs
  <2>2. InBusy(q)' <=> InBusy(q) \/ q = r
    BY <1>1, <1>7, RequestFacts DEF InBusy
  <2> QED
    BY <1>1, <2>1, <2>2 DEF InStream, InAnswer
<1>9. Once'
  <2>1. ASSUME NEW i \in DOMAIN jobs', NEW j \in DOMAIN jobs', jobs'[i] = jobs'[j]
        PROVE  i = j
    <3>1. i + 1 = j + 1 /\ i \in Nat /\ j \in Nat
      BY <1>2, <1>6, <2>1
    <3> QED
      BY <3>1
  <2>2. \A u, v \in Workers : busy'[u] = busy'[v] /\ busy'[u] # Nil => u = v
    BY <1>4, <1>7 DEF PlaceInv, Once, InBusy
  <2> QED
    BY <1>1, <2>1, <2>2 DEF PlaceInv, Once, DeliveredOnce
<1>10. Apart'
  BY <1>4, <1>8 DEF PlaceInv, Apart
<1>11. Arrived'
  BY <1>1, <1>3, <1>8 DEF PlaceInv, Arrived
<1> QED
  BY <1>5, <1>9, <1>10, <1>11 DEF PlaceInv

LEMMA SendResultStep ==
  ASSUME PlaceInv, NEW w \in Workers, Server!SendResult(w)
  PROVE  PlaceInv'
<1> DEFINE r == busy[w]
<1>1. PICK ok \in BOOLEAN :
        /\ stream' = Append(stream, [job |-> r, ok |-> ok])
        /\ r # Nil /\ busy' = [busy EXCEPT ![w] = Nil]
        /\ UNCHANGED <<handler, jobs, answer>>
  BY DEF Server!SendResult
<1> DEFINE e == [job |-> r, ok |-> ok]
<1>2. r \in Requests
  BY <1>1 DEF PlaceInv, Types
<1> HIDE DEF r
<1>3. e \in Server!Result /\ e.job = r
  BY <1>2 DEF Server!Result
<1>4. stream' = Append(stream, e)
  BY <1>1
<1> HIDE DEF e
<1>5. /\ stream' \in Seq(Server!Result)
      /\ \A i \in DOMAIN stream : i \in DOMAIN stream' /\ stream'[i] = stream[i]
      /\ Len(stream) + 1 \in DOMAIN stream' /\ stream'[Len(stream) + 1] = e
      /\ \A i \in DOMAIN stream' : i \in DOMAIN stream \/ i = Len(stream) + 1
  BY <1>3, <1>4, AppendLast DEF PlaceInv, Types
<1>6. InBusy(r) /\ ~InJobs(r) /\ ~InStream(r) /\ ~InAnswer(r)
  <2>1. InBusy(r)
    BY DEF InBusy, r
  <2> QED
    BY <1>2, <2>1 DEF PlaceInv, Apart
<1>7. Types'
  BY <1>1, <1>5 DEF PlaceInv, Types
<1>8. \A v \in Workers : busy'[v] = IF v = w THEN Nil ELSE busy[v]
  BY <1>1 DEF PlaceInv, Types
<1>9. \A v \in Workers : busy[v] = r => v = w
  BY <1>1 DEF PlaceInv, Once, r
<1>10. ASSUME NEW q \in Requests
       PROVE  /\ InBusy(q)' => InBusy(q) /\ q # r
              /\ InStream(q)' <=> InStream(q) \/ q = r
              /\ InJobs(q)' <=> InJobs(q)
              /\ InAnswer(q)' <=> InAnswer(q)
  <2>1. InBusy(q)' => InBusy(q) /\ q # r
    BY <1>8, <1>9, RequestFacts DEF InBusy
  <2>2. InStream(q)' <=> InStream(q) \/ q = r
    BY <1>3, <1>5 DEF InStream
  <2> QED
    BY <1>1, <2>1, <2>2 DEF InJobs, InAnswer
<1>11. Once'
  <2>1. \A i, j \in DOMAIN stream' : stream'[i].job = stream'[j].job => i = j
    BY <1>3, <1>5, <1>6 DEF PlaceInv, Once, InStream
  <2>2. \A u, v \in Workers : busy'[u] = busy'[v] /\ busy'[u] # Nil => u = v
    BY <1>8 DEF PlaceInv, Once
  <2> QED
    BY <1>1, <2>1, <2>2 DEF PlaceInv, Once, DeliveredOnce
<1>12. Apart'
  BY <1>6, <1>10 DEF PlaceInv, Apart
<1>13. Arrived'
  BY <1>1, <1>6, <1>10 DEF PlaceInv, Arrived
<1> QED
  BY <1>7, <1>11, <1>12, <1>13 DEF PlaceInv

\* Somebody reads a result, and takes it or drops it.
LEMMA ReadStep ==
  ASSUME PlaceInv, NEW r \in Requests, Server!TakeOwn(r) \/ Server!DropUnrelated(r)
  PROVE  PlaceInv'
<1> DEFINE e == Head(stream)
<1>1. /\ stream # <<>> /\ stream' = Tail(stream) /\ UNCHANGED <<busy, jobs>>
      /\ handler[r] = "locking"
      /\ \E p \in {"ok", "failed", "sleeping"} : handler' = [handler EXCEPT ![r] = p]
      /\ UNCHANGED answer \/ answer' = [answer EXCEPT ![r] = e]
  BY DEF Server!TakeOwn, Server!DropUnrelated, Server!Holds
<1>2. /\ e \in Server!Result /\ stream' \in Seq(Server!Result)
      /\ 1 \in DOMAIN stream /\ e = stream[1]
      /\ \A i \in DOMAIN stream' : /\ i \in Nat /\ i + 1 \in DOMAIN stream
                                   /\ i + 1 # 1 /\ stream'[i] = stream[i + 1]
      /\ \A i \in DOMAIN stream :
           i # 1 => i - 1 \in DOMAIN stream' /\ stream'[i - 1] = stream[i]
  BY <1>1, TakeFirst DEF PlaceInv, Types
<1> HIDE DEF e
<1>3. e.job \in Requests /\ InStream(e.job)
  BY <1>2 DEF Server!Result, InStream
<1>4. ~InJobs(e.job) /\ ~InBusy(e.job) /\ ~InAnswer(e.job)
  BY <1>3 DEF PlaceInv, Apart
<1>5. Types'
  BY <1>1, <1>2 DEF PlaceInv, Types, Server!InFlight, Server!Finished
<1>6. \A i, j \in DOMAIN stream : stream[i].job = stream[j].job => i = j
  BY DEF PlaceInv, Once
<1>7. \A q \in Requests : answer'[q] = answer[q] \/ (q = r /\ answer'[q] = e)
  BY <1>1 DEF PlaceInv, Types
<1>8. ASSUME NEW q \in Requests
      PROVE  /\ InStream(q)' => InStream(q) /\ q # e.job
             /\ InAnswer(q)' => InAnswer(q) \/ q = e.job
             /\ InJobs(q)' <=> InJobs(q)
             /\ InBusy(q)' <=> InBusy(q)
  <2>1. InStream(q)' => InStream(q) /\ q # e.job
    BY <1>2, <1>6 DEF InStream
  <2>2. InAnswer(q)' => InAnswer(q) \/ q = e.job
    BY <1>7 DEF InAnswer
  <2> QED
    BY <1>1, <2>1, <2>2 DEF InJobs, InBusy
<1>9. Once'
  <2>1. ASSUME NEW i \in DOMAIN stream', NEW j \in DOMAIN stream',
               stream'[i].job = stream'[j].job
        PROVE  i = j
    <3>1. i + 1 = j + 1 /\ i \in Nat /\ j \in Nat
      BY <1>2, <1>6, <2>1
    <3> QED
      BY <3>1
  <2>2. DeliveredOnce'
    BY <1>4, <1>7 DEF PlaceInv, Once, DeliveredOnce, InAnswer
  <2> QED
    BY <1>1, <2>1, <2>2 DEF PlaceInv, Once
<1>10. Apart'
  BY <1>4, <1>8 DEF PlaceInv, Apart
<1>11. \A q \in Requests : handler'[q] = "absent" => handler[q] = "absent"
  BY <1>1 DEF PlaceInv, Types
<1>12. Arrived'
  BY <1>3, <1>8, <1>11 DEF PlaceInv, Arrived
<1> QED
  BY <1>5, <1>9, <1>10, <1>12 DEF PlaceInv

-----------------------------------------------------------------------------
(* The steps together                                                      *)

\* A step that reads no result and moves no job.
Elsewhere(r) ==
  \/ Server!Reject(r) \/ Server!CheckDeadline(r) \/ Server!Wake(r)
  \/ Server!Expire(r) \/ Server!DropHandler(r)

LEMMA ElsewhereStep ==
  ASSUME PlaceInv, NEW r \in Requests, Elsewhere(r)
  PROVE  /\ PlaceInv' /\ UNCHANGED answer
         /\ \A q \in Requests : handler[q] \in {"ok", "failed"} <=>
                                handler'[q] \in {"ok", "failed"}
<1>1. /\ UNCHANGED <<jobs, busy, stream, answer>>
      /\ \/ UNCHANGED handler
         \/ /\ handler[r] \in {"absent", "top", "locking", "sleeping"}
            /\ \E p \in {"rejected", "timeout", "locking", "top", "gone"} :
                 handler' = [handler EXCEPT ![r] = p]
  BY DEF Elsewhere, Server!Reject, Server!CheckDeadline, Server!Wake, Server!Expire,
         Server!DropHandler, Server!InFlight
<1>2. handler \in [Requests -> {"absent"} \cup Server!InFlight \cup Server!Finished]
  BY DEF PlaceInv, Types
<1>3. /\ \A q \in Requests : handler'[q] = "absent" => handler[q] = "absent"
      /\ \A q \in Requests : handler[q] \in {"ok", "failed"} <=>
                             handler'[q] \in {"ok", "failed"}
      /\ handler' \in [Requests -> {"absent"} \cup Server!InFlight \cup Server!Finished]
  BY <1>1, <1>2 DEF Server!InFlight, Server!Finished
<1>4. Types'
  BY <1>1, <1>3 DEF PlaceInv, Types
<1> QED
  BY <1>1, <1>3, <1>4, PlacesStay

\* A client sends, and the server accepts or rejects.
LEMMA Kinds ==
  ASSUME ClientTypes, [Next]_vars
  PROVE  \/ UNCHANGED serverVars
         \/ \E r \in Requests : Server!Accept(r) \/ Elsewhere(r)
         \/ \E r \in Requests : Server!TakeOwn(r) \/ Server!DropUnrelated(r)
         \/ \E w \in Workers : Server!TakeJob(w) \/ Server!SendResult(w)
<1>1. ASSUME NEW c \in Clients, Client(c)
      PROVE  \/ UNCHANGED serverVars
             \/ \E r \in Requests : Server!Accept(r) \/ Server!Reject(r)
  <2>1. CASE Send(c)
    BY <2>1, CurrentFacts DEF Send
  <2> QED
    BY <1>1, <2>1 DEF Client, CannotSend, ReceiveOk, ReceiveError, GiveUp
<1>2. CASE \E c \in Clients : Client(c)
  BY <1>1, <1>2 DEF Elsewhere
<1>3. CASE \E r \in Requests :
             \/ Notice(r)
             \/ Server!Handle(r) /\ UNCHANGED clientVars
             \/ Server!Expire(r) /\ UNCHANGED clientVars
  BY <1>3 DEF Notice, Server!Handle, Elsewhere
<1>4. CASE \E w \in Workers : Server!Work(w) /\ UNCHANGED clientVars
  BY <1>4 DEF Server!Work
<1>5. CASE UNCHANGED vars
  BY <1>5 DEF vars, serverVars
<1> QED
  BY <1>2, <1>3, <1>4, <1>5 DEF Next

LEMMA PlaceStep == PlaceInv /\ ClientTypes /\ [Next]_vars => PlaceInv'
<1> SUFFICES ASSUME PlaceInv, ClientTypes, [Next]_vars PROVE PlaceInv'
  OBVIOUS
<1>1. CASE UNCHANGED serverVars
  <2>1. UNCHANGED <<handler, jobs, busy, stream, answer>>
    BY <1>1 DEF serverVars
  <2>2. Types'
    BY <2>1 DEF PlaceInv, Types
  <2> QED
    BY <2>1, <2>2, PlacesStay
<1> QED
  BY <1>1, Kinds, AcceptStep, ElsewhereStep, ReadStep, TakeJobStep, SendResultStep

\* An attempt that fails leaves the chunk, and ends or makes another attempt.
LEMMA FailFacts ==
  ASSUME ClientTypes, NEW c \in Clients, AttemptFails(c)
  PROVE  ClientTypes' /\ UNCHANGED chunk
<1>1. /\ chunk' = chunk
      /\ \E p \in {"backoff", "failed"} : client' = [client EXCEPT ![c] = p]
      /\ \/ UNCHANGED attempt
         \/ /\ attempt[c] < MaxRetry
            /\ attempt' = [attempt EXCEPT ![c] = attempt[c] + 1]
  BY DEF AttemptFails
<1>2. attempt' \in [Clients -> 1 .. MaxRetry]
  BY <1>1, SizesAssumption DEF ClientTypes
<1> QED
  BY <1>1, <1>2 DEF ClientTypes

LEMMA ClientStep == ClientTypes /\ [Next]_vars => ClientTypes'
<1> SUFFICES ASSUME ClientTypes, [Next]_vars PROVE ClientTypes'
  OBVIOUS
<1>1. ASSUME NEW c \in Clients, Send(c)
      PROVE  ClientTypes'
  BY <1>1 DEF Send, ClientTypes
<1>2. ASSUME NEW c \in Clients, ReceiveOk(c)
      PROVE  ClientTypes'
  <2>1. chunk[c] \in 1 .. Chunks /\ chunk' = [chunk EXCEPT ![c] = chunk[c] + 1]
    BY <1>2, SizesAssumption DEF ReceiveOk, ClientTypes
  <2>2. chunk' \in [Clients -> 1 .. Chunks + 1]
    BY <2>1, SizesAssumption DEF ClientTypes
  <2>3. /\ client' \in [Clients -> {"idle", "waiting", "backoff", "failed"}]
        /\ attempt' \in [Clients -> 1 .. MaxRetry]
        /\ \A d \in Clients : client'[d] = "waiting" => client[d] = "waiting" /\ d # c
    BY <1>2, SizesAssumption DEF ReceiveOk, ClientTypes
  <2>4. \A d \in Clients : client'[d] = "waiting" => chunk'[d] <= Chunks
    BY <2>1, <2>3 DEF ClientTypes
  <2> QED
    BY <2>2, <2>3, <2>4 DEF ClientTypes
<1>3. ASSUME NEW c \in Clients, CannotSend(c) \/ ReceiveError(c) \/ GiveUp(c)
      PROVE  ClientTypes'
  BY <1>3, FailFacts DEF CannotSend, ReceiveError, GiveUp
<1>4. CASE UNCHANGED clientVars
  BY <1>4 DEF clientVars, ClientTypes
<1> QED
  BY <1>1, <1>2, <1>3, <1>4 DEF Next, Client, Notice, vars, clientVars

\* A handler answers once, with a result of its request id.
LEMMA AnsweredStep ==
  PlaceInv /\ ClientTypes /\ Answered /\ [Next]_vars =>
    /\ Answered'
    /\ \A r \in Requests : answer[r] # Nil => answer'[r] = answer[r]
<1> SUFFICES ASSUME PlaceInv, ClientTypes, Answered, [Next]_vars
             PROVE  /\ Answered'
                    /\ \A r \in Requests : answer[r] # Nil => answer'[r] = answer[r]
  OBVIOUS
<1>1. /\ answer \in [Requests -> Server!Result \cup {Nil}]
      /\ handler \in [Requests -> {"absent"} \cup Server!InFlight \cup Server!Finished]
  BY DEF PlaceInv, Types
<1>2. CASE UNCHANGED <<handler, answer>>
  BY <1>2 DEF Answered
<1>3. ASSUME NEW r \in Requests, Server!Accept(r)
      PROVE  UNCHANGED answer /\ Answered'
  <2>1. handler[r] = "absent" /\ handler' = [handler EXCEPT ![r] = "top"]
        /\ UNCHANGED answer
    BY <1>3 DEF Server!Accept
  <2> QED
    BY <1>1, <2>1 DEF Answered
<1>4. ASSUME NEW r \in Requests, Elsewhere(r)
      PROVE  UNCHANGED answer /\ Answered'
  <2>1. UNCHANGED answer /\ \A q \in Requests : handler[q] \in {"ok", "failed"} <=>
                                                handler'[q] \in {"ok", "failed"}
    BY <1>4, ElsewhereStep
  <2>2. \A q \in Requests : handler'[q] = "ok" => handler[q] = "ok"
    BY <1>1, <1>4
       DEF Elsewhere, Server!Reject, Server!CheckDeadline, Server!Wake, Server!Expire,
           Server!DropHandler
  <2> QED
    BY <2>1, <2>2 DEF Answered
<1>5. ASSUME NEW r \in Requests, Server!DropUnrelated(r)
      PROVE  UNCHANGED answer /\ Answered'
  <2>1. handler[r] = "locking" /\ handler' = [handler EXCEPT ![r] = "sleeping"]
        /\ UNCHANGED answer
    BY <1>5 DEF Server!DropUnrelated, Server!Holds
  <2> QED
    BY <1>1, <2>1 DEF Answered
<1>6. ASSUME NEW r \in Requests, Server!TakeOwn(r)
      PROVE  /\ Answered'
             /\ \A q \in Requests : answer[q] # Nil => answer'[q] = answer[q]
  <2> DEFINE e == Head(stream)
  <2>1. /\ stream # <<>> /\ Id[e.job] = Id[r] /\ handler[r] = "locking"
        /\ handler' = [handler EXCEPT ![r] = IF e.ok THEN "ok" ELSE "failed"]
        /\ answer' = [answer EXCEPT ![r] = e]
    BY <1>6 DEF Server!TakeOwn, Server!Holds, Server!Matches
  <2>2. e \in Server!Result
    BY <2>1, TakeFirst DEF PlaceInv, Types
  <2> HIDE DEF e
  <2>3. e.job \in Requests /\ e # Nil
    BY <2>2, NilAssumption DEF Server!Result
  <2>4. e.job[1] = r[1] /\ e.job[2] = r[2]
    BY <2>1, <2>3, RequestFacts
  <2>5. answer[r] = Nil
    BY <2>1 DEF Answered
  <2>6. \A q \in Requests : /\ answer'[q] = IF q = r THEN e ELSE answer[q]
                            /\ q # r => handler'[q] = handler[q]
                            /\ handler'[r] = IF e.ok THEN "ok" ELSE "failed"
    BY <1>1, <2>1
  <2> QED
    BY <2>3, <2>4, <2>5, <2>6 DEF Answered
<1>7. CASE UNCHANGED serverVars
  BY <1>2, <1>7 DEF serverVars
<1>8. ASSUME NEW w \in Workers, Server!TakeJob(w) \/ Server!SendResult(w)
      PROVE  UNCHANGED <<handler, answer>>
  BY <1>8 DEF Server!TakeJob, Server!SendResult
<1> QED
  BY <1>2, <1>3, <1>4, <1>5, <1>6, <1>7, <1>8, Kinds

LEMMA InitFacts == Init => PlaceInv /\ ClientTypes /\ Answered /\ ChunksInOrder
<1> SUFFICES ASSUME Init PROVE PlaceInv /\ ClientTypes /\ Answered /\ ChunksInOrder
  OBVIOUS
<1>1. /\ handler = [r \in Requests |-> "absent"] /\ jobs = <<>> /\ stream = <<>>
      /\ busy = [w \in Workers |-> Nil] /\ answer = [r \in Requests |-> Nil]
  BY DEF Init, Server!Init
<1>2. Types
  BY <1>1 DEF Types
<1>3. \A r \in Requests : ~InJobs(r) /\ ~InBusy(r) /\ ~InStream(r) /\ ~InAnswer(r)
  BY <1>1, RequestFacts DEF InJobs, InBusy, InStream, InAnswer
<1>4. Once
  BY <1>1 DEF Once, DeliveredOnce
<1>5. ClientTypes
  BY SizesAssumption DEF Init, ClientTypes
<1>6. Answered
  BY <1>1 DEF Answered
<1>7. ChunksInOrder
  BY DEF Init, ChunksInOrder
<1> QED
  BY <1>2, <1>3, <1>4, <1>5, <1>6, <1>7 DEF PlaceInv, Apart, Arrived

-----------------------------------------------------------------------------
(* The theorems                                                            *)

LEMMA ServerCorrect == Spec => [](PlaceInv /\ ClientTypes /\ Answered)
BY InitFacts, PlaceStep, ClientStep, AnsweredStep, PTL DEF Spec

\* Every job yields one result, and nobody is handed one that somebody else has
\* been handed (server.rs 325-334, worker.rs 115-145).
THEOREM ResultsAreDeliveredOnce == Spec => []DeliveredOnce
<1>1. PlaceInv => DeliveredOnce
  BY DEF PlaceInv, Once
<1> QED
  BY <1>1, ServerCorrect, PTL

LEMMA OrderStep ==
  PlaceInv /\ ClientTypes /\ Answered /\ ChunksInOrder /\ [Next]_vars => ChunksInOrder'
<1> SUFFICES ASSUME PlaceInv, ClientTypes, Answered, ChunksInOrder, [Next]_vars,
                    NEW c \in Clients, NEW k \in 1 .. chunk'[c] - 1
             PROVE  \E a \in 1 .. MaxRetry :
                      LET got == answer'[<<c, k, a>>] IN
                      got # Nil /\ got.ok /\ got.job[1] = c /\ got.job[2] = k
  BY DEF ChunksInOrder
<1>1. \A r \in Requests : answer[r] # Nil => answer'[r] = answer[r]
  BY AnsweredStep
<1>2. chunk[c] \in 1 .. Chunks + 1 /\ attempt[c] \in 1 .. MaxRetry
  BY DEF ClientTypes
<1>3. CASE k \in 1 .. chunk[c] - 1
  <2>1. PICK a \in 1 .. MaxRetry :
          LET got == answer[<<c, k, a>>] IN
          got # Nil /\ got.ok /\ got.job[1] = c /\ got.job[2] = k
    BY <1>3 DEF ChunksInOrder
  <2>2. k \in 1 .. Chunks
    BY <1>2, <1>3, SizesAssumption
  <2>3. <<c, k, a>> \in Requests
    BY <2>2 DEF Requests
  <2> QED
    BY <1>1, <2>1, <2>3
<1>4. CASE k \notin 1 .. chunk[c] - 1
  <2>1. ReceiveOk(c) /\ k = chunk[c]
    <3>1. ASSUME NEW d \in Clients, ReceiveOk(d)
          PROVE  /\ d # c => chunk'[c] = chunk[c]
                 /\ d = c => chunk'[c] = chunk[c] + 1
      BY <3>1 DEF ReceiveOk, ClientTypes
    <3>2. ASSUME NEW d \in Clients,
                 Send(d) \/ CannotSend(d) \/ ReceiveError(d) \/ GiveUp(d)
          PROVE  chunk' = chunk
      BY <3>2 DEF Send, CannotSend, ReceiveError, GiveUp, AttemptFails
    <3>3. chunk' = chunk \/ \E d \in Clients : ReceiveOk(d)
      BY <3>2 DEF Next, Client, Notice, clientVars, vars
    <3>4. ReceiveOk(c) /\ chunk'[c] = chunk[c] + 1
      BY <1>4, <3>1, <3>3
    <3> QED
      BY <1>2, <1>4, <3>4, SizesAssumption
  <2>2. chunk[c] <= Chunks /\ handler[Current(c)] = "ok" /\ UNCHANGED answer
    BY <2>1 DEF ReceiveOk, ClientTypes, serverVars
  <2>3. Current(c) \in Requests /\ Current(c)[1] = c /\ Current(c)[2] = chunk[c]
    BY <2>2, CurrentFacts
  <2>4. /\ answer[Current(c)] # Nil /\ answer[Current(c)].ok
        /\ answer[Current(c)].job[1] = c /\ answer[Current(c)].job[2] = k
    BY <2>1, <2>2, <2>3 DEF Answered
  <2>5. Current(c) = <<c, k, attempt[c]>>
    BY <2>1 DEF Current
  <2> QED
    BY <1>2, <2>2, <2>4, <2>5
<1> QED
  BY <1>3, <1>4

\* A client goes on to the next chunk only with the subtitles of this one, made
\* from its audio (remote_http.rs 132-158, server.rs 326-338).
THEOREM ChunksComeInOrder == Spec => []ChunksInOrder
BY InitFacts, OrderStep, ServerCorrect, PTL DEF Spec

-----------------------------------------------------------------------------
(* The lock on the stream                                                  *)

\* The queue for the lock holds the handlers that ask for it, each once.
LockInv ==
  /\ expired \subseteq Requests /\ lockQueue \in Seq(Requests)
  /\ \A i, j \in DOMAIN lockQueue : lockQueue[i] = lockQueue[j] => i = j
  /\ \A r \in Requests :
       handler[r] = "locking" <=> \E i \in DOMAIN lockQueue : lockQueue[i] = r

\* Taking one element out of a sequence leaves the others in their order.
LEMMA TakeOut ==
  ASSUME NEW S, NEW c \in Seq(S), NEW i \in DOMAIN c
  PROVE  /\ Server!RemoveAt(c, i) \in Seq(S)
         /\ \A j \in DOMAIN Server!RemoveAt(c, i) :
              LET k == IF j < i THEN j ELSE j + 1 IN
              j \in Nat /\ k \in DOMAIN c /\ k # i /\ Server!RemoveAt(c, i)[j] = c[k]
         /\ \A k \in DOMAIN c : k # i =>
              \E j \in DOMAIN Server!RemoveAt(c, i) : Server!RemoveAt(c, i)[j] = c[k]
<1> DEFINE d == Server!RemoveAt(c, i)
<1>1. i \in 1 .. Len(c) /\ Len(c) \in Nat
  OBVIOUS
<1> DEFINE before == SubSeq(c, 1, i - 1)
           after  == SubSeq(c, i + 1, Len(c))
<1>2. /\ before \in Seq(S) /\ Len(before) = i - 1
      /\ \A j \in 1 .. i - 1 : before[j] = c[j]
  BY <1>1, SubSeqProperties
<1>3. /\ after \in Seq(S) /\ Len(after) = Len(c) - i
      /\ \A j \in 1 .. Len(c) - i : after[j] = c[i + j]
  <2>1. \A j \in i + 1 .. Len(c) : c[j] \in S
    BY <1>1
  <2>2. \A j \in 1 .. Len(c) - i : i + 1 + j - 1 = i + j
    BY <1>1
  <2> QED
    BY <1>1, <2>1, <2>2, SubSeqProperties
<1>4. d = before \o after
  BY DEF Server!RemoveAt
<1> HIDE DEF d, before, after
<1>5. /\ d \in Seq(S) /\ Len(d) = Len(c) - 1
      /\ \A j \in 1 .. Len(c) - 1 : d[j] = c[IF j < i THEN j ELSE j + 1]
  <2>1. /\ d \in Seq(S) /\ Len(d) = Len(before) + Len(after)
        /\ \A j \in 1 .. Len(before) + Len(after) :
             d[j] = IF j <= Len(before) THEN before[j] ELSE after[j - Len(before)]
    BY <1>2, <1>3, <1>4, ConcatProperties
  <2>2. Len(before) + Len(after) = Len(c) - 1
    BY <1>1, <1>2, <1>3
  <2>3. \A j \in 1 .. Len(c) - 1 :
          d[j] = IF j <= i - 1 THEN before[j] ELSE after[j - (i - 1)]
    BY <1>2, <2>1, <2>2
  <2>4. ASSUME NEW j \in 1 .. Len(c) - 1
        PROVE  d[j] = c[IF j < i THEN j ELSE j + 1]
    <3>1. CASE j < i
      <4>1. j <= i - 1 /\ j \in 1 .. i - 1
        BY <1>1, <3>1
      <4> QED
        BY <1>2, <2>3, <3>1, <4>1
    <3>2. CASE ~(j < i)
      <4>1. j - (i - 1) \in 1 .. Len(c) - i /\ i + (j - (i - 1)) = j + 1
        BY <1>1, <3>2
      <4>2. ~(j <= i - 1)
        BY <1>1, <3>2
      <4>3. d[j] = after[j - (i - 1)]
        BY <2>3, <4>2
      <4> QED
        BY <1>3, <3>2, <4>1, <4>3
    <3> QED
      BY <3>1, <3>2
  <2> QED
    BY <2>1, <2>2, <2>4
<1>6. ASSUME NEW j \in DOMAIN d
      PROVE  LET k == IF j < i THEN j ELSE j + 1 IN
             j \in Nat /\ k \in DOMAIN c /\ k # i /\ d[j] = c[k]
  BY <1>1, <1>5
<1>7. ASSUME NEW k \in DOMAIN c, k # i
      PROVE  \E j \in DOMAIN d : d[j] = c[k]
  <2>1. CASE k < i
    BY <1>1, <1>5, <2>1
  <2>2. CASE k > i
    <3>1. k - 1 \in 1 .. Len(c) - 1 /\ ~(k - 1 < i) /\ (k - 1) + 1 = k
      BY <1>1, <2>2
    <3>2. k - 1 \in DOMAIN d
      BY <1>5, <3>1
    <3>3. d[k - 1] = c[k]
      BY <1>5, <3>1
    <3> QED
      BY <3>2, <3>3
  <2> QED
    BY <1>1, <1>7, <2>1, <2>2
<1> QED
  BY <1>5, <1>6, <1>7 DEF d

\* Nobody asks for the lock or leaves it.
LEMMA LockStays ==
  ASSUME LockInv, UNCHANGED lockQueue, expired' \subseteq Requests,
         \A r \in Requests : handler'[r] = "locking" <=> handler[r] = "locking"
  PROVE  LockInv'
BY DEF LockInv

LEMMA AskStep ==
  ASSUME PlaceInv, LockInv, NEW r \in Requests, Server!CheckDeadline(r)
  PROVE  LockInv'
<1>1. handler \in [Requests -> {"absent"} \cup Server!InFlight \cup Server!Finished]
  BY DEF PlaceInv, Types
<1>2. handler[r] = "top" /\ UNCHANGED expired
  BY DEF Server!CheckDeadline
<1>3. CASE handler' = [handler EXCEPT ![r] = "timeout"] /\ UNCHANGED lockQueue
  BY <1>1, <1>2, <1>3, LockStays DEF LockInv
<1>4. CASE /\ handler' = [handler EXCEPT ![r] = "locking"]
           /\ lockQueue' = Append(lockQueue, r)
  <2>1. /\ lockQueue' \in Seq(Requests)
        /\ \A i \in DOMAIN lockQueue :
             i \in DOMAIN lockQueue' /\ lockQueue'[i] = lockQueue[i]
        /\ Len(lockQueue) + 1 \in DOMAIN lockQueue'
        /\ lockQueue'[Len(lockQueue) + 1] = r
        /\ \A i \in DOMAIN lockQueue' : i \in DOMAIN lockQueue \/ i = Len(lockQueue) + 1
    BY <1>4, AppendLast DEF LockInv
  <2>2. \A i \in DOMAIN lockQueue : lockQueue[i] # r
    BY <1>2 DEF LockInv
  <2>3. \A i, j \in DOMAIN lockQueue' : lockQueue'[i] = lockQueue'[j] => i = j
    BY <2>1, <2>2 DEF LockInv
  <2>4. \A q \in Requests : handler'[q] = "locking" <=> q = r \/ handler[q] = "locking"
    BY <1>1, <1>4
  <2>5. \A q \in Requests :
          handler'[q] = "locking" <=> \E i \in DOMAIN lockQueue' : lockQueue'[i] = q
    BY <2>1, <2>4 DEF LockInv
  <2> QED
    BY <1>2, <2>1, <2>3, <2>5 DEF LockInv
<1> QED
  BY <1>3, <1>4 DEF Server!CheckDeadline

\* One handler leaves the queue, from wherever it is.
LEMMA LeaveStep ==
  ASSUME PlaceInv, LockInv, NEW r \in Requests, handler[r] = "locking",
         NEW p \in {"ok", "failed", "sleeping", "gone"},
         handler' = [handler EXCEPT ![r] = p], UNCHANGED expired,
         NEW i \in DOMAIN lockQueue, lockQueue[i] = r, lockQueue' \in Seq(Requests),
         \A j \in DOMAIN lockQueue' :
           LET k == IF j < i THEN j ELSE j + 1 IN
           j \in Nat /\ k \in DOMAIN lockQueue /\ k # i /\ lockQueue'[j] = lockQueue[k],
         \A k \in DOMAIN lockQueue : k # i =>
           \E j \in DOMAIN lockQueue' : lockQueue'[j] = lockQueue[k]
  PROVE  LockInv'
<1>1. handler \in [Requests -> {"absent"} \cup Server!InFlight \cup Server!Finished]
  BY DEF PlaceInv, Types
<1>2. \A q \in Requests : handler'[q] = "locking" <=> q # r /\ handler[q] = "locking"
  BY <1>1
<1>3. \A k \in DOMAIN lockQueue : lockQueue[k] = r => k = i
  BY DEF LockInv
<1>4. \A j, l \in DOMAIN lockQueue' : lockQueue'[j] = lockQueue'[l] => j = l
  <2> SUFFICES ASSUME NEW j \in DOMAIN lockQueue', NEW l \in DOMAIN lockQueue',
                      lockQueue'[j] = lockQueue'[l]
               PROVE  j = l
    OBVIOUS
  <2>1. (IF j < i THEN j ELSE j + 1) = (IF l < i THEN l ELSE l + 1)
    BY DEF LockInv
  <2>2. j \in Nat /\ l \in Nat /\ i \in Nat
    BY DEF LockInv
  <2> QED
    BY <2>1, <2>2
<1>5. \A q \in Requests :
        handler'[q] = "locking" <=> \E j \in DOMAIN lockQueue' : lockQueue'[j] = q
  <2>1. ASSUME NEW q \in Requests, handler'[q] = "locking"
        PROVE  \E j \in DOMAIN lockQueue' : lockQueue'[j] = q
    <3>1. PICK k \in DOMAIN lockQueue : lockQueue[k] = q
      BY <1>2, <2>1 DEF LockInv
    <3> QED
      BY <1>2, <2>1, <3>1
  <2>2. ASSUME NEW q \in Requests, NEW j \in DOMAIN lockQueue', lockQueue'[j] = q
        PROVE  handler'[q] = "locking"
    <3>1. PICK k \in DOMAIN lockQueue : k # i /\ lockQueue[k] = q
      BY <2>2
    <3> QED
      BY <1>2, <1>3, <3>1 DEF LockInv
  <2> QED
    BY <2>1, <2>2
<1> QED
  BY <1>4, <1>5 DEF LockInv

\* The holder has read a result and lets the lock go.
LEMMA ReleaseStep ==
  ASSUME PlaceInv, LockInv, NEW r \in Requests, Server!TakeOwn(r) \/ Server!DropUnrelated(r)
  PROVE  LockInv'
<1>1. /\ lockQueue # <<>> /\ Head(lockQueue) = r /\ lockQueue' = Tail(lockQueue)
      /\ handler[r] = "locking" /\ UNCHANGED expired
      /\ \E p \in {"ok", "failed", "sleeping"} : handler' = [handler EXCEPT ![r] = p]
  BY DEF Server!TakeOwn, Server!DropUnrelated, Server!Holds
<1>2. /\ 1 \in DOMAIN lockQueue /\ lockQueue[1] = r /\ lockQueue' \in Seq(Requests)
      /\ \A j \in DOMAIN lockQueue' :
           /\ j \in Nat /\ j + 1 \in DOMAIN lockQueue /\ j + 1 # 1
           /\ lockQueue'[j] = lockQueue[j + 1]
      /\ \A k \in DOMAIN lockQueue :
           k # 1 => k - 1 \in DOMAIN lockQueue' /\ lockQueue'[k - 1] = lockQueue[k]
  BY <1>1, TakeFirst DEF LockInv
<1>3. \A j \in DOMAIN lockQueue' : ~(j < 1)
  BY <1>2
<1> QED
  BY <1>1, <1>2, <1>3, LeaveStep

LEMMA DropStep ==
  ASSUME PlaceInv, LockInv, NEW r \in Requests, Server!DropHandler(r)
  PROVE  LockInv'
<1>1. handler' = [handler EXCEPT ![r] = "gone"] /\ UNCHANGED expired
  BY DEF Server!DropHandler
<1>2. CASE handler[r] = "locking"
  <2>1. PICK i \in DOMAIN lockQueue :
          lockQueue[i] = r /\ lockQueue' = Server!RemoveAt(lockQueue, i)
    BY <1>2 DEF Server!DropHandler
  <2>2. lockQueue \in Seq(Requests)
    BY DEF LockInv
  <2>3. /\ lockQueue' \in Seq(Requests)
        /\ \A j \in DOMAIN lockQueue' :
             LET k == IF j < i THEN j ELSE j + 1 IN
             j \in Nat /\ k \in DOMAIN lockQueue /\ k # i /\ lockQueue'[j] = lockQueue[k]
        /\ \A k \in DOMAIN lockQueue : k # i =>
             \E j \in DOMAIN lockQueue' : lockQueue'[j] = lockQueue[k]
    BY <2>1, <2>2, TakeOut
  <2> QED
    BY <1>1, <1>2, <2>1, <2>3, LeaveStep
<1>3. CASE handler[r] # "locking"
  <2>1. UNCHANGED lockQueue
    BY <1>3 DEF Server!DropHandler
  <2>2. \A q \in Requests : handler'[q] = "locking" <=> handler[q] = "locking"
    BY <1>1, <1>3 DEF PlaceInv, Types
  <2> QED
    BY <1>1, <2>1, <2>2, LockStays DEF LockInv
<1> QED
  BY <1>2, <1>3

LEMMA LockStep == PlaceInv /\ ClientTypes /\ LockInv /\ [Next]_vars => LockInv'
<1> SUFFICES ASSUME PlaceInv, ClientTypes, LockInv, [Next]_vars PROVE LockInv'
  OBVIOUS
<1>1. handler \in [Requests -> {"absent"} \cup Server!InFlight \cup Server!Finished]
  BY DEF PlaceInv, Types
<1>2. CASE UNCHANGED <<handler, expired, lockQueue>>
  BY <1>2 DEF LockInv
<1>3. ASSUME NEW r \in Requests,
             Server!Accept(r) \/ Server!Reject(r) \/ Server!Wake(r) \/ Server!Expire(r)
      PROVE  LockInv'
  <2>1. /\ UNCHANGED lockQueue /\ expired' \subseteq Requests
        /\ \A q \in Requests : handler'[q] = "locking" <=> handler[q] = "locking"
    BY <1>1, <1>3 DEF Server!Accept, Server!Reject, Server!Wake, Server!Expire, LockInv
  <2> QED
    BY <2>1, LockStays
<1>4. ASSUME NEW w \in Workers, Server!TakeJob(w) \/ Server!SendResult(w)
      PROVE  UNCHANGED <<handler, expired, lockQueue>>
  BY <1>4 DEF Server!TakeJob, Server!SendResult
<1>5. CASE UNCHANGED serverVars
  BY <1>2, <1>5 DEF serverVars
<1> QED
  BY <1>2, <1>3, <1>4, <1>5, AskStep, DropStep, ReleaseStep, Kinds DEF Elsewhere

LEMMA LockCorrect == Spec => []LockInv
<1>1. Init => LockInv
  BY DEF Init, Server!Init, LockInv
<1> QED
  BY <1>1, LockStep, ServerCorrect, PTL DEF Spec

\* Every variable of the server and its clients keeps its type, also where a handler
\* is dropped out of the middle of the queue for the lock (server.rs 309-341).
THEOREM TypesHold == Spec => []TypeOK
<1>1. PlaceInv /\ ClientTypes /\ LockInv => TypeOK
  BY DEF PlaceInv, Types, ClientTypes, LockInv, TypeOK, Server!TypeOK
<1> QED
  BY <1>1, ServerCorrect, LockCorrect, PTL

\* Closed connections never leave the lock with a handler that is gone
\* (server.rs 324-325).
THEOREM TheLockIsHeld == Spec => []LockHasLiveHolder
<1>1. ASSUME LockInv, NEW r \in Requests, handler[r] = "locking"
      PROVE  \E q \in Requests : Server!Holds(q)
  <2>1. lockQueue # <<>> /\ lockQueue \in Seq(Requests)
    BY <1>1 DEF LockInv
  <2>2. Head(lockQueue) \in Requests /\ 1 \in DOMAIN lockQueue /\ Head(lockQueue) = lockQueue[1]
    BY <2>1, TakeFirst
  <2>3. handler[Head(lockQueue)] = "locking"
    BY <1>1, <2>2 DEF LockInv
  <2> QED
    BY <2>1, <2>2, <2>3 DEF Server!Holds
<1>2. LockInv => LockHasLiveHolder
  BY <1>1 DEF LockHasLiveHolder
<1> QED
  BY <1>2, LockCorrect, PTL


-----------------------------------------------------------------------------
(* Nothing is lost that somebody waits for                                 *)

\* Where clients never give up before the server does, a handler in flight is the
\* one its client waits for, and its own result is still to come; what was sent
\* for the chunk a client is at is somewhere, and nothing was sent for later ones.
PatientInv ==
  /\ \A r \in Requests : handler[r] \in Server!InFlight => Awaited(r) /\ OnTheWay(r)
  /\ \A q \in Requests : q[2] > chunk[q[1]] => handler[q] = "absent"
  /\ \A q \in Requests : q[2] = chunk[q[1]] /\ handler[q] \notin {"absent", "rejected"} =>
       OnTheWay(q) \/ InAnswer(q)

OneClient == \A c, d \in Clients : c = d

LEMMA AwaitedFacts ==
  ASSUME ClientTypes, NEW r \in Requests, Awaited(r)
  PROVE  /\ r[1] \in Clients /\ client[r[1]] = "waiting" /\ Current(r[1]) = r
         /\ r[2] = chunk[r[1]] /\ r[3] = attempt[r[1]]
BY RequestFacts DEF Awaited, Current

\* Audio and results go on, and leave only with somebody who reads the result.
LEMMA WayStep ==
  ASSUME PlaceInv, ClientTypes, [Next]_vars, NEW q \in Requests, OnTheWay(q)
  PROVE  \/ OnTheWay(q)'
         \/ \E r \in Requests : /\ Head(stream).job = q /\ stream # <<>>
                                /\ Server!TakeOwn(r) \/ Server!DropUnrelated(r)
<1>0. jobs \in Seq(Requests) /\ stream \in Seq(Server!Result)
  BY DEF PlaceInv, Types
<1>1. CASE UNCHANGED <<jobs, busy, stream>>
  BY <1>1 DEF OnTheWay
<1>2. ASSUME NEW r \in Requests, Server!Accept(r)
      PROVE  OnTheWay(q)'
  <2>1. jobs' = Append(jobs, r) /\ UNCHANGED <<busy, stream>>
    BY <1>2 DEF Server!Accept
  <2>2. \A i \in DOMAIN jobs : i \in DOMAIN jobs' /\ jobs'[i] = jobs[i]
    BY <1>0, <2>1, AppendLast
  <2> QED
    BY <2>1, <2>2 DEF OnTheWay
<1>3. ASSUME NEW w \in Workers, Server!TakeJob(w)
      PROVE  OnTheWay(q)'
  <2>1. /\ busy[w] = Nil /\ jobs # <<>> /\ jobs' = Tail(jobs)
        /\ busy' = [busy EXCEPT ![w] = Head(jobs)] /\ UNCHANGED stream
    BY <1>3 DEF Server!TakeJob
  <2>2. /\ Head(jobs) = jobs[1]
        /\ \A i \in DOMAIN jobs :
             i # 1 => i - 1 \in DOMAIN jobs' /\ jobs'[i - 1] = jobs[i]
    BY <1>0, <2>1, TakeFirst
  <2>3. /\ busy'[w] = jobs[1]
        /\ \A v \in Workers : v # w => busy'[v] = busy[v]
    BY <2>1, <2>2 DEF PlaceInv, Types
  <2>4. \A v \in Workers : busy[v] = q => v # w
    BY <2>1, RequestFacts
  <2> QED
    BY <2>1, <2>2, <2>3, <2>4 DEF OnTheWay
<1>4. ASSUME NEW w \in Workers, Server!SendResult(w)
      PROVE  OnTheWay(q)'
  <2>1. PICK ok \in BOOLEAN :
          /\ busy[w] # Nil /\ stream' = Append(stream, [job |-> busy[w], ok |-> ok])
          /\ busy' = [busy EXCEPT ![w] = Nil] /\ UNCHANGED jobs
    BY <1>4 DEF Server!SendResult
  <2>2. [job |-> busy[w], ok |-> ok] \in Server!Result
    BY <2>1 DEF PlaceInv, Types, Server!Result
  <2>3. /\ \A i \in DOMAIN stream : i \in DOMAIN stream' /\ stream'[i] = stream[i]
        /\ Len(stream) + 1 \in DOMAIN stream' /\ stream'[Len(stream) + 1].job = busy[w]
    BY <1>0, <2>1, <2>2, AppendLast
  <2>4. \A v \in Workers : v # w => busy'[v] = busy[v]
    BY <2>1 DEF PlaceInv, Types
  <2> QED
    BY <2>1, <2>3, <2>4 DEF OnTheWay
<1>5. ASSUME NEW r \in Requests, Server!TakeOwn(r) \/ Server!DropUnrelated(r),
             ~OnTheWay(q)'
      PROVE  Head(stream).job = q /\ stream # <<>>
  <2>1. stream # <<>> /\ stream' = Tail(stream) /\ UNCHANGED <<jobs, busy>>
    BY <1>5 DEF Server!TakeOwn, Server!DropUnrelated
  <2>2. /\ Head(stream) = stream[1]
        /\ \A i \in DOMAIN stream :
             i # 1 => i - 1 \in DOMAIN stream' /\ stream'[i - 1] = stream[i]
    BY <1>0, <2>1, TakeFirst
  <2>3. PICK i \in DOMAIN stream : stream[i].job = q
    BY <1>5, <2>1 DEF OnTheWay
  <2>4. i = 1
    BY <1>5, <2>2, <2>3 DEF OnTheWay
  <2> QED
    BY <2>1, <2>2, <2>3, <2>4
<1>6. ASSUME NEW r \in Requests, Elsewhere(r)
      PROVE  UNCHANGED <<jobs, busy, stream>>
  BY <1>6 DEF Elsewhere, Server!Reject, Server!CheckDeadline, Server!Wake, Server!Expire,
              Server!DropHandler
<1>7. CASE UNCHANGED serverVars
  BY <1>1, <1>7 DEF serverVars
<1> QED
  BY <1>1, <1>2, <1>3, <1>4, <1>5, <1>6, <1>7, Kinds

\* Somebody reads a result of the chunk the only client is at: its handler does,
\* and takes it.
LEMMA ReaderTakes ==
  ASSUME PlaceInv, ClientTypes, PatientInv, OneClient,
         NEW r \in Requests, Server!TakeOwn(r) \/ Server!DropUnrelated(r),
         NEW q \in Requests, Head(stream).job = q, q[2] = chunk[q[1]]
  PROVE  Server!TakeOwn(r) /\ handler[r] = "locking" /\ InAnswer(q)'
<1>1. handler[r] = "locking"
  BY DEF Server!TakeOwn, Server!DropUnrelated, Server!Holds
<1>2. Awaited(r)
  BY <1>1 DEF PatientInv, Server!InFlight
<1>3. r[1] = q[1] /\ r[2] = q[2]
  BY <1>2, AwaitedFacts, RequestFacts DEF OneClient
<1>4. Id[r] = Id[q]
  BY <1>3, RequestFacts
<1>5. Server!TakeOwn(r)
  BY <1>4 DEF Server!DropUnrelated, Server!Matches
<1>6. /\ answer' = [answer EXCEPT ![r] = Head(stream)] /\ stream # <<>>
      /\ answer \in [Requests -> Server!Result \cup {Nil}]
  BY <1>5 DEF Server!TakeOwn, PlaceInv, Types
<1>7. Head(stream) \in Server!Result /\ Head(stream) # Nil
  <2>1. Head(stream) \in Server!Result
    BY <1>6, TakeFirst DEF PlaceInv, Types
  <2> QED
    BY <2>1, NilAssumption DEF Server!Result
<1>8. answer'[r] # Nil /\ answer'[r].job = q
  BY <1>6, <1>7
<1> QED
  BY <1>1, <1>5, <1>8 DEF InAnswer

\* What a step does to handlers and clients when the clients are patient.
LEMMA HandlerStep ==
  ASSUME PlaceInv, ClientTypes, PatientInv, "slow" \notin Faults, [Next]_vars
  PROVE  /\ \A r \in Requests : handler'[r] \in Server!InFlight =>
              /\ Awaited(r)'
              /\ \/ handler[r] \in Server!InFlight
                 \/ handler[r] = "absent" /\ Server!Accept(r)
         /\ \A q \in Requests :
              handler'[q] \notin {"absent", "rejected"} =>
                \/ handler[q] \notin {"absent", "rejected"}
                \/ handler[q] = "absent" /\ Server!Accept(q) /\ q[2] = chunk[q[1]]
         /\ \A q \in Requests : handler'[q] # "absent" =>
              handler[q] # "absent" \/ q[2] = chunk[q[1]]
         /\ \A c \in Clients : /\ chunk[c] \in Nat /\ chunk'[c] \in Nat
                               /\ \/ chunk'[c] = chunk[c]
                                  \/ chunk'[c] = chunk[c] + 1
<1> USE DEF Server!InFlight, Server!Finished
<1>0. handler \in [Requests -> {"absent"} \cup Server!InFlight \cup Server!Finished]
  BY DEF PlaceInv, Types
<1>1. \A c \in Clients : chunk[c] \in Nat /\ attempt[c] \in Nat
  BY SizesAssumption DEF ClientTypes
<1>2. \A r \in Requests : handler[r] \in Server!InFlight => Awaited(r)
  BY DEF PatientInv
<1>3. ASSUME NEW c \in Clients, Send(c)
      PROVE  /\ Current(c) \in Requests /\ handler[Current(c)] = "absent"
             /\ Current(c)[1] = c /\ Current(c)[2] = chunk[c]
             /\ \/ Server!Accept(Current(c)) /\ handler' = [handler EXCEPT ![Current(c)] = "top"]
                \/ handler' = [handler EXCEPT ![Current(c)] = "rejected"]
             /\ client[c] # "waiting" /\ client' = [client EXCEPT ![c] = "waiting"]
             /\ UNCHANGED <<chunk, attempt>>
  BY <1>3, CurrentFacts DEF Send, Server!Accept, Server!Reject
<1>4. ASSUME NEW c \in Clients,
             CannotSend(c) \/ ReceiveOk(c) \/ ReceiveError(c) \/ GiveUp(c)
      PROVE  /\ UNCHANGED handler
             /\ \A d \in Clients : d # c => /\ client'[d] = client[d]
                                            /\ chunk'[d] = chunk[d]
                                            /\ attempt'[d] = attempt[d]
             /\ chunk'[c] = chunk[c] \/ chunk'[c] = chunk[c] + 1
             /\ client[c] = "waiting" => handler[Current(c)] \notin Server!InFlight
  BY <1>4 DEF CannotSend, ReceiveOk, ReceiveError, GiveUp, AttemptFails, ClientTypes,
              serverVars
<1>5. ASSUME NEW r \in Requests, Server!Handle(r) \/ Server!Expire(r) \/ Server!DropHandler(r)
      PROVE  /\ handler[r] \in Server!InFlight
             /\ \A q \in Requests : q # r => handler'[q] = handler[q]
  BY <1>0, <1>5 DEF Server!Handle, Server!CheckDeadline, Server!TakeOwn, Server!Holds,
     Server!DropUnrelated, Server!Wake, Server!Expire, Server!DropHandler
<1>6. ASSUME NEW w \in Workers, Server!Work(w)
      PROVE  UNCHANGED handler
  BY <1>6 DEF Server!Work, Server!TakeJob, Server!SendResult
<1>7. CASE \E c \in Clients : Send(c)
  <2>1. PICK c \in Clients : Send(c)
    BY <1>7
  <2>2. \A r \in Requests : handler[r] \in Server!InFlight => r[1] # c
    BY <1>2, <1>3, <2>1 DEF Awaited
  <2>3. \A r \in Requests : r # Current(c) => handler'[r] = handler[r]
    BY <1>0, <1>3, <2>1
  <2>4. \A r \in Requests : r[1] # c /\ Awaited(r) => Awaited(r)'
    BY <1>3, <2>1, RequestFacts DEF Awaited, Current, ClientTypes
  <2>5. ASSUME NEW r \in Requests, r = Current(c), handler'[r] \in Server!InFlight
        PROVE  Awaited(r)' /\ Server!Accept(r)
    <3>1. Server!Accept(r)
      BY <1>0, <1>3, <2>1, <2>5
    <3>2. r[1] = c /\ client'[c] = "waiting"
      BY <1>3, <2>1, <2>5 DEF ClientTypes
    <3>3. Current(c)' = Current(c)
      BY <1>3, <2>1 DEF Current
    <3> QED
      BY <2>5, <3>1, <3>2, <3>3 DEF Awaited
  <2>6. handler'[Current(c)] # "rejected" => Server!Accept(Current(c))
    BY <1>0, <1>3, <2>1
  <2>7. ASSUME NEW r \in Requests, handler'[r] \in Server!InFlight
        PROVE  /\ Awaited(r)'
               /\ \/ handler[r] \in Server!InFlight
                  \/ handler[r] = "absent" /\ Server!Accept(r)
    <3>1. CASE r = Current(c)
      BY <1>3, <2>1, <2>5, <2>7, <3>1
    <3>2. CASE r # Current(c)
      BY <1>2, <2>2, <2>3, <2>4, <2>7, <3>2
    <3> QED
      BY <3>1, <3>2
  <2>8. ASSUME NEW q \in Requests
        PROVE  /\ handler'[q] \notin {"absent", "rejected"} =>
                    \/ handler[q] \notin {"absent", "rejected"}
                    \/ handler[q] = "absent" /\ Server!Accept(q) /\ q[2] = chunk[q[1]]
               /\ handler'[q] # "absent" => handler[q] # "absent" \/ q[2] = chunk[q[1]]
    <3>1. CASE q = Current(c)
      BY <1>3, <2>1, <2>6, <3>1
    <3>2. CASE q # Current(c)
      BY <2>3, <3>2
    <3> QED
      BY <3>1, <3>2
  <2>9. UNCHANGED chunk
    BY <1>3, <2>1
  <2> QED
    BY <1>1, <2>7, <2>8, <2>9
<1>8. CASE \E c \in Clients : CannotSend(c) \/ ReceiveOk(c) \/ ReceiveError(c) \/ GiveUp(c)
  <2>1. PICK c \in Clients : CannotSend(c) \/ ReceiveOk(c) \/ ReceiveError(c) \/ GiveUp(c)
    BY <1>8
  <2>2. \A r \in Requests : handler[r] \in Server!InFlight => r[1] # c
    BY <1>2, <1>4, <2>1 DEF Awaited
  <2>3. \A r \in Requests : r[1] # c /\ Awaited(r) => Awaited(r)'
    BY <1>4, <2>1, RequestFacts DEF Awaited, Current
  <2> QED
    BY <1>1, <1>2, <1>4, <2>1, <2>2, <2>3
<1>9. CASE UNCHANGED clientVars
  <2>1. \A r \in Requests : Awaited(r)' <=> Awaited(r)
    BY <1>9 DEF clientVars, Awaited, Current
  <2>2. UNCHANGED chunk
    BY <1>9 DEF clientVars
  <2>3. \/ \E r \in Requests : Server!Handle(r) \/ Server!Expire(r) \/ Server!DropHandler(r)
        \/ UNCHANGED handler \/ \E c \in Clients : Client(c)
    BY <1>6 DEF Next, Notice, vars
  <2>4. CASE \E r \in Requests : Server!Handle(r) \/ Server!Expire(r) \/ Server!DropHandler(r)
    BY <1>1, <1>2, <1>5, <2>1, <2>2, <2>4
  <2>5. CASE UNCHANGED handler
    BY <1>1, <1>2, <2>1, <2>2, <2>5
  <2> QED
    BY <1>7, <1>8, <2>3, <2>4, <2>5 DEF Client
<1> QED
  BY <1>7, <1>8, <1>9 DEF Next, Client, Notice, vars, clientVars

LEMMA PatientStep ==
  ASSUME PlaceInv, ClientTypes, Answered, PatientInv, OneClient, "slow" \notin Faults,
         [Next]_vars
  PROVE  PatientInv'
<1>1. ASSUME NEW r \in Requests, Server!Accept(r)
      PROVE  OnTheWay(r)'
  <2>1. jobs' = Append(jobs, r) /\ jobs \in Seq(Requests)
    BY <1>1 DEF Server!Accept, PlaceInv, Types
  <2> QED
    BY <2>1, AppendLast DEF OnTheWay
<1>2. ASSUME NEW q \in Requests, InAnswer(q)
      PROVE  InAnswer(q)'
  BY <1>2, AnsweredStep DEF InAnswer
<1>3. ASSUME NEW r \in Requests, handler'[r] \in Server!InFlight
      PROVE  Awaited(r)' /\ OnTheWay(r)'
  <2>1. CASE Server!Accept(r)
    BY <1>1, <1>3, <2>1, HandlerStep
  <2>2. CASE handler[r] \in Server!InFlight
    <3>1. OnTheWay(r) /\ Awaited(r)
      BY <2>2 DEF PatientInv
    <3>2. r[2] = chunk[r[1]]
      BY <3>1, AwaitedFacts
    <3>3. ASSUME NEW p \in Requests, Head(stream).job = r,
                 Server!TakeOwn(p) \/ Server!DropUnrelated(p)
          PROVE  FALSE
      <4>1. Server!TakeOwn(p) /\ handler[p] = "locking"
        BY <3>2, <3>3, ReaderTakes
      <4>2. Awaited(p)
        BY <4>1 DEF PatientInv, Server!InFlight
      <4>3. p = r
        BY <3>1, <4>2, AwaitedFacts DEF OneClient
      <4>4. handler'[r] \in {"ok", "failed"}
        BY <4>1, <4>3 DEF Server!TakeOwn, PlaceInv, Types
      <4> QED
        BY <1>3, <4>4 DEF Server!InFlight
    <3> QED
      BY <1>3, <3>1, <3>3, WayStep, HandlerStep
  <2> QED
    BY <1>3, <2>1, <2>2, HandlerStep
<1>4. ASSUME NEW q \in Requests, q[2] > chunk'[q[1]]
      PROVE  handler'[q] = "absent"
  <2>1. q[1] \in Clients /\ q[2] \in Nat
    BY RequestFacts, SizesAssumption
  <2>2. q[2] > chunk[q[1]]
    BY <1>4, <2>1, HandlerStep
  <2>3. handler[q] = "absent" /\ q[2] # chunk[q[1]]
    BY <2>1, <2>2, HandlerStep DEF PatientInv
  <2> QED
    BY <2>3, HandlerStep
<1>5. ASSUME NEW q \in Requests, q[2] = chunk'[q[1]],
             handler'[q] \notin {"absent", "rejected"}
      PROVE  OnTheWay(q)' \/ InAnswer(q)'
  <2>1. q[1] \in Clients /\ q[2] \in Nat
    BY RequestFacts, SizesAssumption
  <2>2. CASE Server!Accept(q)
    BY <1>1, <2>2
  <2>3. CASE handler[q] \notin {"absent", "rejected"}
    <3>1. q[2] = chunk[q[1]]
      <4>1. ~(q[2] > chunk[q[1]])
        BY <2>3 DEF PatientInv
      <4> QED
        BY <1>5, <2>1, <4>1, HandlerStep
    <3>2. OnTheWay(q) \/ InAnswer(q)
      BY <2>3, <3>1 DEF PatientInv
    <3> QED
      BY <1>2, <3>1, <3>2, WayStep, ReaderTakes
  <2> QED
    BY <1>5, <2>2, <2>3, HandlerStep
<1>6. PatientInv' <=>
        /\ \A r \in Requests :
             handler'[r] \in Server!InFlight => Awaited(r)' /\ OnTheWay(r)'
        /\ \A q \in Requests : q[2] > chunk'[q[1]] => handler'[q] = "absent"
        /\ \A q \in Requests :
             q[2] = chunk'[q[1]] /\ handler'[q] \notin {"absent", "rejected"} =>
               OnTheWay(q)' \/ InAnswer(q)'
  BY DEF PatientInv, Server!InFlight
<1> QED
  BY <1>3, <1>4, <1>5, <1>6

\* One plugin that waits as long as the server does loses no result it waits for,
\* whatever fails on the way and however many workers and attempts there are
\* (server.rs 326-338).
THEOREM WantedResultsAreKept ==
  ASSUME OneClient, "slow" \notin Faults
  PROVE  Spec => []NothingWantedIsLost
<1>1. Init => PatientInv
  BY DEF Init, Server!Init, PatientInv, Server!InFlight
<1>2. PlaceInv /\ ClientTypes /\ Answered /\ PatientInv /\ [Next]_vars => PatientInv'
  BY PatientStep
<1>3. PlaceInv /\ ClientTypes /\ PatientInv => NothingWantedIsLost
  <2> SUFFICES ASSUME ClientTypes, PatientInv,
                      NEW r \in Requests, handler[r] \in Server!InFlight
               PROVE  /\ OnTheWay(r)
                      /\ \A q \in Requests :
                           Id[q] = Id[r] /\ handler[q] \notin {"absent", "rejected"} =>
                             OnTheWay(q) \/ InAnswer(q)
    BY DEF NothingWantedIsLost, InAnswer
  <2>1. OnTheWay(r) /\ Awaited(r)
    BY DEF PatientInv
  <2>2. ASSUME NEW q \in Requests, Id[q] = Id[r]
        PROVE  q[2] = chunk[q[1]]
    BY <2>1, <2>2, AwaitedFacts, RequestFacts
  <2> QED
    BY <2>1, <2>2 DEF PatientInv
<1> QED
  BY <1>1, <1>2, <1>3, ServerCorrect, PTL DEF Spec

===============================================================================
