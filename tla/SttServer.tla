------------------------------ MODULE SttServer ------------------------------
(***************************************************************************)
(* The inference server of crates/mpv-stt-server/src: one handler per HTTP *)
(* request (server.rs), a pool of workers (worker.rs), and between them a  *)
(* queue of jobs and ONE stream of results which all the handlers read     *)
(* under a lock, each looking for the result with its own request id.      *)
(*                                                                         *)
(* Only the actions: RemoteStt puts the clients beside them.  The workers' *)
(* result channel, the forwarding task and the stream are one FIFO here,   *)
(* since the task forwards whatever comes.                                 *)
(*                                                                         *)
(* A definition named X_Something is a deliberately wrong form of the X    *)
(* that follows it; the wrong forms are not part of the specification.     *)
(***************************************************************************)
EXTENDS SequencesExt

CONSTANTS
  Requests,  \* the HTTP requests that may arrive
  Id,        \* x-request-id of each, which the retries of a request share
  Workers,   \* the threads of the pool
  Nil

VARIABLES
  handler,    \* where the handler of each request is
  expired,    \* the requests whose deadline of 120 s is over
  lockQueue,  \* who waits for the lock on the stream; the first one holds it
  jobs,       \* worker_tx to the workers: the requests whose audio is queued
  busy,       \* the job of each worker
  stream,     \* the results not read yet
  answer      \* the result each handler has returned

vars == <<handler, expired, lockQueue, jobs, busy, stream, answer>>

InFlight == {"top", "locking", "sleeping"}
Finished == {"ok", "failed", "timeout", "rejected", "gone"}
Result   == [job : Requests, ok : BOOLEAN]

TypeOK ==
  /\ handler \in [Requests -> {"absent"} \cup InFlight \cup Finished]
  /\ expired \subseteq Requests
  /\ lockQueue \in Seq(Requests) /\ jobs \in Seq(Requests)
  /\ busy \in [Workers -> Requests \cup {Nil}]
  /\ stream \in Seq(Result)
  /\ answer \in [Requests -> Result \cup {Nil}]

Init ==
  /\ handler = [r \in Requests |-> "absent"] /\ expired = {}
  /\ lockQueue = <<>> /\ jobs = <<>> /\ stream = <<>>
  /\ busy = [w \in Workers |-> Nil]
  /\ answer = [r \in Requests |-> Nil]

-----------------------------------------------------------------------------
(* handle_transcribe                                                       *)

\* The request fails one of the checks of its headers and its body.
Reject(r) ==
  /\ handler[r] = "absent"
  /\ handler' = [handler EXCEPT ![r] = "rejected"]
  /\ UNCHANGED <<expired, lockQueue, jobs, busy, stream, answer>>

\* It passes them: a job is queued and the handler begins to wait.
Accept(r) ==
  /\ handler[r] = "absent"
  /\ handler' = [handler EXCEPT ![r] = "top"] /\ jobs' = Append(jobs, r)
  /\ UNCHANGED <<expired, lockQueue, busy, stream, answer>>

-----------------------------------------------------------------------------
(* wait_for_result                                                         *)

\* The deadline is looked at before the lock is asked for, and only there.
CheckDeadline(r) ==
  /\ handler[r] = "top"
  /\ IF r \in expired
       THEN handler' = [handler EXCEPT ![r] = "timeout"] /\ UNCHANGED lockQueue
       ELSE /\ handler' = [handler EXCEPT ![r] = "locking"]
            /\ lockQueue' = Append(lockQueue, r)
  /\ UNCHANGED <<expired, jobs, busy, stream, answer>>

Holds(r) == handler[r] = "locking" /\ lockQueue # <<>> /\ Head(lockQueue) = r

Matches_Any(r, result) == TRUE

Matches_SameAttempt(r, result) == result.job = r

Matches(r, result) == Id[result.job] = Id[r]

\* The holder reads a result of its request, which ends the handler ...
TakeOwn_Leaving(r) ==
  /\ Holds(r) /\ stream # <<>> /\ Matches(r, Head(stream))
  /\ handler' = [handler EXCEPT ![r] =
                   IF Head(stream).ok THEN "ok" ELSE "failed"]
  /\ answer' = [answer EXCEPT ![r] = Head(stream)]
  /\ lockQueue' = Tail(lockQueue)
  /\ UNCHANGED <<expired, jobs, busy, stream>>

TakeOwn(r) ==
  /\ Holds(r) /\ stream # <<>> /\ Matches(r, Head(stream))
  /\ handler' = [handler EXCEPT ![r] =
                   IF Head(stream).ok THEN "ok" ELSE "failed"]
  /\ answer' = [answer EXCEPT ![r] = Head(stream)]
  /\ stream' = Tail(stream) /\ lockQueue' = Tail(lockQueue)
  /\ UNCHANGED <<expired, jobs, busy>>

\* ... or one of another request, which is dropped.
DropUnrelated(r) ==
  /\ Holds(r) /\ stream # <<>> /\ ~Matches(r, Head(stream))
  /\ handler' = [handler EXCEPT ![r] = "sleeping"]
  /\ stream' = Tail(stream) /\ lockQueue' = Tail(lockQueue)
  /\ UNCHANGED <<expired, jobs, busy, answer>>

Wake(r) ==
  /\ handler[r] = "sleeping"
  /\ handler' = [handler EXCEPT ![r] = "top"]
  /\ UNCHANGED <<expired, lockQueue, jobs, busy, stream, answer>>

\* 120 s have gone by since the handler began to wait.
Expire(r) ==
  /\ handler[r] \in InFlight /\ r \notin expired
  /\ expired' = expired \cup {r}
  /\ UNCHANGED <<handler, lockQueue, jobs, busy, stream, answer>>

\* The connection is closed: axum drops the handler wherever it waits, and with
\* it the lock or its place in the queue for it.
DropHandler_StillLocking(r) ==
  /\ handler[r] \in InFlight
  /\ handler' = [handler EXCEPT ![r] = "gone"]
  /\ UNCHANGED <<expired, lockQueue, jobs, busy, stream, answer>>

DropHandler(r) ==
  /\ handler[r] \in InFlight
  /\ handler' = [handler EXCEPT ![r] = "gone"]
  /\ IF handler[r] = "locking"
       THEN \E i \in DOMAIN lockQueue :
              lockQueue[i] = r /\ lockQueue' = RemoveAt(lockQueue, i)
       ELSE UNCHANGED lockQueue
  /\ UNCHANGED <<expired, jobs, busy, stream, answer>>

Handle(r) ==
  CheckDeadline(r) \/ TakeOwn(r) \/ DropUnrelated(r) \/ Wake(r)

-----------------------------------------------------------------------------
(* worker_thread; cancel_request has no caller, so no job is skipped.      *)

TakeJob(w) ==
  /\ busy[w] = Nil /\ jobs # <<>>
  /\ busy' = [busy EXCEPT ![w] = Head(jobs)] /\ jobs' = Tail(jobs)
  /\ UNCHANGED <<handler, expired, lockQueue, stream, answer>>

\* process_job ends with subtitles or with an error.
SendResult_OnlySuccess(w) ==
  /\ busy[w] # Nil
  /\ stream' \in {stream, Append(stream, [job |-> busy[w], ok |-> TRUE])}
  /\ busy' = [busy EXCEPT ![w] = Nil]
  /\ UNCHANGED <<handler, expired, lockQueue, jobs, answer>>

SendResult(w) ==
  /\ busy[w] # Nil
  /\ \E ok \in BOOLEAN : stream' = Append(stream, [job |-> busy[w], ok |-> ok])
  /\ busy' = [busy EXCEPT ![w] = Nil]
  /\ UNCHANGED <<handler, expired, lockQueue, jobs, answer>>

Work(w) == TakeJob(w) \/ SendResult(w)
===============================================================================
