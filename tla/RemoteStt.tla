------------------------------ MODULE RemoteStt ------------------------------
(***************************************************************************)
(* RemoteSttRunner of crates/mpv-stt-plugin/src/stt/remote_http.rs with    *)
(* the server of SttServer: each client transcribes its chunks one after   *)
(* the other, sends a chunk up to MaxRetry times under one request id, and *)
(* stops for good when the last attempt fails (plugin.rs 838-844).         *)
(* Connections fail, break and answers get lost, and the timeout every     *)
(* client has passes at any moment the instance allows; the server learns  *)
(* of a closed connection some time later.                                 *)
(***************************************************************************)
EXTENDS Integers, Sequences, FiniteSets

CONSTANTS
  Clients,   \* the plugins that use the server
  Chunks,    \* how many chunks each of them sends
  MaxRetry,  \* stt.remote_http.max_retry
  Workers, Nil,
  Faults     \* "network": a connection cannot be made, or breaks under the
             \* answer; "slow": a client's timeout passes, or its connection
             \* breaks, while its handler is still waiting

ASSUME SizesAssumption ==
  /\ Chunks \in Nat \ {0} /\ MaxRetry \in Nat \ {0}
  /\ Faults \subseteq {"network", "slow"}

Requests == Clients \X (1 .. Chunks) \X (1 .. MaxRetry)

ASSUME NilAssumption ==
  Nil \notin Requests /\ Nil \notin [job : Requests, ok : BOOLEAN]

Id       == [r \in Requests |-> <<r[1], r[2]>>]

VARIABLES
  handler, expired, lockQueue, jobs, busy, stream, answer,
  client,   \* "idle", "waiting", "backoff", "failed"
  chunk,    \* the chunk each client is at
  attempt   \* counted from 1

Server == INSTANCE SttServer

serverVars == <<handler, expired, lockQueue, jobs, busy, stream, answer>>
clientVars == <<client, chunk, attempt>>
vars == <<handler, expired, lockQueue, jobs, busy, stream, answer,
          client, chunk, attempt>>

TypeOK ==
  /\ Server!TypeOK
  /\ client \in [Clients -> {"idle", "waiting", "backoff", "failed"}]
  /\ chunk \in [Clients -> 1 .. Chunks + 1]
  /\ attempt \in [Clients -> 1 .. MaxRetry]

Init ==
  /\ Server!Init
  /\ client = [c \in Clients |-> "idle"] /\ chunk = [c \in Clients |-> 1]
  /\ attempt = [c \in Clients |-> 1]

-----------------------------------------------------------------------------
(* send_request_with_retry                                                 *)

Current(c)  == <<c, chunk[c], attempt[c]>>
Awaited(r)  == client[r[1]] = "waiting" /\ Current(r[1]) = r

\* What an attempt that failed leads to: a pause and another one, or the end.
AttemptFails_OneMore(c) ==
  /\ IF attempt[c] <= MaxRetry
       THEN /\ client' = [client EXCEPT ![c] = "backoff"]
            /\ attempt' = [attempt EXCEPT ![c] = attempt[c] + 1]
       ELSE client' = [client EXCEPT ![c] = "failed"] /\ UNCHANGED attempt
  /\ UNCHANGED chunk

AttemptFails(c) ==
  /\ IF attempt[c] < MaxRetry
       THEN /\ client' = [client EXCEPT ![c] = "backoff"]
            /\ attempt' = [attempt EXCEPT ![c] = attempt[c] + 1]
       ELSE client' = [client EXCEPT ![c] = "failed"] /\ UNCHANGED attempt
  /\ UNCHANGED chunk

Send(c) ==
  /\ client[c] \in {"idle", "backoff"} /\ chunk[c] <= Chunks
  /\ Server!Accept(Current(c)) \/ Server!Reject(Current(c))
  /\ client' = [client EXCEPT ![c] = "waiting"]
  /\ UNCHANGED <<chunk, attempt>>

CannotSend(c) ==
  /\ "network" \in Faults
  /\ client[c] \in {"idle", "backoff"} /\ chunk[c] <= Chunks
  /\ AttemptFails(c) /\ UNCHANGED serverVars

ReceiveOk(c) ==
  /\ client[c] = "waiting" /\ handler[Current(c)] = "ok"
  /\ client' = [client EXCEPT ![c] = "idle"]
  /\ chunk' = [chunk EXCEPT ![c] = chunk[c] + 1]
  /\ attempt' = [attempt EXCEPT ![c] = 1]
  /\ UNCHANGED serverVars

ReceiveError(c) ==
  /\ client[c] = "waiting"
  /\ handler[Current(c)] \in {"failed", "timeout", "rejected"}
  /\ AttemptFails(c) /\ UNCHANGED serverVars

\* The client's timeout, which the code always sets, passes, or the connection
\* breaks: while the handler waits, or under its answer.
GiveUp(c) ==
  /\ client[c] = "waiting"
  /\ \/ "slow" \in Faults
     \/ "network" \in Faults /\ handler[Current(c)] \in Server!Finished
  /\ AttemptFails(c) /\ UNCHANGED serverVars

\* The server notices that nobody waits for the response any more.
Notice(r) ==
  /\ ~Awaited(r) /\ Server!DropHandler(r) /\ UNCHANGED clientVars

Client(c) ==
  Send(c) \/ CannotSend(c) \/ ReceiveOk(c) \/ ReceiveError(c) \/ GiveUp(c)

Next ==
  \/ \E c \in Clients : Client(c)
  \/ \E r \in Requests :
       \/ Notice(r)
       \/ Server!Handle(r) /\ UNCHANGED clientVars
       \/ Server!Expire(r) /\ UNCHANGED clientVars
  \/ \E w \in Workers : Server!Work(w) /\ UNCHANGED clientVars

Spec == Init /\ [][Next]_vars

-----------------------------------------------------------------------------
(* Safety                                                                  *)

\* Every job yields one result and no result is handed to two handlers
\* (server.rs 325-334, worker.rs 115-145).
DeliveredOnce ==
  \A r, q \in Requests :
    answer[r] # Nil /\ answer[q] # Nil /\ answer[r].job = answer[q].job => r = q

\* A client's next chunk begins only after it holds the subtitles of the chunk
\* before, made from that chunk's audio, whatever was retried or came late
\* (remote_http.rs 132-158, server.rs 326-338).
ChunksInOrder ==
  \A c \in Clients : \A k \in 1 .. chunk[c] - 1 :
    \E a \in 1 .. MaxRetry :
      LET got == answer[<<c, k, a>>] IN
      got # Nil /\ got.ok /\ got.job[1] = c /\ got.job[2] = k

\* The lock is never left with a handler that is gone: whenever handlers wait for
\* the stream, one that lives holds it, although connections are closed while
\* their handlers wait or read (server.rs 324-325).
LockHasLiveHolder ==
  \A r \in Requests : handler[r] = "locking" => \E q \in Requests : Server!Holds(q)

\* The audio of a request is queued or being transcribed, or its result is unread.
OnTheWay(r) ==
  \/ \E i \in DOMAIN jobs : jobs[i] = r
  \/ \E w \in Workers : busy[w] = r
  \/ \E i \in DOMAIN stream : stream[i].job = r

\* What a handler reads and drops as "unrelated" nobody waits for: a handler that
\* waits has its result still before it, and of the earlier attempts at the chunk
\* each result is yet to come or was handed out.  It holds while one plugin uses
\* the server and neither times out nor is cut off as long as its handler waits;
\* of two plugins, one drops the result of the other, whose handler then waits
\* for nothing, the lock in its hands, until its client gives up
\* (server.rs 326-338).
NothingWantedIsLost ==
  \A r \in Requests : handler[r] \in Server!InFlight =>
    /\ OnTheWay(r)
    /\ \A q \in Requests :
         Id[q] = Id[r] /\ handler[q] \notin {"absent", "rejected"} =>
           OnTheWay(q) \/ \E p \in Requests : answer[p] # Nil /\ answer[p].job = q

-----------------------------------------------------------------------------
(* Liveness: workers finish their jobs, handlers go on, clients read their  *)
(* answers, and the server notices closed connections.                      *)

Fairness ==
  /\ \A w \in Workers : WF_vars(Server!Work(w) /\ UNCHANGED clientVars)
  /\ \A r \in Requests :
       /\ WF_vars(Server!Handle(r) /\ UNCHANGED clientVars)
       /\ WF_vars(Server!Expire(r) /\ UNCHANGED clientVars)
       /\ WF_vars(Notice(r))
  /\ \A c \in Clients : WF_vars(Send(c) \/ ReceiveOk(c) \/ ReceiveError(c))

FairSpec == Spec /\ Fairness

\* The one client of a server is answered before its timeout passes: with
\* subtitles, an error or the message "timeout waiting result", although the
\* deadline is not looked at while the handler has the lock (server.rs 319-325).
EveryRequestEnds ==
  \A c \in Clients : client[c] = "waiting" ~> client[c] # "waiting"
===============================================================================
