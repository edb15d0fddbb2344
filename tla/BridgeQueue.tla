----------------------------- MODULE BridgeQueue -----------------------------
(***************************************************************************)
(* How a request reaches FreeCAD's main thread and its answer comes back.  *)
(*                                                                         *)
(* Three kinds of threads: clients, each with one connection and at most   *)
(* one request under way; the bridge's worker thread, which accepts one    *)
(* connection at a time, queues each request it reads and waits ten        *)
(* seconds for the result; and the main thread, whose timer drains the     *)
(* queue and handles the requests one by one, and which stops the bridge.  *)
(*                                                                         *)
(* The main thread may be busy for any length of time, so a wait may time  *)
(* out at any moment before its result is there.                           *)
(***************************************************************************)
EXTENDS Integers, Sequences, FiniteSets

CONSTANTS
  Clients,      \* connections made in the life of one bridge
  MaxRequests,  \* bound: requests sent on each connection
  SentKinds,    \* the kinds of requests clients send
  None          \* no client, no request, no result

(* "forged" is an authentication with a wrong proof, "stale" an operation   *)
(* under another session epoch, "garbled" a frame that is not a request.    *)
Kinds == {"authenticate", "forged", "operation", "stale", "garbled"}

Requests == [from : Clients, n : Nat, kind : Kinds]

Outcomes == {"ok", "permission_denied", "session_unavailable", "bridge_busy",
             "connection_lost"}

Items   == [request : Requests, authenticated : BOOLEAN]
Results == [to : Requests, outcome : Outcomes, authenticated : BOOLEAN]

ASSUME QueueAssumption ==
  /\ MaxRequests \in [Clients -> Nat]
  /\ SentKinds \subseteq Kinds
  /\ None \notin Clients \cup Requests \cup Results

VARIABLES
  \* clients and their connections
  phase,          \* phase[c]: "new", "connected" or "gone"
  asked,          \* asked[c]: requests sent so far
  waiting,        \* waiting[c]: the request c has under way, or None
  wire,           \* wire[c]: frames sent by c that the worker has not read
  inbox,          \* inbox[c]: responses written to c that it has not read
  backlog,        \* connections made that the worker has not accepted
  \* the worker thread
  worker,         \* "check", "accept", "read", "wait" or "exited"
  serving,        \* the client whose connection it serves, or None
  authenticated,  \* serve_connection's local variable
  awaiting,       \* the request whose receiver it waits on, or None
  result,         \* what that receiver holds, or None
  \* shared with, and private to, the main thread
  pending,        \* BridgeState::pending, the queue
  batch,          \* requests drained by process_pending, not yet handled
  main,           \* "running", "joining" (inside stop) or "stopped"
  \* history variables
  executed,       \* operations that took effect, in order
  paired,         \* clients whose proof was verified
  answered        \* what clients were told: <<request, outcome>>

clientVars == <<phase, asked, waiting, wire, inbox, backlog>>
workerVars == <<worker, serving, authenticated, awaiting, result>>
mainVars   == <<batch, main, executed, paired>>

vars == <<phase, asked, waiting, wire, inbox, backlog,
          worker, serving, authenticated, awaiting, result,
          pending, batch, main, executed, paired, answered>>

Init ==
  /\ phase = [c \in Clients |-> "new"]
  /\ asked = [c \in Clients |-> 0]
  /\ waiting = [c \in Clients |-> None]
  /\ wire = [c \in Clients |-> << >>]
  /\ inbox = [c \in Clients |-> << >>]
  /\ backlog = << >>
  /\ worker = "check" /\ serving = None /\ authenticated = FALSE
  /\ awaiting = None /\ result = None
  /\ pending = << >> /\ batch = << >> /\ main = "running"
  /\ executed = << >> /\ paired = {} /\ answered = {}

(* BridgeState::stop, set by the main thread before it joins the worker.    *)
StopFlag == main # "running"

-----------------------------------------------------------------------------
(* Clients: IpcClient.                                                     *)

Connect(c) ==
  /\ phase[c] = "new"
  /\ worker # "exited"
  /\ phase' = [phase EXCEPT ![c] = "connected"]
  /\ backlog' = Append(backlog, c)
  /\ UNCHANGED <<asked, waiting, wire, inbox>>
  /\ UNCHANGED <<workerVars, mainVars, pending, answered>>

Ask(c, kind) ==
  LET request == [from |-> c, n |-> asked[c] + 1, kind |-> kind]
  IN  /\ phase[c] = "connected"
      /\ waiting[c] = None
      /\ asked[c] < MaxRequests[c]
      /\ asked' = [asked EXCEPT ![c] = @ + 1]
      /\ waiting' = [waiting EXCEPT ![c] = request]
      /\ wire' = [wire EXCEPT ![c] = Append(@, request)]
      /\ UNCHANGED <<phase, inbox, backlog>>
      /\ UNCHANGED <<workerVars, mainVars, pending, answered>>

Receive(c) ==
  /\ phase[c] = "connected"
  /\ inbox[c] # << >>
  /\ answered' = answered \cup {<<waiting[c], Head(inbox[c]).outcome>>}
  /\ inbox' = [inbox EXCEPT ![c] = Tail(@)]
  /\ waiting' = [waiting EXCEPT ![c] = None]
  /\ UNCHANGED <<phase, asked, wire, backlog>>
  /\ UNCHANGED <<workerVars, mainVars, pending>>

(* The client's process closes the connection or dies, whatever it waits    *)
(* for.  Frames it sent stay readable.                                      *)
HangUp(c) ==
  /\ phase[c] = "connected"
  /\ phase' = [phase EXCEPT ![c] = "gone"]
  /\ waiting' = [waiting EXCEPT ![c] = None]
  /\ UNCHANGED <<asked, wire, inbox, backlog>>
  /\ UNCHANGED <<workerVars, mainVars, pending, answered>>

-----------------------------------------------------------------------------
(* The worker thread: server_loop, serve_connection and enqueue.           *)

(* Mutant of Close: answers clients that have asked nothing.                *)
CloseAnswersAll(S) ==
  LET Lost == {c \in S : phase[c] = "connected"}
  IN  /\ phase' = [c \in Clients |-> IF c \in Lost THEN "gone" ELSE phase[c]]
      /\ answered' = answered \cup
           {<<waiting[c], "connection_lost">> : c \in Lost}
      /\ waiting' = [c \in Clients |->
                       IF c \in Lost THEN None ELSE waiting[c]]

(* The bridge closes connections: their clients get an I/O error.           *)
Close(S) ==
  LET Lost == {c \in S : phase[c] = "connected"}
  IN  /\ phase' = [c \in Clients |-> IF c \in Lost THEN "gone" ELSE phase[c]]
      /\ answered' = answered \cup
           {<<waiting[c], "connection_lost">> :
              c \in {d \in Lost : waiting[d] # None}}
      /\ waiting' = [c \in Clients |->
                       IF c \in Lost THEN None ELSE waiting[c]]

CheckStop ==
  /\ worker = "check"
  /\ IF StopFlag
       THEN /\ worker' = "exited"
            /\ Close({c \in Clients : \E i \in DOMAIN backlog : backlog[i] = c})
       ELSE /\ worker' = "accept"
            /\ UNCHANGED <<phase, answered, waiting>>
  /\ UNCHANGED <<serving, authenticated, awaiting, result>>
  /\ UNCHANGED <<asked, wire, inbox, backlog, mainVars, pending>>

(* Mutant of Accept: the flag is a variable of the loop, not of the         *)
(* connection.                                                              *)
AcceptKeepsProof ==
  /\ worker = "accept"
  /\ IF backlog = << >>
       THEN worker' = "check" /\ UNCHANGED <<serving, backlog>>
       ELSE /\ worker' = "read"
            /\ serving' = Head(backlog)
            /\ backlog' = Tail(backlog)
  /\ UNCHANGED <<phase, asked, waiting, wire, inbox>>
  /\ UNCHANGED <<authenticated, awaiting, result, mainVars, pending, answered>>

(* With nothing to accept, the loop sleeps and looks at the flag again.     *)
Accept ==
  /\ worker = "accept"
  /\ IF backlog = << >>
       THEN /\ worker' = "check"
            /\ UNCHANGED <<serving, authenticated, backlog>>
       ELSE /\ worker' = "read"
            /\ serving' = Head(backlog)
            /\ authenticated' = FALSE
            /\ backlog' = Tail(backlog)
  /\ UNCHANGED <<phase, asked, waiting, wire, inbox>>
  /\ UNCHANGED <<awaiting, result, mainVars, pending, answered>>

Enqueue ==
  /\ worker = "read"
  /\ wire[serving] # << >>
  /\ LET request == Head(wire[serving])
     IN  /\ request.kind # "garbled"
         /\ pending' = Append(pending, [request |-> request,
                                        authenticated |-> authenticated])
         /\ awaiting' = request
  /\ wire' = [wire EXCEPT ![serving] = Tail(@)]
  /\ worker' = "wait"
  /\ UNCHANGED <<phase, asked, waiting, inbox, backlog>>
  /\ UNCHANGED <<serving, authenticated, result, mainVars, answered>>

(* Mutant of ReadFails: an end of file is taken for a frame to come.        *)
ReadFailsOnGarbage ==
  /\ worker = "read"
  /\ wire[serving] # << >> /\ Head(wire[serving]).kind = "garbled"
  /\ Close({serving})
  /\ serving' = None
  /\ worker' = "check"
  /\ UNCHANGED <<asked, wire, inbox, backlog>>
  /\ UNCHANGED <<authenticated, awaiting, result, mainVars, pending>>

(* read_frame fails: end of file, or a frame that does not decode.          *)
ReadFails ==
  /\ worker = "read"
  /\ \/ wire[serving] = << >> /\ phase[serving] = "gone"
     \/ wire[serving] # << >> /\ Head(wire[serving]).kind = "garbled"
  /\ Close({serving})
  /\ serving' = None
  /\ worker' = "check"
  /\ UNCHANGED <<asked, wire, inbox, backlog>>
  /\ UNCHANGED <<authenticated, awaiting, result, mainVars, pending>>

(* The result, or the answer on timeout, goes to the connection; writing to *)
(* a closed one ends its service.                                           *)
Respond(response) ==
  /\ authenticated' = response.authenticated
  /\ awaiting' = None
  /\ result' = None
  /\ IF phase[serving] = "connected"
       THEN /\ inbox' = [inbox EXCEPT ![serving] = Append(@, response)]
            /\ worker' = "read"
            /\ UNCHANGED serving
       ELSE /\ serving' = None
            /\ worker' = "check"
            /\ UNCHANGED inbox
  /\ UNCHANGED <<phase, asked, waiting, wire, backlog>>
  /\ UNCHANGED <<mainVars, pending, answered>>

Reply == worker = "wait" /\ result # None /\ Respond(result)

(* Mutant of Timeout: recv instead of recv_timeout.                         *)
TimeoutNever == FALSE

(* recv_timeout gives up.  The request stays in the queue, or in the batch. *)
Timeout ==
  /\ worker = "wait"
  /\ result = None
  /\ Respond([to |-> awaiting, outcome |-> "bridge_busy",
              authenticated |-> authenticated])

Worker ==
  CheckStop \/ Accept \/ Enqueue \/ ReadFails \/ Reply \/ Timeout

-----------------------------------------------------------------------------
(* The main thread: process_pending, handle and stop.                      *)

(* Mutant of Poll: copies the queue instead of draining it.                 *)
PollCopies ==
  /\ main = "running"
  /\ batch = << >>
  /\ pending # << >>
  /\ batch' = pending
  /\ UNCHANGED <<clientVars, workerVars, main, executed, paired, answered>>
  /\ UNCHANGED pending

Poll ==
  /\ main = "running"
  /\ batch = << >>
  /\ pending # << >>
  /\ batch' = pending
  /\ pending' = << >>
  /\ UNCHANGED <<clientVars, workerVars, main, executed, paired, answered>>

Executes(item) == item.authenticated /\ item.request.kind = "operation"

Handled(item) ==
  LET kind == item.request.kind
      Result(outcome, auth) ==
        [to |-> item.request, outcome |-> outcome, authenticated |-> auth]
  IN  CASE kind = "authenticate" -> Result("ok", TRUE)
        [] kind = "forged" -> Result("permission_denied", FALSE)
        [] kind # "authenticate" /\ kind # "forged"
             /\ ~ item.authenticated -> Result("permission_denied", FALSE)
        [] kind = "stale" /\ item.authenticated ->
             Result("session_unavailable", TRUE)
        [] Executes(item) -> Result("ok", TRUE)

(* Mutant of Send: one channel for all requests.                            *)
SendToWhoeverWaits(item) ==
  result' = IF awaiting # None THEN Handled(item) ELSE result

(* A result sent on a channel whose receiver has given up is dropped.       *)
Send(item) ==
  result' = IF awaiting = item.request THEN Handled(item) ELSE result

Handle ==
  /\ batch # << >>
  /\ LET item == Head(batch)
     IN  /\ executed' = IF Executes(item) THEN Append(executed, item.request)
                        ELSE executed
         /\ paired' = IF item.request.kind = "authenticate"
                        THEN paired \cup {item.request.from} ELSE paired
         /\ Send(item)
  /\ batch' = Tail(batch)
  /\ UNCHANGED <<clientVars, worker, serving, authenticated, awaiting>>
  /\ UNCHANGED <<pending, main, answered>>

(* stop sets the flag, stops the timer and joins the worker.                *)
Stop ==
  /\ main = "running"
  /\ batch = << >>
  /\ main' = "joining"
  /\ UNCHANGED <<clientVars, workerVars, pending, batch, executed, paired,
                 answered>>

Joined ==
  /\ main = "joining"
  /\ worker = "exited"
  /\ main' = "stopped"
  /\ UNCHANGED <<clientVars, workerVars, pending, batch, executed, paired,
                 answered>>

-----------------------------------------------------------------------------

Next ==
  \/ \E c \in Clients : Connect(c) \/ Receive(c) \/ HangUp(c)
  \/ \E c \in Clients, kind \in SentKinds : Ask(c, kind)
  \/ CheckStop \/ Accept \/ Enqueue \/ ReadFails \/ Reply \/ Timeout
  \/ Poll \/ Handle \/ Stop \/ Joined

(* The worker thread is scheduled, its clock runs and a join returns once   *)
(* the thread has ended.  Clients read what they are sent.  Nothing is      *)
(* assumed of the main thread's timer: FreeCAD may be busy for ever.        *)
Fairness ==
  /\ WF_vars(Worker)
  /\ WF_vars(Joined)
  /\ \A c \in Clients : WF_vars(Receive(c))

Spec == Init /\ [][Next]_vars /\ Fairness

-----------------------------------------------------------------------------

TypeOK ==
  /\ phase \in [Clients -> {"new", "connected", "gone"}]
  /\ asked \in [Clients -> Nat]
  /\ waiting \in [Clients -> Requests \cup {None}]
  /\ wire \in [Clients -> Seq(Requests)]
  /\ inbox \in [Clients -> Seq(Results)]
  /\ backlog \in Seq(Clients)
  /\ worker \in {"check", "accept", "read", "wait", "exited"}
  /\ serving \in Clients \cup {None}
  /\ authenticated \in BOOLEAN
  /\ awaiting \in Requests \cup {None}
  /\ result \in Results \cup {None}
  /\ pending \in Seq(Items) /\ batch \in Seq(Items)
  /\ main \in {"running", "joining", "stopped"}
  /\ executed \in Seq(Requests)
  /\ paired \subseteq Clients
  /\ answered \subseteq Requests \X Outcomes

(* Requests take effect at most once and, on one connection, in the order   *)
(* they were sent, even when a wait times out and the client goes on while  *)
(* its request is still queued (enqueue, process_pending).                  *)
ExecutedInOrder ==
  \A i, j \in DOMAIN executed :
    i < j /\ executed[i].from = executed[j].from
      => executed[i].n < executed[j].n

(* A response a client can read answers the request it waits for, although  *)
(* a timeout reply carries no request id, the client compares none, and a   *)
(* late result may exist; and if it says "ok", the operation was executed   *)
(* (enqueue's channel per request).                                         *)
ResponsesMatch ==
  /\ \A c \in Clients :
       phase[c] = "connected" =>
         \A i \in DOMAIN inbox[c] : inbox[c][i].to = waiting[c]
  /\ \A a \in answered :
       a[2] = "ok" /\ a[1].kind = "operation" =>
         \E i \in DOMAIN executed : executed[i] = a[1]

(* An operation takes effect only on a connection whose own client proved   *)
(* the pairing secret: what one connection proved is of no use to the next  *)
(* (serve_connection, handle).                                              *)
OnlyPairedAct == \A i \in DOMAIN executed : executed[i].from \in paired

(* A client told bridge_busy may conclude that its request was not executed *)
(* and will not be.                                                         *)
BusyMeansNotExecuted ==
  \A a \in answered :
    a[2] = "bridge_busy" => \A i \in DOMAIN executed : executed[i] # a[1]

(* A request on the connection being served is answered, the connection     *)
(* closed or given up, even if the main thread never polls again (enqueue's *)
(* ten seconds).  Connections are served in turn: a client in the backlog   *)
(* is accepted, or the client being served keeps its connection for ever    *)
(* (server_loop has one thread).  After a stop the backlog is closed.       *)
EveryWaitEnds ==
  \A c \in Clients :
    /\ (serving = c /\ waiting[c] # None) ~> (waiting[c] = None)
    /\ []<>(serving = None) =>
         ((phase[c] = "connected" /\ waiting[c] # None) ~> (waiting[c] = None))

(* stop returns once no client keeps its connection open: requests under    *)
(* way, timed out or queued do not keep the worker from ending (stop joins  *)
(* the worker on the main thread, which then handles no request).           *)
StopReturns ==
  <>[](\A c \in Clients : phase[c] # "connected") =>
    ((main = "joining") ~> (main = "stopped"))

=============================================================================
