------------------------- MODULE BridgeQueueProofs -------------------------
(***************************************************************************)
(* Proofs about requests on their way to FreeCAD's main thread and back,   *)
(* for any number of connections and of requests on each.                  *)
(***************************************************************************)
EXTENDS BridgeQueue, TLAPS

-----------------------------------------------------------------------------
(* The inductive invariant. *)

(* The worker's local variables, by where it is.  A channel holds nothing   *)
(* but the result of the request it was made for.                           *)
WorkerLocals ==
  /\ worker \in {"read", "wait"} <=> serving # None
  /\ worker = "wait" <=> awaiting # None
  /\ awaiting # None => awaiting.from = serving
  /\ result # None => awaiting # None /\ result.to = awaiting

Awaited(c) == awaiting # None /\ awaiting.from = c

(* The request of a client that is still there is in one place at a time:   *)
(* sent, with the worker, or answered.                                      *)
OneUnderWay ==
  \A c \in Clients :
    /\ Len(wire[c]) <= 1
    /\ wire[c] # << >> => wire[c][1].from = c
    /\ phase[c] # "gone" =>
         /\ wire[c] # << >> => waiting[c] = wire[c][1]
         /\ Awaited(c) => waiting[c] = awaiting
         /\ Len(inbox[c]) <= 1
         /\ inbox[c] # << >> => waiting[c] = inbox[c][1].to
         /\ wire[c] # << >> => ~ Awaited(c) /\ inbox[c] = << >>
         /\ Awaited(c) => inbox[c] = << >>

(* Whoever says "ok" to an operation says so after it was executed.         *)
Supported(request, outcome, done) ==
  outcome = "ok" /\ request.kind = "operation" =>
    \E i \in DOMAIN done : done[i] = request

OkIsExecuted ==
  /\ result # None => Supported(result.to, result.outcome, executed)
  /\ \A c \in Clients : \A i \in DOMAIN inbox[c] :
       Supported(inbox[c][i].to, inbox[c][i].outcome, executed)
  /\ \A a \in answered : Supported(a[1], a[2], executed)

(* What is marked as authenticated comes from a client that proved the      *)
(* secret.  What is queued has been decoded.                                *)
Vouched(items, proved) ==
  \A i \in DOMAIN items :
    /\ items[i].request.kind # "garbled"
    /\ items[i].authenticated => items[i].request.from \in proved

OnlyPairedTrusted ==
  /\ serving # None /\ authenticated => serving \in paired
  /\ Vouched(pending, paired) /\ Vouched(batch, paired)
  /\ result # None /\ result.authenticated => result.to.from \in paired

(* Requests in the order they were sent in, connection by connection.       *)
Before(r, s) == r.from = s.from => r.n < s.n

Sorted(q) == \A i, j \in DOMAIN q : i < j => Before(q[i], q[j])

Precedes(p, q) == \A i \in DOMAIN p, j \in DOMAIN q : Before(p[i], q[j])

Frames(items) == [i \in DOMAIN items |-> items[i].request]

Numbered(q, last) == \A i \in DOMAIN q : q[i].n <= last[q[i].from]

(* From the oldest to the youngest: executed, drained, queued, sent.        *)
FirstSentFirst ==
  /\ Sorted(executed) /\ Sorted(Frames(batch)) /\ Sorted(Frames(pending))
  /\ Precedes(executed, Frames(batch)) /\ Precedes(executed, Frames(pending))
  /\ Precedes(Frames(batch), Frames(pending))
  /\ \A c \in Clients :
       /\ Precedes(executed, wire[c]) /\ Precedes(Frames(batch), wire[c])
       /\ Precedes(Frames(pending), wire[c]) /\ Numbered(wire[c], asked)
  /\ Numbered(executed, asked)
  /\ Numbered(Frames(batch), asked) /\ Numbered(Frames(pending), asked)

IInv ==
  /\ TypeOK /\ WorkerLocals /\ OneUnderWay /\ OkIsExecuted
  /\ OnlyPairedTrusted /\ OnlyPairedAct /\ FirstSentFirst

-----------------------------------------------------------------------------
(* Queues. *)

LEMMA AppendElements ==
  ASSUME NEW S, NEW q \in Seq(S), NEW e \in S
  PROVE  /\ Append(q, e) \in Seq(S)
         /\ Len(Append(q, e)) = Len(q) + 1
         /\ DOMAIN Append(q, e) = 1 .. Len(q) + 1
         /\ \A i \in DOMAIN q : Append(q, e)[i] = q[i]
         /\ Append(q, e)[Len(q) + 1] = e
         /\ DOMAIN q = 1 .. Len(q) /\ Len(q) \in Nat
OBVIOUS

LEMMA AppendIndices ==
  ASSUME NEW S, NEW q \in Seq(S), NEW e \in S
  PROVE  \A i \in DOMAIN Append(q, e) : i \in DOMAIN q \/ i = Len(q) + 1
BY AppendElements

LEMMA TailElements ==
  ASSUME NEW S, NEW q \in Seq(S), q # << >>
  PROVE  /\ Tail(q) \in Seq(S) /\ Head(q) \in S /\ Head(q) = q[1]
         /\ Len(Tail(q)) = Len(q) - 1
         /\ DOMAIN Tail(q) = 1 .. Len(q) - 1
         /\ \A i \in DOMAIN Tail(q) :
              i + 1 \in DOMAIN q /\ Tail(q)[i] = q[i + 1]
         /\ DOMAIN q = 1 .. Len(q) /\ Len(q) \in Nat \ {0} /\ 1 \in DOMAIN q
OBVIOUS

LEMMA EmptyIsSorted ==
  ASSUME NEW q, NEW last
  PROVE  /\ Sorted(<< >>) /\ Precedes(<< >>, q) /\ Precedes(q, << >>)
         /\ Numbered(<< >>, last)
BY DEF Sorted, Precedes, Numbered

LEMMA AppendInOrder ==
  ASSUME NEW q \in Seq(Requests), NEW r \in Requests, NEW last,
         \A i \in DOMAIN q : Before(q[i], r)
  PROVE  /\ Sorted(q) => Sorted(Append(q, r))
         /\ Numbered(q, last) /\ r.n <= last[r.from] =>
              Numbered(Append(q, r), last)
<1>1. /\ \A i \in DOMAIN q : Append(q, r)[i] = q[i]
      /\ Append(q, r)[Len(q) + 1] = r
      /\ DOMAIN q = 1 .. Len(q) /\ Len(q) \in Nat
      /\ \A i \in DOMAIN Append(q, r) : i \in DOMAIN q \/ i = Len(q) + 1
  BY AppendElements, AppendIndices
<1>2. ASSUME Sorted(q),
             NEW i \in DOMAIN Append(q, r), NEW j \in DOMAIN Append(q, r), i < j
      PROVE  Before(Append(q, r)[i], Append(q, r)[j])
  <2>1. i \in DOMAIN q
    BY <1>1, <1>2
  <2>2. CASE j \in DOMAIN q
    BY <1>1, <1>2, <2>1, <2>2 DEF Sorted
  <2>3. CASE j = Len(q) + 1
    BY <1>1, <2>1, <2>3
  <2> QED BY <1>1, <2>2, <2>3
<1> QED BY <1>1, <1>2 DEF Sorted, Numbered

LEMMA AppendLeft ==
  ASSUME NEW p \in Seq(Requests), NEW q \in Seq(Requests), NEW r \in Requests,
         Precedes(p, q), \A i \in DOMAIN q : Before(r, q[i])
  PROVE  Precedes(Append(p, r), q)
BY AppendElements, AppendIndices DEF Precedes

LEMMA AppendRight ==
  ASSUME NEW p \in Seq(Requests), NEW q \in Seq(Requests), NEW r \in Requests,
         Precedes(p, q), \A i \in DOMAIN p : Before(p[i], r)
  PROVE  Precedes(p, Append(q, r))
BY AppendElements, AppendIndices DEF Precedes

LEMMA TailInOrder ==
  ASSUME NEW q \in Seq(Requests), q # << >>, NEW last
  PROVE  /\ Sorted(q) => /\ Sorted(Tail(q))
                         /\ \A i \in DOMAIN Tail(q) : Before(Head(q), Tail(q)[i])
         /\ Numbered(q, last) => /\ Numbered(Tail(q), last)
                                 /\ Head(q).n <= last[Head(q).from]
<1>1. /\ Head(q) = q[1]
      /\ DOMAIN Tail(q) = 1 .. Len(q) - 1
      /\ \A i \in DOMAIN Tail(q) : i + 1 \in DOMAIN q /\ Tail(q)[i] = q[i + 1]
      /\ DOMAIN q = 1 .. Len(q) /\ Len(q) \in Nat \ {0} /\ 1 \in DOMAIN q
  BY TailElements
<1>2. ASSUME Sorted(q)
      PROVE  /\ Sorted(Tail(q))
             /\ \A i \in DOMAIN Tail(q) : Before(Head(q), Tail(q)[i])
  <2>1. ASSUME NEW i \in DOMAIN Tail(q), NEW j \in DOMAIN Tail(q), i < j
        PROVE  Before(Tail(q)[i], Tail(q)[j])
    <3>1. i + 1 \in DOMAIN q /\ j + 1 \in DOMAIN q /\ i + 1 < j + 1
      BY <1>1, <2>1
    <3> QED BY <1>1, <1>2, <3>1 DEF Sorted
  <2>2. ASSUME NEW i \in DOMAIN Tail(q)
        PROVE  Before(Head(q), Tail(q)[i])
    <3>1. i + 1 \in DOMAIN q /\ 1 < i + 1
      BY <1>1
    <3> QED BY <1>1, <1>2, <3>1 DEF Sorted
  <2> QED BY <2>1, <2>2 DEF Sorted
<1>3. Numbered(q, last) => /\ Numbered(Tail(q), last)
                           /\ Head(q).n <= last[Head(q).from]
  BY <1>1 DEF Numbered
<1> QED BY <1>2, <1>3

LEMMA TailPrecedes ==
  ASSUME NEW p \in Seq(Requests), p # << >>, NEW q, Precedes(p, q)
  PROVE  /\ Precedes(Tail(p), q)
         /\ \A i \in DOMAIN q : Before(Head(p), q[i])
BY TailElements DEF Precedes

LEMMA PrecedesTail ==
  ASSUME NEW p, NEW q \in Seq(Requests), q # << >>, Precedes(p, q)
  PROVE  /\ Precedes(p, Tail(q))
         /\ \A i \in DOMAIN p : Before(p[i], Head(q))
BY TailElements DEF Precedes

LEMMA FramesType ==
  ASSUME NEW q \in Seq(Items)
  PROVE  /\ Frames(q) \in Seq(Requests) /\ Len(Frames(q)) = Len(q)
         /\ DOMAIN Frames(q) = DOMAIN q
         /\ \A i \in DOMAIN q : Frames(q)[i] = q[i].request
<1>1. /\ DOMAIN q = 1 .. Len(q) /\ Len(q) \in Nat
      /\ \A i \in DOMAIN q : q[i].request \in Requests
  <2>1. \A i \in DOMAIN q : q[i] \in Items
    OBVIOUS
  <2> QED BY <2>1 DEF Items
<1>2. Frames(q) \in [1 .. Len(q) -> Requests]
  BY <1>1 DEF Frames
<1> QED BY <1>1, <1>2 DEF Frames

LEMMA FramesAppend ==
  ASSUME NEW q \in Seq(Items), NEW x \in Items
  PROVE  Frames(Append(q, x)) = Append(Frames(q), x.request)
<1>1. x.request \in Requests
  BY DEF Items
<1>2. Append(q, x) \in Seq(Items)
  OBVIOUS
<1>3. /\ Frames(q) \in Seq(Requests) /\ Len(Frames(q)) = Len(q)
      /\ DOMAIN Frames(q) = DOMAIN q
      /\ \A i \in DOMAIN q : Frames(q)[i] = q[i].request
  BY FramesType
<1>4. /\ Frames(Append(q, x)) \in Seq(Requests)
      /\ Len(Frames(Append(q, x))) = Len(q) + 1
      /\ \A i \in DOMAIN Append(q, x) :
           Frames(Append(q, x))[i] = Append(q, x)[i].request
  BY <1>2, FramesType, AppendElements
<1>5. ASSUME NEW i \in 1 .. Len(q) + 1
      PROVE  Frames(Append(q, x))[i] = Append(Frames(q), x.request)[i]
  BY <1>1, <1>3, <1>4, AppendElements
<1>6. /\ Append(Frames(q), x.request) \in Seq(Requests)
      /\ Len(Append(Frames(q), x.request)) = Len(q) + 1
  BY <1>1, <1>3
<1> QED BY <1>4, <1>5, <1>6

LEMMA FramesTail ==
  ASSUME NEW q \in Seq(Items), q # << >>
  PROVE  /\ Frames(q) # << >> /\ Head(Frames(q)) = Head(q).request
         /\ Frames(Tail(q)) = Tail(Frames(q))
<1>1. /\ Frames(q) \in Seq(Requests) /\ Len(Frames(q)) = Len(q)
      /\ DOMAIN Frames(q) = DOMAIN q
      /\ \A i \in DOMAIN q : Frames(q)[i] = q[i].request
  BY FramesType
<1>2. /\ Tail(q) \in Seq(Items) /\ Len(Tail(q)) = Len(q) - 1
      /\ DOMAIN Tail(q) = 1 .. Len(q) - 1
      /\ \A i \in DOMAIN Tail(q) : i + 1 \in DOMAIN q /\ Tail(q)[i] = q[i + 1]
      /\ Len(q) \in Nat \ {0} /\ 1 \in DOMAIN q /\ Head(q) = q[1]
  BY TailElements
<1>3. Frames(q) # << >>
  BY <1>1, <1>2
<1>4. /\ Frames(Tail(q)) \in Seq(Requests)
      /\ Len(Frames(Tail(q))) = Len(q) - 1
      /\ \A i \in DOMAIN Tail(q) : Frames(Tail(q))[i] = Tail(q)[i].request
  BY <1>2, FramesType
<1>5. /\ Tail(Frames(q)) \in Seq(Requests)
      /\ Len(Tail(Frames(q))) = Len(q) - 1
      /\ \A i \in 1 .. Len(q) - 1 : Tail(Frames(q))[i] = Frames(q)[i + 1]
      /\ Head(Frames(q)) = Frames(q)[1]
  BY <1>1, <1>3, TailElements
<1>6. ASSUME NEW i \in 1 .. Len(q) - 1
      PROVE  Frames(Tail(q))[i] = Tail(Frames(q))[i]
  BY <1>1, <1>2, <1>4, <1>5
<1>7. Head(Frames(q)) = Head(q).request
  BY <1>1, <1>2, <1>5
<1> QED BY <1>3, <1>4, <1>5, <1>6, <1>7

-----------------------------------------------------------------------------
(* Closing, answering, handling. *)

LEMMA CloseEffect ==
  ASSUME TypeOK, NEW S \in SUBSET Clients, Close(S)
  PROVE  /\ phase' \in [Clients -> {"new", "connected", "gone"}]
         /\ waiting' \in [Clients -> Requests \cup {None}]
         /\ \A c \in Clients :
              \/ phase'[c] = phase[c] /\ waiting'[c] = waiting[c]
              \/ phase'[c] = "gone"
         /\ answered' \subseteq Requests \X Outcomes
         /\ \A a \in answered' : a \in answered \/ a[2] = "connection_lost"
<1> DEFINE Lost == {c \in S : phase[c] = "connected"}
<1>1. /\ phase' = [c \in Clients |-> IF c \in Lost THEN "gone" ELSE phase[c]]
      /\ answered' = answered \cup {<<waiting[c], "connection_lost">> :
                                      c \in {d \in Lost : waiting[d] # None}}
      /\ waiting' = [c \in Clients |-> IF c \in Lost THEN None ELSE waiting[c]]
  BY DEF Close
<1>2. /\ phase' \in [Clients -> {"new", "connected", "gone"}]
      /\ waiting' \in [Clients -> Requests \cup {None}]
      /\ \A c \in Clients :
           \/ phase'[c] = phase[c] /\ waiting'[c] = waiting[c]
           \/ phase'[c] = "gone"
  BY <1>1 DEF TypeOK
<1>3. ASSUME NEW a \in answered', a \notin answered
      PROVE  a \in Requests \X Outcomes /\ a[2] = "connection_lost"
  <2>1. PICK c \in {d \in Lost : waiting[d] # None} :
          a = <<waiting[c], "connection_lost">>
    BY <1>1, <1>3
  <2>2. c \in Clients
    OBVIOUS
  <2> QED BY <2>1, <2>2 DEF TypeOK, Outcomes
<1> QED BY <1>2, <1>3 DEF TypeOK

LEMMA HandledIsAnswer ==
  ASSUME NEW item \in Items, item.request.kind # "garbled"
  PROVE  /\ Handled(item) \in Results /\ Handled(item).to = item.request
         /\ Handled(item).authenticated =>
              item.authenticated \/ item.request.kind = "authenticate"
         /\ Handled(item).outcome = "ok" /\ item.request.kind = "operation" =>
              Executes(item)
<1>1. /\ item.request \in Requests /\ item.authenticated \in BOOLEAN
      /\ item.request.kind \in {"authenticate", "forged", "operation", "stale"}
  BY DEF Items, Requests, Kinds
<1>2. ASSUME NEW outcome \in Outcomes, NEW auth \in BOOLEAN,
             Handled(item) = [to |-> item.request, outcome |-> outcome,
                              authenticated |-> auth]
      PROVE  /\ Handled(item) \in Results /\ Handled(item).to = item.request
             /\ Handled(item).outcome = outcome
             /\ Handled(item).authenticated = auth
  BY <1>1, <1>2 DEF Results
<1> USE DEF Outcomes
<1>3. CASE item.request.kind = "authenticate"
  <2>1. Handled(item) = [to |-> item.request, outcome |-> "ok",
                         authenticated |-> TRUE]
    BY <1>3 DEF Handled, Executes
  <2> QED BY <1>2, <1>3, <2>1
<1>4. CASE item.request.kind = "forged"
  <2>1. Handled(item) = [to |-> item.request, outcome |-> "permission_denied",
                         authenticated |-> FALSE]
    BY <1>4 DEF Handled, Executes
  <2> QED BY <1>2, <1>4, <2>1
<1>5. CASE /\ item.request.kind \in {"operation", "stale"}
           /\ ~ item.authenticated
  <2>1. Handled(item) = [to |-> item.request, outcome |-> "permission_denied",
                         authenticated |-> FALSE]
    BY <1>5 DEF Handled, Executes
  <2> QED BY <1>2, <1>5, <2>1
<1>6. CASE item.request.kind = "stale" /\ item.authenticated
  <2>1. Handled(item) = [to |-> item.request, outcome |-> "session_unavailable",
                         authenticated |-> TRUE]
    BY <1>6 DEF Handled, Executes
  <2> QED BY <1>2, <1>6, <2>1
<1>7. CASE item.request.kind = "operation" /\ item.authenticated
  <2>1. Handled(item) = [to |-> item.request, outcome |-> "ok",
                         authenticated |-> TRUE]
    BY <1>7 DEF Handled, Executes
  <2> QED BY <1>2, <1>7, <2>1 DEF Executes
<1> QED BY <1>1, <1>3, <1>4, <1>5, <1>6, <1>7

(* What the worker writes back: the result of the request it waits on, or   *)
(* that it has waited long enough.                                          *)
LEMMA Answering ==
  ASSUME TypeOK, WorkerLocals, Reply \/ Timeout
  PROVE  \E response \in Results :
           /\ Respond(response)
           /\ worker = "wait" /\ serving \in Clients
           /\ awaiting \in Requests /\ awaiting.from = serving
           /\ response.to = awaiting
           /\ \/ result # None /\ response = result
              \/ /\ response.outcome = "bridge_busy"
                 /\ response.authenticated = authenticated
<1>1. /\ worker = "wait" /\ serving \in Clients
      /\ awaiting \in Requests /\ awaiting.from = serving
  BY DEF TypeOK, WorkerLocals, Reply, Timeout
<1>2. CASE Reply
  <2>1. result \in Results /\ result.to = awaiting
    BY <1>2 DEF Reply, TypeOK, WorkerLocals
  <2> QED BY <1>1, <1>2, <2>1 DEF Reply
<1>3. CASE Timeout
  <2> DEFINE busy == [to |-> awaiting, outcome |-> "bridge_busy",
                      authenticated |-> authenticated]
  <2>1. /\ busy \in Results /\ busy.to = awaiting
        /\ busy.outcome = "bridge_busy" /\ busy.authenticated = authenticated
    BY <1>1 DEF Results, Outcomes, TypeOK
  <2>2. Respond(busy)
    BY <1>3 DEF Timeout
  <2> QED BY <1>1, <2>1, <2>2
<1> QED BY <1>2, <1>3

-----------------------------------------------------------------------------

LEMMA InitInvariant == Init => IInv
<1> SUFFICES ASSUME Init PROVE IInv
  OBVIOUS
<1> USE DEF Init
<1>1. TypeOK
  <2>1. /\ << >> \in Seq(Requests) /\ << >> \in Seq(Results)
        /\ << >> \in Seq(Clients) /\ << >> \in Seq(Items)
    OBVIOUS
  <2> QED BY <2>1 DEF TypeOK
<1>2. WorkerLocals /\ OneUnderWay /\ OkIsExecuted
  BY DEF WorkerLocals, OneUnderWay, OkIsExecuted, Awaited
<1>3. OnlyPairedTrusted /\ OnlyPairedAct
  BY DEF OnlyPairedTrusted, OnlyPairedAct, Vouched
<1>4. FirstSentFirst
  <2>1. Frames(<< >>) = << >>
    BY DEF Frames
  <2> QED BY <2>1, EmptyIsSorted DEF FirstSentFirst
<1> QED BY <1>1, <1>2, <1>3, <1>4 DEF IInv

LEMMA TypeStep ==
  ASSUME TypeOK, WorkerLocals, OneUnderWay, OnlyPairedTrusted, Next
  PROVE  TypeOK'
<1> USE QueueAssumption
<1>1. ASSUME NEW c \in Clients, Connect(c)
      PROVE  TypeOK'
  <2>1. Append(backlog, c) \in Seq(Clients)
    BY DEF TypeOK
  <2> QED BY <1>1, <2>1 DEF Connect, TypeOK, workerVars, mainVars
<1>2. ASSUME NEW c \in Clients, Receive(c)
      PROVE  TypeOK'
  <2>1. inbox[c] \in Seq(Results) /\ inbox[c] # << >> /\ phase[c] = "connected"
    BY <1>2 DEF Receive, TypeOK
  <2>2. /\ Tail(inbox[c]) \in Seq(Results) /\ Head(inbox[c]) \in Results
        /\ Head(inbox[c]) = inbox[c][1]
    BY <2>1, TailElements
  <2>3. <<waiting[c], Head(inbox[c]).outcome>> \in Requests \X Outcomes
    BY <2>1, <2>2 DEF OneUnderWay, Results
  <2>4. answered' \subseteq Requests \X Outcomes
    BY <1>2, <2>3 DEF Receive, TypeOK
  <2> QED BY <1>2, <2>2, <2>4 DEF Receive, TypeOK, workerVars, mainVars
<1>3. ASSUME NEW c \in Clients, HangUp(c)
      PROVE  TypeOK'
  BY <1>3 DEF HangUp, TypeOK, workerVars, mainVars
<1>4. ASSUME NEW c \in Clients, NEW kind \in SentKinds, Ask(c, kind)
      PROVE  TypeOK'
  <2> DEFINE request == [from |-> c, n |-> asked[c] + 1, kind |-> kind]
  <2>1. request \in Requests
    BY DEF TypeOK, Requests
  <2>2. /\ asked' = [asked EXCEPT ![c] = @ + 1]
        /\ waiting' = [waiting EXCEPT ![c] = request]
        /\ wire' = [wire EXCEPT ![c] = Append(@, request)]
        /\ UNCHANGED <<phase, inbox, backlog>>
        /\ UNCHANGED <<workerVars, mainVars, pending, answered>>
    BY <1>4 DEF Ask
  <2> HIDE DEF request
  <2>3. Append(wire[c], request) \in Seq(Requests)
    BY <2>1 DEF TypeOK
  <2>4. asked' \in [Clients -> Nat]
    BY <2>2 DEF TypeOK
  <2>5. waiting' \in [Clients -> Requests \cup {None}]
    BY <2>1, <2>2 DEF TypeOK
  <2>6. wire' \in [Clients -> Seq(Requests)]
    BY <2>2, <2>3 DEF TypeOK
  <2> QED BY <2>2, <2>4, <2>5, <2>6 DEF TypeOK, workerVars, mainVars
<1>5. CASE CheckStop
  <2>1. /\ worker' \in {"exited", "accept"}
        /\ UNCHANGED <<serving, authenticated, awaiting, result>>
        /\ UNCHANGED <<asked, wire, inbox, backlog, mainVars, pending>>
    BY <1>5 DEF CheckStop
  <2>2. \/ UNCHANGED <<phase, answered, waiting>>
        \/ Close({c \in Clients : \E i \in DOMAIN backlog : backlog[i] = c})
    BY <1>5 DEF CheckStop
  <2>3. /\ phase' \in [Clients -> {"new", "connected", "gone"}]
        /\ waiting' \in [Clients -> Requests \cup {None}]
        /\ answered' \subseteq Requests \X Outcomes
    <3>1. {c \in Clients : \E i \in DOMAIN backlog : backlog[i] = c}
            \in SUBSET Clients
      OBVIOUS
    <3> QED BY <2>2, <3>1, CloseEffect DEF TypeOK
  <2> QED BY <2>1, <2>3 DEF TypeOK, mainVars
<1>6. CASE Accept
  <2>1. CASE backlog = << >>
    BY <1>6, <2>1 DEF Accept, TypeOK, mainVars
  <2>2. CASE backlog # << >>
    <3>1. Tail(backlog) \in Seq(Clients) /\ Head(backlog) \in Clients
      BY <2>2, TailElements DEF TypeOK
    <3> QED BY <1>6, <2>2, <3>1 DEF Accept, TypeOK, mainVars
  <2> QED BY <2>1, <2>2
<1>7. CASE Enqueue
  <2>1. /\ serving \in Clients
        /\ wire[serving] \in Seq(Requests) /\ wire[serving] # << >>
    BY <1>7 DEF Enqueue, WorkerLocals, TypeOK
  <2>2. /\ Tail(wire[serving]) \in Seq(Requests)
        /\ Head(wire[serving]) \in Requests
    BY <2>1, TailElements
  <2>3. [request |-> Head(wire[serving]), authenticated |-> authenticated]
          \in Items
    BY <2>2 DEF Items, TypeOK
  <2>4. pending' \in Seq(Items) /\ awaiting' \in Requests
    BY <1>7, <2>2, <2>3 DEF Enqueue, TypeOK
  <2> QED BY <1>7, <2>1, <2>2, <2>4 DEF Enqueue, TypeOK, mainVars
<1>8. CASE ReadFails
  <2>1. {serving} \in SUBSET Clients
    BY <1>8 DEF ReadFails, WorkerLocals, TypeOK
  <2>2. /\ phase' \in [Clients -> {"new", "connected", "gone"}]
        /\ waiting' \in [Clients -> Requests \cup {None}]
        /\ answered' \subseteq Requests \X Outcomes
    BY <1>8, <2>1, CloseEffect DEF ReadFails
  <2> QED BY <1>8, <2>2 DEF ReadFails, TypeOK, mainVars
<1>9. CASE Reply \/ Timeout
  <2>1. PICK response \in Results : Respond(response) /\ serving \in Clients
    BY <1>9, Answering
  <2>2. Append(inbox[serving], response) \in Seq(Results)
    BY <2>1 DEF TypeOK
  <2>3. /\ inbox' \in [Clients -> Seq(Results)] /\ worker' \in {"read", "check"}
        /\ serving' \in Clients \cup {None}
    BY <2>1, <2>2 DEF Respond, TypeOK
  <2>4. response.authenticated \in BOOLEAN
    BY DEF Results
  <2> QED BY <2>1, <2>3, <2>4 DEF Respond, TypeOK, mainVars
<1>10. CASE Poll
  <2>1. << >> \in Seq(Items)
    OBVIOUS
  <2> QED BY <1>10, <2>1 DEF Poll, TypeOK, clientVars, workerVars
<1>11. CASE Handle
  <2> DEFINE item == Head(batch)
  <2>1. /\ item \in Items /\ Tail(batch) \in Seq(Items)
        /\ item = batch[1] /\ 1 \in DOMAIN batch
    BY <1>11, TailElements DEF Handle, TypeOK
  <2>2. item.request \in Requests /\ item.request.kind # "garbled"
    BY <2>1 DEF Items, OnlyPairedTrusted, Vouched
  <2>3. /\ executed' \in {executed, Append(executed, item.request)}
        /\ paired' \in {paired, paired \cup {item.request.from}}
        /\ result' \in {result, Handled(item)} /\ batch' = Tail(batch)
        /\ UNCHANGED <<clientVars, worker, serving, authenticated, awaiting>>
        /\ UNCHANGED <<pending, main, answered>>
    BY <1>11 DEF Handle, Send
  <2>4. item.request.from \in Clients
    BY <2>2 DEF Requests
  <2> HIDE DEF item
  <2>5. Handled(item) \in Results
    BY <2>1, <2>2, HandledIsAnswer
  <2>6. executed' \in Seq(Requests)
    <3>1. executed \in Seq(Requests)
      BY DEF TypeOK
    <3>2. Append(executed, item.request) \in Seq(Requests)
      BY <2>2, <3>1, AppendElements
    <3> QED BY <2>3, <3>1, <3>2
  <2> QED BY <2>1, <2>3, <2>4, <2>5, <2>6 DEF TypeOK, clientVars
<1>12. CASE Stop \/ Joined
  BY <1>12 DEF Stop, Joined, TypeOK, clientVars, workerVars
<1> QED BY <1>1, <1>2, <1>3, <1>4, <1>5, <1>6, <1>7, <1>8, <1>9, <1>10, <1>11,
           <1>12 DEF Next

(* What the worker takes from the wire, and what the main thread from the   *)
(* batch.                                                                   *)
LEMMA Taking ==
  ASSUME TypeOK, WorkerLocals, OneUnderWay, Enqueue
  PROVE  /\ serving \in Clients /\ awaiting = None /\ result = None
         /\ wire[serving] \in Seq(Requests) /\ wire[serving] # << >>
         /\ Head(wire[serving]) \in Requests
         /\ Head(wire[serving]) = wire[serving][1]
         /\ Head(wire[serving]).from = serving
         /\ Head(wire[serving]).kind # "garbled"
         /\ awaiting' = Head(wire[serving])
         /\ Tail(wire[serving]) = << >>
         /\ wire'[serving] = << >>
         /\ \A c \in Clients \ {serving} : wire'[c] = wire[c]
         /\ LET item == [request |-> Head(wire[serving]),
                         authenticated |-> authenticated]
            IN  item \in Items /\ pending' = Append(pending, item)
<1> DEFINE q == wire[serving]
           item == [request |-> Head(q), authenticated |-> authenticated]
<1>1. /\ serving \in Clients /\ awaiting = None /\ result = None
      /\ q \in Seq(Requests) /\ q # << >>
  BY QueueAssumption DEF Enqueue, WorkerLocals, TypeOK
<1>2. Head(q) \in Requests /\ Head(q) = q[1] /\ Len(Tail(q)) = Len(q) - 1
      /\ Len(q) \in Nat \ {0} /\ Tail(q) \in Seq(Requests)
  <2> HIDE DEF q
  <2> QED BY <1>1, TailElements
<1>3. Head(q).from = serving /\ Len(q) <= 1
  BY <1>1, <1>2 DEF OneUnderWay
<1>4. Tail(q) = << >>
  <2> HIDE DEF q
  <2> QED BY <1>2, <1>3
<1>5. /\ awaiting' = Head(q) /\ wire' = [wire EXCEPT ![serving] = Tail(q)]
      /\ pending' = Append(pending, item) /\ Head(q).kind # "garbled"
  BY DEF Enqueue
<1>6. item \in Items
  BY <1>2 DEF Items, TypeOK
<1> QED BY <1>1, <1>2, <1>3, <1>4, <1>5, <1>6 DEF TypeOK

LEMMA Draining ==
  ASSUME TypeOK, OnlyPairedTrusted, Handle
  PROVE  /\ batch \in Seq(Items) /\ batch # << >> /\ Head(batch) \in Items
         /\ Head(batch).request \in Requests
         /\ Head(batch).request.from \in Clients
         /\ Head(batch).request.kind # "garbled"
         /\ Head(batch).authenticated => Head(batch).request.from \in paired
         /\ executed' = IF Executes(Head(batch))
                          THEN Append(executed, Head(batch).request)
                          ELSE executed
         /\ paired' = IF Head(batch).request.kind = "authenticate"
                        THEN paired \cup {Head(batch).request.from} ELSE paired
         /\ result' = IF awaiting = Head(batch).request
                        THEN Handled(Head(batch)) ELSE result
         /\ batch' = Tail(batch)
         /\ UNCHANGED <<phase, asked, waiting, wire, inbox, backlog, worker,
                        serving, authenticated, awaiting, pending, main,
                        answered>>
<1>1. /\ batch \in Seq(Items) /\ batch # << >> /\ Head(batch) \in Items
      /\ Head(batch) = batch[1] /\ 1 \in DOMAIN batch
  BY TailElements DEF Handle, TypeOK
<1>2. Head(batch).request \in Requests /\ Head(batch).request.from \in Clients
  BY <1>1 DEF Items, Requests
<1>3. /\ Head(batch).request.kind # "garbled"
      /\ Head(batch).authenticated => Head(batch).request.from \in paired
  BY <1>1 DEF OnlyPairedTrusted, Vouched
<1> QED BY <1>1, <1>2, <1>3 DEF Handle, Send, clientVars

LEMMA LocalsStep ==
  ASSUME TypeOK, WorkerLocals, OneUnderWay, OnlyPairedTrusted, Next
  PROVE  WorkerLocals'
<1> USE QueueAssumption
<1>1. CASE UNCHANGED workerVars
  BY <1>1 DEF WorkerLocals, workerVars
<1>2. CASE CheckStop
  BY <1>2 DEF CheckStop, WorkerLocals
<1>3. CASE Accept
  <2>1. backlog # << >> => Head(backlog) \in Clients
    BY TailElements DEF TypeOK
  <2> QED BY <1>3, <2>1 DEF Accept, WorkerLocals
<1>4. CASE Enqueue
  BY <1>4, Taking DEF Enqueue, WorkerLocals
<1>5. CASE ReadFails
  BY <1>5 DEF ReadFails, WorkerLocals
<1>6. CASE Reply \/ Timeout
  <2>1. PICK response \in Results :
          Respond(response) /\ worker = "wait" /\ serving \in Clients
    BY <1>6, Answering
  <2> QED BY <2>1 DEF Respond, WorkerLocals
<1>7. CASE Handle
  <2>1. Handled(Head(batch)).to = Head(batch).request
    BY <1>7, Draining, HandledIsAnswer
  <2> QED BY <1>7, <2>1, Draining DEF WorkerLocals
<1>8. (\E c \in Clients : Connect(c) \/ Receive(c) \/ HangUp(c)) \/
      (\E c \in Clients, kind \in SentKinds : Ask(c, kind)) \/
      Poll \/ Stop \/ Joined => UNCHANGED workerVars
  BY DEF Connect, Receive, HangUp, Ask, Poll, Stop, Joined
<1> QED BY <1>1, <1>2, <1>3, <1>4, <1>5, <1>6, <1>7, <1>8 DEF Next

LEMMA UnderWayStep ==
  ASSUME TypeOK, WorkerLocals, OneUnderWay, OnlyPairedTrusted, Next
  PROVE  OneUnderWay'
<1> USE QueueAssumption
<1>1. ASSUME UNCHANGED <<wire, inbox, awaiting>>,
             \A c \in Clients :
               \/ phase'[c] = "gone"
               \/ phase[c] # "gone" /\ waiting'[c] = waiting[c]
      PROVE  OneUnderWay'
  BY <1>1 DEF OneUnderWay, Awaited
<1>2. ASSUME NEW c \in Clients, Connect(c) \/ HangUp(c)
      PROVE  OneUnderWay'
  <2>1. UNCHANGED <<wire, inbox, awaiting>>
    BY <1>2 DEF Connect, HangUp, workerVars
  <2>2. /\ phase[c] # "gone"
        /\ waiting'[c] = waiting[c] \/ phase'[c] = "gone"
        /\ \A d \in Clients \ {c} : phase'[d] = phase[d] /\ waiting'[d] = waiting[d]
    BY <1>2 DEF Connect, HangUp, TypeOK
  <2> QED BY <1>1, <2>1, <2>2 DEF OneUnderWay, Awaited
<1>3. ASSUME NEW c \in Clients, Receive(c)
      PROVE  OneUnderWay'
  <2>1. /\ phase[c] = "connected" /\ inbox[c] # << >> /\ inbox[c] \in Seq(Results)
        /\ inbox' = [inbox EXCEPT ![c] = Tail(@)]
        /\ waiting' = [waiting EXCEPT ![c] = None]
        /\ UNCHANGED <<phase, wire, awaiting>>
    BY <1>3 DEF Receive, TypeOK, workerVars
  <2>2. wire[c] = << >> /\ ~ Awaited(c) /\ Len(inbox[c]) <= 1
    BY <2>1 DEF OneUnderWay
  <2>3. Tail(inbox[c]) = << >>
    <3>1. /\ Tail(inbox[c]) \in Seq(Results)
          /\ Len(Tail(inbox[c])) = Len(inbox[c]) - 1 /\ Len(inbox[c]) \in Nat \ {0}
      BY <2>1, TailElements
    <3> QED BY <2>2, <3>1
  <2>4. inbox'[c] = << >> /\ waiting'[c] = None
    BY <2>1, <2>3 DEF TypeOK
  <2>5. \A d \in Clients \ {c} : inbox'[d] = inbox[d] /\ waiting'[d] = waiting[d]
    BY <2>1 DEF TypeOK
  <2> QED BY <2>1, <2>2, <2>4, <2>5 DEF OneUnderWay, Awaited
<1>4. ASSUME NEW c \in Clients, NEW kind \in SentKinds, Ask(c, kind)
      PROVE  OneUnderWay'
  <2> DEFINE request == [from |-> c, n |-> asked[c] + 1, kind |-> kind]
  <2>1. /\ phase[c] = "connected" /\ waiting[c] = None
        /\ waiting' = [waiting EXCEPT ![c] = request]
        /\ wire' = [wire EXCEPT ![c] = Append(@, request)]
        /\ UNCHANGED <<phase, inbox, awaiting>> /\ request.from = c
    BY <1>4 DEF Ask, workerVars
  <2> HIDE DEF request
  <2>2. /\ wire[c] = << >> /\ inbox[c] = << >> /\ ~ Awaited(c)
    <3>1. wire[c] # << >> => wire[c][1] \in Requests
      BY TailElements DEF TypeOK
    <3>2. inbox[c] # << >> => inbox[c][1] \in Results
      BY TailElements DEF TypeOK
    <3> QED BY <2>1, <3>1, <3>2 DEF OneUnderWay, Awaited, TypeOK, Results
  <2>3. wire'[c] = <<request>> /\ waiting'[c] = request
    BY <2>1, <2>2 DEF TypeOK
  <2>4. \A d \in Clients \ {c} : wire'[d] = wire[d] /\ waiting'[d] = waiting[d]
    BY <2>1 DEF TypeOK
  <2>5. /\ wire'[c] # << >> /\ Len(wire'[c]) = 1 /\ wire'[c][1] = request
    BY <2>3
  <2> QED BY <2>1, <2>2, <2>3, <2>4, <2>5 DEF OneUnderWay, Awaited
<1>5. CASE CheckStop \/ ReadFails
  <2>1. PICK S \in SUBSET Clients : UNCHANGED <<phase, waiting>> \/ Close(S)
    BY <1>5 DEF CheckStop, ReadFails, WorkerLocals, TypeOK
  <2>2. \A c \in Clients : \/ phase'[c] = phase[c] /\ waiting'[c] = waiting[c]
                           \/ phase'[c] = "gone"
    BY <2>1, CloseEffect
  <2>3. UNCHANGED <<wire, inbox, awaiting>>
    BY <1>5 DEF CheckStop, ReadFails
  <2> QED BY <2>2, <2>3 DEF OneUnderWay, Awaited
<1>6. CASE Enqueue
  <2>1. UNCHANGED <<phase, waiting, inbox>>
    BY <1>6 DEF Enqueue
  <2>2. \A c \in Clients \ {serving} : ~ Awaited(c)'
    BY <1>6, Taking DEF Awaited
  <2> QED BY <1>6, <2>1, <2>2, Taking DEF OneUnderWay, Awaited
<1>7. CASE Reply \/ Timeout
  <2>1. PICK response \in Results :
          /\ Respond(response) /\ serving \in Clients
          /\ awaiting \in Requests /\ awaiting.from = serving
          /\ response.to = awaiting
    BY <1>7, Answering
  <2>2. /\ awaiting' = None /\ UNCHANGED <<phase, waiting, wire>>
        /\ IF phase[serving] = "connected"
             THEN inbox' = [inbox EXCEPT ![serving] = Append(@, response)]
             ELSE inbox' = inbox
    BY <2>1 DEF Respond
  <2>3. CASE phase[serving] = "connected"
    <3>1. /\ waiting[serving] = awaiting /\ wire[serving] = << >>
          /\ inbox[serving] = << >>
      BY <2>1, <2>3 DEF OneUnderWay, Awaited
    <3>2. /\ inbox'[serving] = <<response>>
          /\ \A c \in Clients \ {serving} : inbox'[c] = inbox[c]
      BY <2>1, <2>2, <2>3, <3>1 DEF TypeOK
    <3>3. Len(inbox'[serving]) = 1 /\ inbox'[serving][1] = response
      BY <3>2
    <3>4. ASSUME NEW c \in Clients
          PROVE  /\ ~ Awaited(c)'
                 /\ phase'[c] = phase[c] /\ waiting'[c] = waiting[c]
                 /\ wire'[c] = wire[c]
      BY <2>2 DEF Awaited
    <3>5. ASSUME NEW c \in Clients, phase'[c] # "gone"
          PROVE  /\ Len(inbox'[c]) <= 1
                 /\ inbox'[c] # << >> => waiting'[c] = inbox'[c][1].to
                 /\ wire'[c] # << >> => inbox'[c] = << >>
      <4>1. CASE c = serving
        <5>1. Len(inbox'[c]) = 1 /\ inbox'[c][1] = response
          BY <3>3, <4>1, Zenon
        <5>2. wire'[c] = << >> /\ waiting'[c] = response.to
          BY <2>1, <3>1, <3>4, <4>1
        <5>3. Len(inbox'[c]) <= 1 /\ inbox'[c][1].to = response.to
          BY <5>1
        <5> QED BY <5>2, <5>3
      <4>2. CASE c # serving
        BY <3>2, <3>4, <3>5, <4>2 DEF OneUnderWay
      <4> QED BY <4>1, <4>2
    <3>6. \A c \in Clients :
            /\ Len(wire'[c]) <= 1
            /\ wire'[c] # << >> => wire'[c][1].from = c
            /\ phase'[c] # "gone" /\ wire'[c] # << >> =>
                 waiting'[c] = wire'[c][1]
      BY <3>4 DEF OneUnderWay
    <3> QED BY <3>4, <3>5, <3>6 DEF OneUnderWay
  <2>4. CASE phase[serving] # "connected"
    BY <2>2, <2>4 DEF OneUnderWay, Awaited
  <2> QED BY <2>3, <2>4
<1>8. CASE Handle
  BY <1>8, Draining DEF OneUnderWay, Awaited
<1>9. CASE Accept \/ Poll \/ Stop \/ Joined
  BY <1>9 DEF Accept, Poll, Stop, Joined, OneUnderWay, Awaited, clientVars,
              workerVars
<1> QED BY <1>2, <1>3, <1>4, <1>5, <1>6, <1>7, <1>8, <1>9 DEF Next

LEMMA AppendSupports ==
  ASSUME NEW done \in Seq(Requests), NEW r \in Requests
  PROVE  /\ \A request, outcome :
              Supported(request, outcome, done) =>
                Supported(request, outcome, Append(done, r))
         /\ \A outcome : Supported(r, outcome, Append(done, r))
<1>1. /\ \A i \in DOMAIN done : /\ i \in DOMAIN Append(done, r)
                                /\ Append(done, r)[i] = done[i]
      /\ Len(done) + 1 \in DOMAIN Append(done, r)
      /\ Append(done, r)[Len(done) + 1] = r
  BY AppendElements
<1> QED BY <1>1, Zenon DEF Supported

LEMMA OkStep ==
  ASSUME TypeOK, WorkerLocals, OneUnderWay, OnlyPairedTrusted, OkIsExecuted, Next
  PROVE  OkIsExecuted'
<1> USE QueueAssumption
<1>1. CASE UNCHANGED <<result, inbox, answered, executed>>
  BY <1>1 DEF OkIsExecuted
<1>2. ASSUME NEW c \in Clients, Receive(c)
      PROVE  OkIsExecuted'
  <2>1. /\ phase[c] = "connected" /\ inbox[c] # << >> /\ inbox[c] \in Seq(Results)
        /\ inbox' = [inbox EXCEPT ![c] = Tail(@)]
        /\ answered' = answered \cup {<<waiting[c], Head(inbox[c]).outcome>>}
        /\ UNCHANGED <<result, executed>>
    BY <1>2 DEF Receive, TypeOK, workerVars, mainVars
  <2>2. /\ Head(inbox[c]) = inbox[c][1] /\ 1 \in DOMAIN inbox[c]
        /\ \A i \in DOMAIN Tail(inbox[c]) :
             i + 1 \in DOMAIN inbox[c] /\ Tail(inbox[c])[i] = inbox[c][i + 1]
    BY <2>1, TailElements
  <2>3. waiting[c] = inbox[c][1].to
    BY <2>1 DEF OneUnderWay
  <2>4. Supported(waiting[c], Head(inbox[c]).outcome, executed)
    BY <2>2, <2>3 DEF OkIsExecuted
  <2>5. \A a \in answered' : Supported(a[1], a[2], executed)
    BY <2>1, <2>4 DEF OkIsExecuted
  <2>6. ASSUME NEW d \in Clients, NEW i \in DOMAIN inbox'[d]
        PROVE  Supported(inbox'[d][i].to, inbox'[d][i].outcome, executed)
    <3>1. CASE d = c
      BY <2>1, <2>2, <2>6, <3>1 DEF OkIsExecuted, TypeOK
    <3>2. CASE d # c
      BY <2>1, <2>6, <3>2 DEF OkIsExecuted, TypeOK
    <3> QED BY <3>1, <3>2
  <2> QED BY <2>1, <2>5, <2>6 DEF OkIsExecuted
<1>3. CASE CheckStop \/ ReadFails
  <2>1. PICK S \in SUBSET Clients : UNCHANGED answered \/ Close(S)
    BY <1>3 DEF CheckStop, ReadFails, WorkerLocals, TypeOK
  <2>2. \A a \in answered' : a \in answered \/ a[2] = "connection_lost"
    BY <2>1, CloseEffect
  <2>3. UNCHANGED <<result, inbox, executed>>
    BY <1>3 DEF CheckStop, ReadFails, mainVars
  <2> QED BY <2>2, <2>3 DEF OkIsExecuted, Supported
<1>4. CASE Reply \/ Timeout
  <2>1. PICK response \in Results :
          /\ Respond(response) /\ serving \in Clients
          /\ \/ result # None /\ response = result
             \/ response.outcome = "bridge_busy"
    BY <1>4, Answering
  <2>2. /\ result' = None /\ UNCHANGED <<answered, executed>>
        /\ \/ inbox' = [inbox EXCEPT ![serving] = Append(@, response)]
           \/ inbox' = inbox
    BY <2>1 DEF Respond, mainVars
  <2>3. Supported(response.to, response.outcome, executed)
    BY <2>1 DEF OkIsExecuted, Supported
  <2>4. ASSUME NEW c \in Clients, NEW i \in DOMAIN inbox'[c]
        PROVE  Supported(inbox'[c][i].to, inbox'[c][i].outcome, executed)
    <3>1. CASE inbox'[c] = inbox[c]
      BY <2>4, <3>1 DEF OkIsExecuted
    <3>2. CASE inbox'[c] = Append(inbox[c], response)
      <4>1. inbox[c] \in Seq(Results)
        BY DEF TypeOK
      <4>2. /\ i \in DOMAIN inbox[c] \/ i = Len(inbox[c]) + 1
            /\ i \in DOMAIN inbox[c] => inbox'[c][i] = inbox[c][i]
            /\ i = Len(inbox[c]) + 1 => inbox'[c][i] = response
        BY <2>4, <3>2, <4>1, AppendElements, AppendIndices
      <4> QED BY <2>3, <4>2 DEF OkIsExecuted
    <3> QED BY <2>1, <2>2, <3>1, <3>2 DEF TypeOK
  <2> QED BY <2>2, <2>4 DEF OkIsExecuted
<1>5. CASE Handle
  <2> DEFINE item == Head(batch)
  <2>1. /\ item \in Items /\ item.request \in Requests
        /\ item.request.kind # "garbled" /\ executed \in Seq(Requests)
        /\ executed' = IF Executes(item) THEN Append(executed, item.request)
                       ELSE executed
        /\ result' = IF awaiting = item.request THEN Handled(item) ELSE result
        /\ UNCHANGED <<inbox, answered>>
    BY <1>5, Draining DEF TypeOK
  <2> HIDE DEF item
  <2>2. ASSUME NEW request, NEW outcome, Supported(request, outcome, executed)
        PROVE  Supported(request, outcome, executed')
    BY <2>1, <2>2, AppendSupports
  <2>3. Supported(item.request, Handled(item).outcome, executed')
    <3>1. CASE Executes(item)
      BY <2>1, <3>1, AppendSupports
    <3>2. CASE ~ Executes(item)
      BY <2>1, <3>2, HandledIsAnswer DEF Supported
    <3> QED BY <3>1, <3>2
  <2>4. Handled(item).to = item.request
    BY <2>1, HandledIsAnswer
  <2>5. result' # None => Supported(result'.to, result'.outcome, executed')
    BY <2>1, <2>2, <2>3, <2>4 DEF OkIsExecuted
  <2>6. /\ \A c \in Clients : \A i \in DOMAIN inbox[c] :
             Supported(inbox[c][i].to, inbox[c][i].outcome, executed')
        /\ \A a \in answered : Supported(a[1], a[2], executed')
    BY <2>2 DEF OkIsExecuted
  <2> QED BY <2>1, <2>5, <2>6 DEF OkIsExecuted
<1>6. (\E c \in Clients : Connect(c) \/ HangUp(c)) \/
      (\E c \in Clients, kind \in SentKinds : Ask(c, kind)) \/
      Accept \/ Enqueue \/ Poll \/ Stop \/ Joined =>
        UNCHANGED <<result, inbox, answered, executed>>
  BY DEF Connect, HangUp, Ask, Accept, Enqueue, Poll, Stop, Joined, clientVars,
         workerVars, mainVars
<1> QED BY <1>1, <1>2, <1>3, <1>4, <1>5, <1>6 DEF Next

LEMMA TrustStep ==
  ASSUME TypeOK, WorkerLocals, OneUnderWay, OnlyPairedTrusted, OnlyPairedAct, Next
  PROVE  OnlyPairedTrusted' /\ OnlyPairedAct'
<1> USE QueueAssumption
<1>1. CASE UNCHANGED <<serving, authenticated, pending, batch, result, executed,
                       paired>>
  BY <1>1 DEF OnlyPairedTrusted, OnlyPairedAct
<1>2. CASE CheckStop
  BY <1>1, <1>2 DEF CheckStop, mainVars
<1>3. CASE Accept \/ ReadFails
  <2>1. /\ UNCHANGED <<pending, batch, result, executed, paired>>
        /\ \/ UNCHANGED <<serving, authenticated>>
           \/ authenticated' = FALSE
           \/ serving' = None
    BY <1>3 DEF Accept, ReadFails, mainVars
  <2> QED BY <2>1 DEF OnlyPairedTrusted, OnlyPairedAct
<1>4. CASE Enqueue
  <2> DEFINE item == [request |-> Head(wire[serving]),
                      authenticated |-> authenticated]
  <2>1. /\ item \in Items /\ pending' = Append(pending, item)
        /\ item.request.kind # "garbled" /\ item.request.from = serving
        /\ item.authenticated = authenticated /\ serving \in Clients
        /\ pending \in Seq(Items)
        /\ UNCHANGED <<serving, authenticated, batch, result, executed, paired>>
    BY <1>4, Taking DEF Enqueue, mainVars, TypeOK
  <2> HIDE DEF item
  <2>2. item.authenticated => item.request.from \in paired
    BY <2>1 DEF OnlyPairedTrusted
  <2>3. Vouched(pending', paired)
    BY <2>1, <2>2, AppendElements, AppendIndices DEF OnlyPairedTrusted, Vouched
  <2> QED BY <2>1, <2>3 DEF OnlyPairedTrusted, OnlyPairedAct
<1>5. CASE Reply \/ Timeout
  <2>1. PICK response \in Results :
          /\ Respond(response) /\ serving \in Clients
          /\ awaiting.from = serving /\ response.to = awaiting
          /\ \/ result # None /\ response = result
             \/ response.authenticated = authenticated
    BY <1>5, Answering
  <2>2. /\ authenticated' = response.authenticated /\ result' = None
        /\ serving' \in {serving, None}
        /\ UNCHANGED <<pending, batch, executed, paired>>
    BY <2>1 DEF Respond, mainVars
  <2>3. response.authenticated => serving \in paired
    BY <2>1 DEF OnlyPairedTrusted
  <2> QED BY <2>2, <2>3 DEF OnlyPairedTrusted, OnlyPairedAct
<1>6. CASE Poll
  <2>1. /\ batch' = pending /\ pending' = << >>
        /\ UNCHANGED <<serving, authenticated, result, executed, paired>>
    BY <1>6 DEF Poll, workerVars
  <2>2. Vouched(<< >>, paired)
    BY DEF Vouched
  <2> QED BY <2>1, <2>2 DEF OnlyPairedTrusted, OnlyPairedAct
<1>7. CASE Handle
  <2> DEFINE item == Head(batch)
  <2>1. /\ item \in Items /\ item.request \in Requests
        /\ item.request.kind # "garbled" /\ executed \in Seq(Requests)
        /\ item.authenticated => item.request.from \in paired
        /\ executed' = IF Executes(item) THEN Append(executed, item.request)
                       ELSE executed
        /\ paired' = IF item.request.kind = "authenticate"
                       THEN paired \cup {item.request.from} ELSE paired
        /\ result' = IF awaiting = item.request THEN Handled(item) ELSE result
        /\ batch' = Tail(batch) /\ batch \in Seq(Items) /\ batch # << >>
        /\ UNCHANGED <<serving, authenticated, pending>>
    BY <1>7, Draining DEF TypeOK
  <2> HIDE DEF item
  <2>2. paired \subseteq paired'
    BY <2>1
  <2>3. /\ Handled(item).to = item.request
        /\ Handled(item).authenticated => item.request.from \in paired'
    BY <2>1, HandledIsAnswer
  <2>4. \A items : Vouched(items, paired) => Vouched(items, paired')
    BY <2>2 DEF Vouched
  <2>5. Vouched(Tail(batch), paired)
    BY <2>1, TailElements DEF OnlyPairedTrusted, Vouched
  <2>6. OnlyPairedTrusted'
    BY <2>1, <2>2, <2>3, <2>4, <2>5 DEF OnlyPairedTrusted
  <2>7. ASSUME Executes(item)
        PROVE  OnlyPairedAct'
    BY <2>1, <2>2, <2>7, AppendElements, AppendIndices
       DEF OnlyPairedAct, Executes
  <2>8. ASSUME ~ Executes(item)
        PROVE  OnlyPairedAct'
    BY <2>1, <2>2, <2>8 DEF OnlyPairedAct
  <2> QED BY <2>6, <2>7, <2>8
<1>8. (\E c \in Clients : Connect(c) \/ Receive(c) \/ HangUp(c)) \/
      (\E c \in Clients, kind \in SentKinds : Ask(c, kind)) \/ Stop \/ Joined =>
        UNCHANGED <<serving, authenticated, pending, batch, result, executed,
                    paired>>
  BY DEF Connect, Receive, HangUp, Ask, Stop, Joined, workerVars, mainVars
<1> QED BY <1>1, <1>2, <1>3, <1>4, <1>5, <1>6, <1>7, <1>8 DEF Next

LEMMA OrderStep ==
  ASSUME TypeOK, WorkerLocals, OneUnderWay, OnlyPairedTrusted, FirstSentFirst,
         Next
  PROVE  FirstSentFirst'
<1> USE QueueAssumption
<1> DEFINE drained == Frames(batch)
           queued == Frames(pending)
<1>1. /\ executed \in Seq(Requests)
      /\ drained \in Seq(Requests) /\ queued \in Seq(Requests)
      /\ \A c \in Clients : wire[c] \in Seq(Requests)
  BY FramesType DEF TypeOK
<1>2. CASE UNCHANGED <<asked, wire, executed, batch, pending>>
  BY <1>2 DEF FirstSentFirst
<1>3. ASSUME NEW c \in Clients, NEW kind \in SentKinds, Ask(c, kind)
      PROVE  FirstSentFirst'
  <2> DEFINE request == [from |-> c, n |-> asked[c] + 1, kind |-> kind]
  <2>1. /\ request \in Requests /\ request.from = c /\ request.n = asked[c] + 1
        /\ asked' = [asked EXCEPT ![c] = @ + 1]
        /\ wire' = [wire EXCEPT ![c] = Append(@, request)]
        /\ UNCHANGED <<executed, batch, pending>>
    BY <1>3 DEF Ask, mainVars, Requests, TypeOK
  <2> HIDE DEF request, drained, queued
  <2>2. \A d \in Clients :
          asked[d] \in Nat /\ asked'[d] \in Nat /\ asked[d] <= asked'[d]
    BY <2>1 DEF TypeOK
  <2>3. ASSUME NEW q \in Seq(Requests), Numbered(q, asked)
        PROVE  /\ Numbered(q, asked')
               /\ \A i \in DOMAIN q : Before(q[i], request)
    <3>1. \A i \in DOMAIN q : q[i] \in Requests
      OBVIOUS
    <3>2. \A i \in DOMAIN q : q[i].from \in Clients /\ q[i].n \in Nat
      BY <3>1 DEF Requests
    <3>3. Numbered(q, asked')
      <4>1. ASSUME NEW i \in DOMAIN q
            PROVE  q[i].n <= asked'[q[i].from]
        BY <2>2, <2>3, <3>2 DEF Numbered
      <4> QED BY <4>1 DEF Numbered
    <3>4. ASSUME NEW i \in DOMAIN q, q[i].from = c
          PROVE  q[i].n < asked[c] + 1
      BY <2>2, <2>3, <3>2, <3>4 DEF Numbered
    <3> QED BY <2>1, <3>3, <3>4 DEF Before
  <2>4. \A q \in Seq(Requests) :
          Numbered(q, asked) /\ Precedes(q, wire[c]) =>
            Precedes(q, Append(wire[c], request))
    BY <1>1, <2>1, <2>3, AppendRight
  <2>5. Numbered(Append(wire[c], request), asked')
    <3>1. request.n <= asked'[request.from]
      BY <2>1, <2>2 DEF TypeOK
    <3>2. /\ Numbered(wire[c], asked')
          /\ \A i \in DOMAIN wire[c] : Before(wire[c][i], request)
      BY <1>1, <2>3 DEF FirstSentFirst
    <3> QED BY <1>1, <2>1, <3>1, <3>2, AppendInOrder
  <2>6. /\ Numbered(executed, asked) /\ Numbered(drained, asked)
        /\ Numbered(queued, asked)
    BY DEF FirstSentFirst, drained, queued
  <2>7. ASSUME NEW d \in Clients
        PROVE  /\ Precedes(executed, wire'[d]) /\ Precedes(drained, wire'[d])
               /\ Precedes(queued, wire'[d]) /\ Numbered(wire'[d], asked')
    <3>1. /\ Precedes(executed, wire[d]) /\ Precedes(drained, wire[d])
          /\ Precedes(queued, wire[d]) /\ Numbered(wire[d], asked)
      BY DEF FirstSentFirst, drained, queued
    <3>2. CASE d = c
      <4>1. wire'[d] = Append(wire[c], request)
        BY <2>1, <3>2 DEF TypeOK
      <4> QED BY <1>1, <2>4, <2>5, <2>6, <3>1, <3>2, <4>1
    <3>3. CASE d # c
      <4>1. wire'[d] = wire[d]
        BY <2>1, <3>3 DEF TypeOK
      <4> QED BY <1>1, <2>3, <3>1, <4>1
    <3> QED BY <3>2, <3>3
  <2>8. /\ Numbered(executed, asked') /\ Numbered(drained, asked')
        /\ Numbered(queued, asked')
    BY <1>1, <2>3, <2>6
  <2> QED BY <2>1, <2>7, <2>8 DEF FirstSentFirst, drained, queued
<1>4. CASE Enqueue
  <2> DEFINE request == Head(wire[serving])
             item == [request |-> request, authenticated |-> authenticated]
  <2>1. /\ serving \in Clients /\ wire[serving] # << >>
        /\ request \in Requests /\ request.from = serving
        /\ wire'[serving] = << >>
        /\ \A c \in Clients \ {serving} : wire'[c] = wire[c]
        /\ item \in Items /\ pending' = Append(pending, item)
        /\ item.request = request
        /\ UNCHANGED <<asked, executed, batch>>
    BY <1>4, Taking DEF Enqueue, mainVars
  <2>2. request = wire[serving][1] /\ 1 \in DOMAIN wire[serving]
    BY <1>1, <2>1, TailElements
  <2> HIDE DEF request, item, drained, queued
  <2>3. Frames(pending') = Append(queued, request)
    BY <2>1, FramesAppend DEF TypeOK, queued
  <2>4. /\ \A i \in DOMAIN executed : Before(executed[i], request)
        /\ \A i \in DOMAIN drained : Before(drained[i], request)
        /\ \A i \in DOMAIN queued : Before(queued[i], request)
        /\ request.n <= asked[request.from]
    BY <2>1, <2>2 DEF FirstSentFirst, Precedes, Numbered, drained, queued
  <2>5. /\ Sorted(Append(queued, request))
        /\ Numbered(Append(queued, request), asked)
        /\ Precedes(executed, Append(queued, request))
        /\ Precedes(drained, Append(queued, request))
    BY <1>1, <2>1, <2>4, AppendInOrder, AppendRight
       DEF FirstSentFirst, drained, queued
  <2>6. ASSUME NEW c \in Clients
        PROVE  /\ Precedes(executed, wire'[c]) /\ Precedes(drained, wire'[c])
               /\ Precedes(Append(queued, request), wire'[c])
               /\ Numbered(wire'[c], asked)
    <3>1. CASE c = serving
      BY <2>1, <3>1, EmptyIsSorted
    <3>2. CASE c # serving
      <4>1. wire'[c] = wire[c]
        BY <2>1, <3>2
      <4>2. \A i \in DOMAIN wire[c] : i = 1 /\ wire[c][i].from = c
        <5>1. Len(wire[c]) <= 1 /\ (wire[c] # << >> => wire[c][1].from = c)
          BY DEF OneUnderWay
        <5>2. DOMAIN wire[c] = 1 .. Len(wire[c]) /\ Len(wire[c]) \in Nat
          BY <1>1
        <5> QED BY <5>1, <5>2
      <4>3. \A i \in DOMAIN wire[c] : Before(request, wire[c][i])
        BY <2>1, <3>2, <4>2 DEF Before
      <4>4. Precedes(queued, wire[c])
        BY DEF FirstSentFirst, queued
      <4>5. Precedes(Append(queued, request), wire[c])
        BY <1>1, <2>1, <4>3, <4>4, AppendLeft
      <4> QED BY <4>1, <4>5 DEF FirstSentFirst, drained
    <3> QED BY <3>1, <3>2
  <2> QED BY <2>1, <2>3, <2>5, <2>6 DEF FirstSentFirst, drained
<1>5. CASE Poll
  <2>1. /\ batch = << >> /\ batch' = pending /\ pending' = << >>
        /\ UNCHANGED <<asked, wire, executed>>
    BY <1>5 DEF Poll, clientVars
  <2>2. Frames(<< >>) = << >>
    BY DEF Frames
  <2>3. Frames(batch)' = queued /\ Frames(pending)' = << >>
    BY <2>1, <2>2
  <2> HIDE DEF queued
  <2> QED BY <2>1, <2>3, EmptyIsSorted DEF FirstSentFirst, queued
<1>6. CASE Handle
  <2> DEFINE request == Head(batch).request
  <2>1. /\ batch \in Seq(Items) /\ batch # << >> /\ request \in Requests
        /\ executed' \in {executed, Append(executed, request)}
        /\ batch' = Tail(batch)
        /\ UNCHANGED <<asked, wire, pending>>
    BY <1>6, Draining
  <2>2. /\ drained # << >> /\ Head(drained) = request
        /\ Frames(batch)' = Tail(drained)
    BY <2>1, FramesTail
  <2> HIDE DEF request, drained, queued
  <2>3. Sorted(drained) /\ Numbered(drained, asked)
    BY DEF FirstSentFirst, drained
  <2>4. /\ Sorted(Tail(drained)) /\ Numbered(Tail(drained), asked)
        /\ \A i \in DOMAIN Tail(drained) : Before(request, Tail(drained)[i])
        /\ request.n <= asked[request.from] /\ Tail(drained) \in Seq(Requests)
    BY <1>1, <2>2, <2>3, TailInOrder, TailElements
  <2>5. ASSUME NEW q, Precedes(drained, q)
        PROVE  /\ Precedes(Tail(drained), q)
               /\ \A i \in DOMAIN q : Before(request, q[i])
    BY <1>1, <2>2, <2>5, TailPrecedes
  <2>6. /\ Precedes(executed, Tail(drained))
        /\ \A i \in DOMAIN executed : Before(executed[i], request)
    <3>1. Precedes(executed, drained)
      BY DEF FirstSentFirst, drained
    <3> QED BY <1>1, <2>2, <3>1, PrecedesTail
  <2>7. /\ Precedes(drained, queued) /\ Precedes(executed, queued)
        /\ \A c \in Clients :
             Precedes(drained, wire[c]) /\ Precedes(executed, wire[c])
    BY DEF FirstSentFirst, drained, queued
  <2>8. /\ Precedes(Tail(drained), queued)
        /\ \A c \in Clients : Precedes(Tail(drained), wire[c])
    BY <2>5, <2>7
  <2>9. ASSUME NEW q \in Seq(Requests), Precedes(executed, q),
               \A i \in DOMAIN q : Before(request, q[i])
        PROVE  Precedes(executed', q)
    BY <1>1, <2>1, <2>9, AppendLeft
  <2>10. Sorted(executed') /\ Numbered(executed', asked)
    <3>1. Sorted(executed) /\ Numbered(executed, asked)
      BY DEF FirstSentFirst
    <3> QED BY <1>1, <2>1, <2>4, <2>6, <3>1, AppendInOrder
  <2>11. /\ Precedes(executed', Tail(drained)) /\ Precedes(executed', queued)
         /\ \A c \in Clients : Precedes(executed', wire[c])
    BY <1>1, <2>4, <2>5, <2>6, <2>7, <2>9
  <2> QED BY <2>1, <2>2, <2>4, <2>8, <2>10, <2>11 DEF FirstSentFirst, queued
<1>7. (\E c \in Clients : Connect(c) \/ Receive(c) \/ HangUp(c)) \/
      CheckStop \/ Accept \/ ReadFails \/ Reply \/ Timeout \/ Stop \/ Joined =>
        UNCHANGED <<asked, wire, executed, batch, pending>>
  BY DEF Connect, Receive, HangUp, CheckStop, Accept, ReadFails, Reply, Timeout,
         Respond, Stop, Joined, clientVars, mainVars
<1> QED BY <1>2, <1>3, <1>4, <1>5, <1>6, <1>7 DEF Next

LEMMA NextInvariant == IInv /\ [Next]_vars => IInv'
<1>1. IInv /\ Next => IInv'
  BY TypeStep, LocalsStep, UnderWayStep, OkStep, TrustStep, OrderStep DEF IInv
<1>2. IInv /\ UNCHANGED vars => IInv'
  <2> SUFFICES ASSUME IInv, UNCHANGED vars
               PROVE  IInv'
    OBVIOUS
  <2> USE DEF vars, IInv
  <2>1. TypeOK' /\ WorkerLocals' /\ OneUnderWay'
    BY DEF TypeOK, WorkerLocals, OneUnderWay, Awaited
  <2>2. OkIsExecuted' /\ OnlyPairedTrusted' /\ OnlyPairedAct' /\ FirstSentFirst'
    BY DEF OkIsExecuted, OnlyPairedTrusted, OnlyPairedAct, FirstSentFirst
  <2> QED BY <2>1, <2>2
<1> QED BY <1>1, <1>2

LEMMA Invariance == Spec => []IInv
BY InitInvariant, NextInvariant, PTL DEF Spec

-----------------------------------------------------------------------------

(* TypeOK holds of every state: whatever a client can read was sent to it   *)
(* as an answer, and what it was told it was told of a request.             *)
THEOREM TypeCorrect == Spec => []TypeOK
<1>1. IInv => TypeOK
  BY DEF IInv
<1> QED BY <1>1, Invariance, PTL

(* A response a client can read answers the request it waits for, although  *)
(* results may be late and the client compares no request id; and who is    *)
(* told "ok" of an operation has had it executed (enqueue).                 *)
THEOREM ResponsesAnswer == Spec => []ResponsesMatch
<1>1. IInv => ResponsesMatch
  <2> SUFFICES ASSUME IInv
               PROVE  ResponsesMatch
    OBVIOUS
  <2>1. ASSUME NEW c \in Clients, phase[c] = "connected",
               NEW i \in DOMAIN inbox[c]
        PROVE  inbox[c][i].to = waiting[c]
    <3>1. /\ inbox[c] \in Seq(Results) /\ Len(inbox[c]) <= 1
          /\ inbox[c] # << >> => waiting[c] = inbox[c][1].to
      BY <2>1 DEF IInv, TypeOK, OneUnderWay
    <3>2. i = 1 /\ inbox[c] # << >>
      BY <3>1
    <3> QED BY <3>1, <3>2
  <2>2. ASSUME NEW a \in answered, a[2] = "ok", a[1].kind = "operation"
        PROVE  \E i \in DOMAIN executed : executed[i] = a[1]
    BY <2>2 DEF IInv, OkIsExecuted, Supported
  <2> QED BY <2>1, <2>2 DEF ResponsesMatch
<1> QED BY <1>1, Invariance, PTL

(* An operation takes effect only on a connection whose own client proved   *)
(* the pairing secret (serve_connection, handle).                           *)
THEOREM PairedActOnly == Spec => []OnlyPairedAct
<1>1. IInv => OnlyPairedAct
  BY DEF IInv
<1> QED BY <1>1, Invariance, PTL

(* Requests take effect at most once and, on each connection, in the order  *)
(* they were sent, whatever waits time out (enqueue, process_pending).      *)
THEOREM InOrder == Spec => []ExecutedInOrder
<1>1. IInv => ExecutedInOrder
  BY DEF IInv, FirstSentFirst, Sorted, Before, ExecutedInOrder
<1> QED BY <1>1, Invariance, PTL

=============================================================================
