-------------------------- MODULE RendezvousProofs --------------------------
(***************************************************************************)
(* Proofs about the life of bridges, their files and discovery, for any    *)
(* number of FreeCADs, bridges, ports and sidecars, any of which may fail  *)
(* or die at any point.                                                    *)
(***************************************************************************)
EXTENDS Rendezvous, FiniteSetTheorems, TLAPS

Types ==
  /\ alive \subseteq Processes
  /\ slot \in [Processes -> Bridges \cup {None}]
  /\ joining \in [Processes -> Bridges \cup {None}]
  /\ home \in [Bridges -> Processes \cup {None}]
  /\ hooks \in [Bridges -> SUBSET Hooks]
  /\ stop \in [Bridges -> BOOLEAN]
  /\ worker \in [Bridges -> WorkerStages]
  /\ endpoint \in [Bridges -> Bridges \cup Ports \cup {None}]
  /\ serving \in [Bridges -> Sidecars \cup {None}]
  /\ backlog \in [Bridges -> Seq(Sidecars)]
  /\ files \in [Bridges -> SUBSET Files]
  /\ at \in [Sidecars -> {"new", "next", "secret", "connect", "pair", "up",
                          "failed", "gone"}]
  /\ todo \in [Sidecars -> SUBSET Bridges]
  /\ now \in [Sidecars -> Bridges \cup {None}]
  /\ found \in [Sidecars -> SUBSET [session : Bridges, record : Bridges]]
  /\ owed \in [Sidecars -> SUBSET Bridges]

(* Who is responsible for a bridge: the slot of the process that made it,   *)
(* or the stop that waits for its thread.                                   *)
Ownership ==
  /\ \A b \in Bridges : home[b] = None => worker[b] = "none" /\ ~ stop[b]
  /\ \A p \in Processes :
       slot[p] # None => p \in alive /\ home[slot[p]] = p
  /\ \A p \in Processes : joining[p] # None => home[joining[p]] = p
  /\ \A b \in Bridges : worker[b] = "killed" => home[b] \notin alive

(* What lies in the directory, by where the bridge's thread is.             *)
FilesFollowThread ==
  \A b \in Bridges :
    /\ "record" \in files[b] =>
         /\ "secret" \in files[b]
         /\ worker[b] \in {"serve", "unlink_socket", "unlink_record", "killed"}
    /\ worker[b] \in {"record", "serve"} => "secret" \in files[b]
    /\ worker[b] = "serve" => "record" \in files[b]
    /\ worker[b] \in {"secret", "record", "serve"} /\ endpoint[b] = b =>
         "socket" \in files[b]

(* No two threads listen at one endpoint.                                   *)
OneListener ==
  /\ \A b \in Bridges : Listening(b) => endpoint[b] \in {b} \cup Ports
  /\ \A b, c \in Bridges :
       Listening(b) /\ Listening(c) /\ endpoint[b] = endpoint[c] => b = c

(* s waits for the answer to its authentication at b, in b's backlog or     *)
(* served by it.                                                            *)
WaitsAt(s, b) == Queued(s, b) \/ (serving[b] = s /\ b \notin Sessions(s))

OneConnection ==
  /\ \A b \in Bridges : \A i, j \in DOMAIN backlog[b] :
       backlog[b][i] = backlog[b][j] => i = j
  /\ \A s \in Sidecars, b \in Bridges :
       WaitsAt(s, b) => at[s] \in {"pair", "gone"}
  /\ \A s \in Sidecars, b, c \in Bridges : WaitsAt(s, b) /\ WaitsAt(s, c) => b = c

(* The thread of b has come at least as far as serving.                     *)
Past(b) == worker[b] \notin {"none", "bind", "secret", "record"}

Tried(s) == at[s] \in {"secret", "connect", "pair"}

(* The record s has opened is of a bridge that has served.  While that one  *)
(* goes on serving, s waits there and nowhere else.                         *)
FollowsRecord(s) ==
  /\ Tried(s) => now[s] \in Bridges /\ Past(now[s])
  /\ at[s] = "pair" /\ worker[now[s]] = "serve" =>
       /\ \A b \in Bridges : WaitsAt(s, b) => b = now[s]
       /\ now[s] \in Sessions(s) \/ WaitsAt(s, now[s])

ConnectedAsRecorded == \A s \in Sidecars : FollowsRecord(s)

(* A bridge that still serves and is owed to s has a session, is on the     *)
(* list, or is the one s is trying.                                         *)
Remembers(s) ==
  /\ at[s] = "new" => owed[s] = {}
  /\ \A b \in owed[s] : Past(b)
  /\ at[s] \notin {"failed", "gone"} =>
       \A b \in owed[s] : worker[b] = "serve" =>
         \/ b \in Sessions(s)
         \/ at[s] # "up" /\ b \in todo[s]
         \/ Tried(s) /\ b = now[s]

NoneForgotten == \A s \in Sidecars : Remembers(s)

IInv ==
  /\ Types /\ Ownership /\ FilesFollowThread /\ StopCleans
  /\ OneListener /\ OneConnection /\ ConnectedAsRecorded /\ NoneForgotten
  /\ RegisteredAreGenuine

-----------------------------------------------------------------------------
(* Three kinds of steps, by whose they are. *)

MainStep ==
  \/ \E p \in Processes, b \in Bridges : StartBridge(p, b) \/ StartFails(p, b)
  \/ \E p \in Processes : StopBridge(p) \/ Stopped(p) \/ Crash(p)

ThreadStep ==
  \E b \in Bridges :
    \/ Bind(b) \/ BindFails(b) \/ Publish(b) \/ PublishFails(b)
    \/ StopSeen(b) \/ AcceptFails(b) \/ Accept(b) \/ ClientGone(b)
    \/ Unlink(b)

SidecarStep ==
  \/ \E s \in Sidecars, b \in Bridges : Open(s, b) \/ Answer(s, b)
  \/ \E s \in Sidecars :
       \/ List(s) \/ Choose(s) \/ ReadSecret(s) \/ ConnectFails(s)
       \/ Connect(s) \/ HungUp(s) \/ Finish(s) \/ Exit(s)

LEMMA NextSteps == Next => MainStep \/ ThreadStep \/ SidecarStep
BY DEF Next, MainStep, ThreadStep, SidecarStep

LEMMA SidecarFrame ==
  SidecarStep => UNCHANGED <<processVars, home, hooks, stop, worker, endpoint,
                             files>>
BY DEF SidecarStep, Open, Answer, List, Choose, ReadSecret, ConnectFails,
       Connect, HungUp, Finish, Exit, Paired, Refused, Busy, Dismissed,
       processVars, bridgeVars

(* A step of b's thread: the stages it leads from and to.                   *)
Stages ==
  {<<"bind", "secret">>, <<"bind", "ended">>, <<"secret", "record">>,
   <<"record", "serve">>, <<"secret", "unlink_socket">>,
   <<"record", "unlink_socket">>, <<"serve", "unlink_socket">>,
   <<"unlink_socket", "unlink_record">>, <<"unlink_record", "unlink_secret">>,
   <<"unlink_secret", "ended">>}

LEMMA ThreadFrame ==
  ASSUME Types, ThreadStep
  PROVE  /\ UNCHANGED <<processVars, home, hooks, stop, sidecarVars>>
         /\ \E b \in Bridges :
              /\ \/ worker' = worker /\ files' = files
                 \/ \E m \in Stages : Moves(b, m[1], m[2])
              /\ \A c \in Bridges \ {b} :
                   /\ files'[c] = files[c] /\ endpoint'[c] = endpoint[c]
                   /\ serving'[c] = serving[c] /\ backlog'[c] = backlog[c]
<1>1. PICK b \in Bridges :
        \/ Bind(b) \/ BindFails(b) \/ Publish(b) \/ PublishFails(b)
        \/ StopSeen(b) \/ AcceptFails(b) \/ Accept(b) \/ ClientGone(b)
        \/ Unlink(b)
  BY DEF ThreadStep
<1>2. UNCHANGED <<processVars, home, hooks, stop, sidecarVars>>
  BY <1>1 DEF Bind, BindFails, Publish, Writes, PublishFails, StopSeen,
              AcceptFails, Accept, ClientGone, Unlink, Removes
<1>3. \/ worker' = worker /\ files' = files
      \/ \E m \in Stages : Moves(b, m[1], m[2])
  BY <1>1 DEF Bind, BindFails, Publish, Writes, PublishFails, StopSeen,
              AcceptFails, Accept, ClientGone, Unlink, Removes, Stages
<1>4. \A c \in Bridges \ {b} :
        /\ files'[c] = files[c] /\ endpoint'[c] = endpoint[c]
        /\ serving'[c] = serving[c] /\ backlog'[c] = backlog[c]
  BY <1>1 DEF Types, Bind, BindFails, Publish, Writes, PublishFails, StopSeen,
              AcceptFails, Accept, ClientGone, Unlink, Removes
<1> QED BY <1>2, <1>3, <1>4

-----------------------------------------------------------------------------
(* Queues of connections. *)

LEMMA AppendElements ==
  ASSUME NEW S, NEW q \in Seq(S), NEW e \in S
  PROVE  /\ Append(q, e) \in Seq(S)
         /\ DOMAIN Append(q, e) = 1 .. Len(q) + 1
         /\ \A i \in DOMAIN q : Append(q, e)[i] = q[i]
         /\ Append(q, e)[Len(q) + 1] = e
         /\ DOMAIN q = 1 .. Len(q) /\ Len(q) \in Nat
OBVIOUS

LEMMA TailElements ==
  ASSUME NEW S, NEW q \in Seq(S), q # <<>>
  PROVE  /\ Tail(q) \in Seq(S) /\ Head(q) \in S /\ Head(q) = q[1]
         /\ DOMAIN Tail(q) = 1 .. Len(q) - 1
         /\ \A i \in DOMAIN Tail(q) : i + 1 \in DOMAIN q /\ Tail(q)[i] = q[i + 1]
         /\ DOMAIN q = 1 .. Len(q) /\ Len(q) \in Nat \ {0}
OBVIOUS

Distinct(q) == \A i, j \in DOMAIN q : q[i] = q[j] => i = j

LEMMA AppendDistinct ==
  ASSUME NEW S, NEW q \in Seq(S), NEW e \in S,
         Distinct(q), ~ \E i \in DOMAIN q : q[i] = e
  PROVE  Distinct(Append(q, e))
<1>1. /\ \A i \in DOMAIN q : Append(q, e)[i] = q[i] /\ q[i] # e
      /\ Append(q, e)[Len(q) + 1] = e
      /\ DOMAIN q = 1 .. Len(q) /\ Len(q) \in Nat
      /\ DOMAIN Append(q, e) = 1 .. Len(q) + 1
  BY AppendElements
<1>2. \A i \in DOMAIN Append(q, e) : i \in DOMAIN q \/ i = Len(q) + 1
  BY <1>1
<1> QED BY <1>1, <1>2 DEF Distinct

LEMMA HeadOrTail ==
  ASSUME NEW S, NEW q \in Seq(S), q # <<>>, NEW s
  PROVE  (\E i \in DOMAIN q : q[i] = s) <=>
            Head(q) = s \/ \E i \in DOMAIN Tail(q) : Tail(q)[i] = s
<1>1. ASSUME NEW i \in DOMAIN q, i # 1
      PROVE  i - 1 \in DOMAIN Tail(q) /\ Tail(q)[i - 1] = q[i]
  BY <1>1
<1>2. 1 \in DOMAIN q /\ q[1] = Head(q)
  OBVIOUS
<1>3. ASSUME NEW i \in DOMAIN Tail(q)
      PROVE  i + 1 \in DOMAIN q /\ Tail(q)[i] = q[i + 1]
  BY <1>3
<1>4. ASSUME NEW i \in DOMAIN q, q[i] = s
      PROVE  Head(q) = s \/ \E j \in DOMAIN Tail(q) : Tail(q)[j] = s
  BY <1>1, <1>2, <1>4, Zenon
<1>5. ASSUME NEW i \in DOMAIN Tail(q), Tail(q)[i] = s
      PROVE  \E j \in DOMAIN q : q[j] = s
  BY <1>3, <1>5, Zenon
<1> QED BY <1>2, <1>4, <1>5, Zenon

-----------------------------------------------------------------------------

LEMMA InitInvariant == Init => IInv
<1> SUFFICES ASSUME Init PROVE IInv
  OBVIOUS
<1> USE RendezvousAssumption DEF Init
<1>1. Types
  BY DEF Types, WorkerStages
<1>2. Ownership /\ FilesFollowThread /\ StopCleans
  BY DEF Ownership, FilesFollowThread, StopCleans
<1>3. OneListener
  BY DEF OneListener, Listening
<1>4. \A s \in Sidecars, b \in Bridges : ~ WaitsAt(s, b)
  BY DEF WaitsAt, Queued
<1>5. OneConnection
  BY <1>4 DEF OneConnection
<1>6. ConnectedAsRecorded /\ NoneForgotten /\ RegisteredAreGenuine
  BY DEF ConnectedAsRecorded, FollowsRecord, NoneForgotten, Remembers,
         RegisteredAreGenuine, Tried
<1> QED BY <1>1, <1>2, <1>3, <1>5, <1>6 DEF IInv

LEMMA MovesTypes ==
  ASSUME Types, NEW b \in Bridges, NEW from, NEW to \in WorkerStages,
         Moves(b, from, to)
  PROVE  /\ worker' \in [Bridges -> WorkerStages]
         /\ worker'[b] = to /\ worker[b] = from
         /\ \A c \in Bridges \ {b} : worker'[c] = worker[c]
BY DEF Types, Moves

LEMMA AtTypes ==
  ASSUME Types, NEW s \in Sidecars, 
         NEW to \in {"new", "next", "secret", "connect", "pair", "up",
                     "failed", "gone"},
         at' = [at EXCEPT ![s] = to]
  PROVE  at' \in [Sidecars -> {"new", "next", "secret", "connect", "pair",
                               "up", "failed", "gone"}]
BY DEF Types

LEMMA TypesStep ==
  ASSUME Types, Next
  PROVE  Types'
<1> USE DEF Types
<1>1. ASSUME NEW p \in Processes, NEW b \in Bridges, StartBridge(p, b)
      PROVE  Types'
  BY <1>1 DEF StartBridge, MayStart, WorkerStages, Hooks, sidecarVars
<1>2. ASSUME NEW p \in Processes, NEW b \in Bridges, StartFails(p, b)
      PROVE  Types'
  <2>1. home' \in [Bridges -> Processes \cup {None}]
    BY <1>2 DEF StartFails
  <2>2. hooks' \in [Bridges -> SUBSET Hooks]
    BY <1>2 DEF StartFails, Hooks
  <2> QED BY <1>2, <2>1, <2>2 DEF StartFails, processVars, sidecarVars
<1>3. ASSUME NEW p \in Processes, StopBridge(p)
      PROVE  Types'
  BY <1>3 DEF StopBridge, sidecarVars
<1>4. ASSUME NEW p \in Processes, Stopped(p)
      PROVE  Types'
  BY <1>4 DEF Stopped, sidecarVars
<1>5. ASSUME NEW p \in Processes, Crash(p)
      PROVE  Types'
  <2>1. /\ alive' \subseteq Processes
        /\ slot' \in [Processes -> Bridges \cup {None}]
        /\ joining' \in [Processes -> Bridges \cup {None}]
    BY <1>5 DEF Crash
  <2>2. hooks' \in [Bridges -> SUBSET Hooks]
    BY <1>5 DEF Crash
  <2>3. worker' \in [Bridges -> WorkerStages]
    BY <1>5 DEF Crash, WorkerStages
  <2>4. serving' \in [Bridges -> Sidecars \cup {None}]
    BY <1>5 DEF Crash
  <2>5. backlog' \in [Bridges -> Seq(Sidecars)]
    <3>1. <<>> \in Seq(Sidecars)
      OBVIOUS
    <3>2. \A b \in Bridges :
            (IF home[b] = p THEN <<>> ELSE backlog[b]) \in Seq(Sidecars)
      BY <3>1
    <3> QED BY <1>5, <3>2 DEF Crash
  <2> QED BY <1>5, <2>1, <2>2, <2>3, <2>4, <2>5 DEF Crash, sidecarVars
<1>6. ASSUME NEW b \in Bridges, Bind(b)
      PROVE  Types'
  <2>1. worker' \in [Bridges -> WorkerStages]
    BY <1>6, MovesTypes DEF Bind, WorkerStages
  <2>2. /\ endpoint' \in [Bridges -> Bridges \cup Ports \cup {None}]
        /\ files' \in [Bridges -> SUBSET Files]
    <3>1. CASE /\ endpoint' = [endpoint EXCEPT ![b] = b]
               /\ files' = [files EXCEPT ![b] = {"socket"}]
      BY <3>1 DEF Files
    <3>2. CASE \E port \in Ports :
                 /\ Free(port)
                 /\ endpoint' = [endpoint EXCEPT ![b] = port]
                 /\ UNCHANGED files
      BY <3>2
    <3> QED BY <1>6, <3>1, <3>2 DEF Bind
  <2> QED BY <1>6, <2>1, <2>2 DEF Bind, processVars, sidecarVars
<1>7. ASSUME NEW b \in Bridges, BindFails(b)
      PROVE  Types'
  <2>1. worker' \in [Bridges -> WorkerStages]
    BY <1>7, MovesTypes DEF BindFails, WorkerStages
  <2>2. files' \in [Bridges -> SUBSET Files]
    BY <1>7 DEF BindFails, Files
  <2> QED BY <1>7, <2>1, <2>2 DEF BindFails, processVars, sidecarVars
<1>8. ASSUME NEW b \in Bridges, Publish(b)
      PROVE  Types'
  <2>1. ASSUME NEW from \in Files, NEW to \in WorkerStages, Writes(b, from, to)
        PROVE  Types'
    <3>1. worker' \in [Bridges -> WorkerStages]
      BY <2>1, MovesTypes DEF Writes
    <3> QED BY <2>1, <3>1 DEF Writes, processVars, sidecarVars
  <2> QED BY <1>8, <2>1 DEF Publish, WorkerStages, Files
<1>9. ASSUME NEW b \in Bridges, PublishFails(b)
      PROVE  Types'
  <2>1. worker' \in [Bridges -> WorkerStages]
    BY <1>9, MovesTypes DEF PublishFails, WorkerStages
  <2>2. files' \in [Bridges -> SUBSET Files]
    BY <1>9 DEF PublishFails, Files
  <2> QED BY <1>9, <2>1, <2>2 DEF PublishFails, processVars, sidecarVars
<1>10. ASSUME NEW b \in Bridges, StopSeen(b) \/ AcceptFails(b)
       PROVE  Types'
  <2>1. worker' \in [Bridges -> WorkerStages]
    BY <1>10, MovesTypes DEF StopSeen, AcceptFails, WorkerStages
  <2> QED BY <1>10, <2>1 DEF StopSeen, AcceptFails, processVars, sidecarVars
<1>11. ASSUME NEW b \in Bridges, ClientGone(b)
       PROVE  Types'
  BY <1>11 DEF ClientGone, processVars, sidecarVars
<1>12. ASSUME NEW b \in Bridges, Accept(b)
       PROVE  Types'
  <2>1. Tail(backlog[b]) \in Seq(Sidecars) /\ Head(backlog[b]) \in Sidecars
    BY <1>12, TailElements DEF Accept
  <2> QED BY <1>12, <2>1 DEF Accept, processVars, sidecarVars
<1>13. ASSUME NEW b \in Bridges, Unlink(b)
       PROVE  Types'
  <2>1. ASSUME NEW file, NEW from, NEW to \in WorkerStages,
               Removes(b, file, from, to)
        PROVE  Types'
    <3>1. worker' \in [Bridges -> WorkerStages]
      BY <2>1, MovesTypes DEF Removes
    <3>2. backlog' \in [Bridges -> Seq(Sidecars)]
      <4>1. <<>> \in Seq(Sidecars)
        OBVIOUS
      <4>2. (IF to = "ended" THEN <<>> ELSE backlog[b]) \in Seq(Sidecars)
        BY <4>1
      <4> QED BY <2>1, <4>2 DEF Removes
    <3>3. files' \in [Bridges -> SUBSET Files]
      BY <2>1 DEF Removes
    <3> QED BY <2>1, <3>1, <3>2, <3>3 DEF Removes, processVars, sidecarVars
  <2> QED BY <1>13, <2>1 DEF Unlink, WorkerStages
<1>14. ASSUME NEW s \in Sidecars, NEW b \in Bridges, Open(s, b)
       PROVE  Types'
  BY <1>14 DEF Open, processVars, bridgeVars
<1>15. ASSUME NEW s \in Sidecars, NEW b \in Bridges, Answer(s, b)
       PROVE  Types'
  <2>1. CASE Paired(s, b)
    <3>1. [session |-> b, record |-> now[s]]
            \in [session : Bridges, record : Bridges]
      BY <2>1 DEF Paired, Genuine
    <3> QED BY <2>1, <3>1 DEF Paired, processVars, bridgeVars
  <2>2. CASE Refused(s, b) \/ Busy(s, b)
    <3>1. Without(s) \in {"next", "failed"} /\ Dismissed(s, b)
      BY <2>2 DEF Refused, Busy, Without
    <3>2. at' \in [Sidecars -> {"new", "next", "secret", "connect", "pair",
                                "up", "failed", "gone"}]
      BY <3>1, AtTypes DEF Dismissed
    <3>3. owed' \in [Sidecars -> SUBSET Bridges]
      <4>1. \/ owed' = owed
            \/ owed' = [owed EXCEPT ![s] = @ \ {b}]
        BY <2>2 DEF Refused, Busy
      <4>2. owed[s] \ {b} \in SUBSET Bridges
        OBVIOUS
      <4> QED BY <4>1, <4>2
    <3> QED BY <3>1, <3>2, <3>3 DEF Dismissed, processVars
  <2> QED BY <1>15, <2>1, <2>2 DEF Answer
<1>16. ASSUME NEW s \in Sidecars, Connect(s)
       PROVE  Types'
  <2>1. PICK b \in Reached(s) : backlog' = [backlog EXCEPT ![b] = Append(@, s)]
    BY <1>16 DEF Connect
  <2>2. Append(backlog[b], s) \in Seq(Sidecars)
    BY DEF Reached
  <2> QED BY <1>16, <2>1, <2>2 DEF Connect, processVars
<1>17. ASSUME NEW s \in Sidecars, List(s) \/ Choose(s)
       PROVE  Types'
  <2>1. at' \in [Sidecars -> {"new", "next", "secret", "connect", "pair",
                              "up", "failed", "gone"}]
    BY <1>17, AtTypes DEF List, Choose
  <2>2. CASE List(s)
    BY <2>1, <2>2 DEF List, processVars, bridgeVars
  <2>3. CASE Choose(s)
    BY <2>1, <2>3, RendezvousAssumption DEF Choose, processVars, bridgeVars
  <2> QED BY <1>17, <2>2, <2>3
<1>18. ASSUME NEW s \in Sidecars,
              ReadSecret(s) \/ ConnectFails(s) \/ HungUp(s) \/ Finish(s) \/ Exit(s)
       PROVE  Types'
  <2>1. PICK to \in {"connect", "next", "failed", "up", "gone"} :
          at' = [at EXCEPT ![s] = to]
    BY <1>18 DEF ReadSecret, ConnectFails, HungUp, Finish, Exit, Without
  <2>2. at' \in [Sidecars -> {"new", "next", "secret", "connect", "pair",
                              "up", "failed", "gone"}]
    BY <2>1, AtTypes
  <2>3. UNCHANGED <<processVars, bridgeVars, todo, now, found, owed>>
    BY <1>18 DEF ReadSecret, ConnectFails, HungUp, Finish, Exit
  <2> QED BY <2>2, <2>3 DEF processVars, bridgeVars
<1> QED BY <1>1, <1>2, <1>3, <1>4, <1>5, <1>6, <1>7, <1>8, <1>9, <1>10, <1>11,
           <1>12, <1>13, <1>14, <1>15, <1>16, <1>17, <1>18 DEF Next

LEMMA OwnershipStep ==
  ASSUME Types, Ownership, Next
  PROVE  Ownership'
<1> USE RendezvousAssumption DEF Types, Ownership
<1>1. CASE SidecarStep
  BY <1>1, SidecarFrame DEF processVars
<1>2. CASE ThreadStep
  <2>1. UNCHANGED <<processVars, home, stop>>
    BY <1>2, ThreadFrame
  <2>2. PICK b \in Bridges :
          \/ worker' = worker
          \/ \E m \in Stages : Moves(b, m[1], m[2])
    BY <1>2, ThreadFrame
  <2>3. CASE \E m \in Stages : Moves(b, m[1], m[2])
    <3>1. PICK m \in Stages : Moves(b, m[1], m[2])
      BY <2>3
    <3>2. m[1] \notin {"none", "killed"} /\ m[2] # "killed"
      BY DEF Stages
    <3> QED BY <2>1, <3>1, <3>2 DEF Moves, processVars
  <2> QED BY <2>1, <2>2, <2>3 DEF processVars
<1>3. ASSUME NEW p \in Processes, NEW b \in Bridges, StartBridge(p, b)
      PROVE  Ownership'
  BY <1>3 DEF StartBridge, MayStart
<1>4. ASSUME NEW p \in Processes, NEW b \in Bridges, StartFails(p, b)
      PROVE  Ownership'
  BY <1>4 DEF StartFails, MayStart, processVars
<1>5. ASSUME NEW p \in Processes, StopBridge(p) \/ Stopped(p)
      PROVE  Ownership'
  <2>1. CASE StopBridge(p)
    BY <2>1 DEF StopBridge
  <2>2. CASE Stopped(p)
    BY <2>2 DEF Stopped
  <2> QED BY <1>5, <2>1, <2>2
<1>6. ASSUME NEW p \in Processes, Crash(p)
      PROVE  Ownership'
  BY <1>6 DEF Crash
<1> QED BY <1>1, <1>2, <1>3, <1>4, <1>5, <1>6, NextSteps DEF MainStep

LEMMA StopCleansStep ==
  ASSUME Types, Ownership, StopCleans, Next
  PROVE  StopCleans'
<1> USE RendezvousAssumption DEF Types, Ownership, StopCleans
<1>1. CASE SidecarStep
  BY <1>1, SidecarFrame DEF processVars
<1>2. CASE ThreadStep
  <2>1. UNCHANGED <<processVars, home, hooks, stop>>
    BY <1>2, ThreadFrame
  <2>2. PICK b \in Bridges :
          /\ \/ worker' = worker /\ files' = files
             \/ \E m \in Stages : Moves(b, m[1], m[2])
          /\ \A c \in Bridges \ {b} : files'[c] = files[c]
    BY <1>2, ThreadFrame
  <2>3. CASE \E m \in Stages : Moves(b, m[1], m[2])
    <3>1. PICK m \in Stages : Moves(b, m[1], m[2])
      BY <2>3
    <3>2. m[1] # "ended"
      BY DEF Stages
    <3> QED BY <2>1, <2>2, <3>1, <3>2 DEF Moves, processVars
  <2> QED BY <2>1, <2>2, <2>3 DEF processVars
<1>3. ASSUME NEW p \in Processes, NEW b \in Bridges,
             StartBridge(p, b) \/ StartFails(p, b)
      PROVE  StopCleans'
  <2>1. ~ stop[b] /\ stop' = stop /\ UNCHANGED <<alive, joining, files>>
    BY <1>3 DEF StartBridge, StartFails, MayStart, processVars
  <2>2. \A c \in Bridges \ {b} : /\ home'[c] = home[c] /\ hooks'[c] = hooks[c]
                                 /\ worker'[c] = worker[c]
    <3>1. CASE StartBridge(p, b)
      BY <3>1 DEF StartBridge
    <3>2. CASE StartFails(p, b)
      BY <3>2 DEF StartFails
    <3> QED BY <1>3, <3>1, <3>2
  <2>3. SUFFICES ASSUME NEW c \in Bridges,
                        stop'[c], home'[c] \in alive', joining'[home'[c]] # c
                 PROVE  worker'[c] = "ended" /\ hooks'[c] = {} /\ files'[c] = {}
    BY DEF StopCleans
  <2>4. c # b /\ stop[c] /\ home[c] \in alive /\ joining[home[c]] # c
    BY <2>1, <2>2, <2>3
  <2> QED BY <2>1, <2>2, <2>4
<1>4. ASSUME NEW p \in Processes, StopBridge(p)
      PROVE  StopCleans'
  BY <1>4 DEF StopBridge
<1>5. ASSUME NEW p \in Processes, Stopped(p)
      PROVE  StopCleans'
  BY <1>5 DEF Stopped
<1>6. ASSUME NEW p \in Processes, Crash(p)
      PROVE  StopCleans'
  BY <1>6 DEF Crash
<1> QED BY <1>1, <1>2, <1>3, <1>4, <1>5, <1>6, NextSteps DEF MainStep

LEMMA FilesStep ==
  ASSUME Types, Ownership, FilesFollowThread, Next
  PROVE  FilesFollowThread'
<1> USE RendezvousAssumption DEF Types, Ownership, FilesFollowThread
<1>1. CASE SidecarStep
  BY <1>1, SidecarFrame
<1>2. ASSUME NEW p \in Processes, NEW b \in Bridges,
             StartBridge(p, b) \/ StartFails(p, b)
      PROVE  FilesFollowThread'
  <2>1. /\ UNCHANGED <<files, endpoint>> /\ worker[b] = "none"
        /\ worker' \in {worker, [worker EXCEPT ![b] = "bind"]}
    BY <1>2 DEF StartBridge, StartFails, MayStart
  <2> QED BY <2>1
<1>3. ASSUME NEW p \in Processes, StopBridge(p)
      PROVE  FilesFollowThread'
  BY <1>3 DEF StopBridge
<1>4. ASSUME NEW p \in Processes, Stopped(p)
      PROVE  FilesFollowThread'
  BY <1>4 DEF Stopped
<1>5. ASSUME NEW p \in Processes, Crash(p)
      PROVE  FilesFollowThread'
  BY <1>5 DEF Crash
<1>6. ASSUME NEW b \in Bridges, Bind(b)
      PROVE  FilesFollowThread'
  <2>1. /\ worker[b] = "bind" /\ worker' = [worker EXCEPT ![b] = "secret"]
        /\ "record" \notin files[b]
    BY <1>6 DEF Bind, Moves
  <2>2. CASE /\ endpoint' = [endpoint EXCEPT ![b] = b]
             /\ files' = [files EXCEPT ![b] = {"socket"}]
    BY <2>1, <2>2
  <2>3. ASSUME NEW port \in Ports,
               endpoint' = [endpoint EXCEPT ![b] = port], UNCHANGED files
        PROVE  FilesFollowThread'
    BY <2>1, <2>3
  <2> QED BY <1>6, <2>2, <2>3 DEF Bind
<1>7. ASSUME NEW b \in Bridges, BindFails(b)
      PROVE  FilesFollowThread'
  BY <1>7 DEF BindFails, Moves
<1>8. ASSUME NEW b \in Bridges, Publish(b)
      PROVE  FilesFollowThread'
  <2>1. CASE Writes(b, "secret", "record")
    BY <2>1 DEF Writes, Moves
  <2>2. CASE Writes(b, "record", "serve")
    BY <2>2 DEF Writes, Moves
  <2> QED BY <1>8, <2>1, <2>2 DEF Publish
<1>9. ASSUME NEW b \in Bridges, PublishFails(b)
      PROVE  FilesFollowThread'
  <2>1. PICK stage \in {"secret", "record"} :
          /\ Moves(b, stage, "unlink_socket")
          /\ \E left \in {{}, {stage}} :
               files' = [files EXCEPT ![b] = @ \cup left]
    BY <1>9 DEF PublishFails
  <2>2. CASE stage = "secret"
    BY <1>9, <2>1, <2>2 DEF PublishFails, Moves
  <2>3. CASE stage = "record"
    BY <1>9, <2>1, <2>3 DEF PublishFails, Moves
  <2> QED BY <2>2, <2>3
<1>10. ASSUME NEW b \in Bridges, StopSeen(b) \/ AcceptFails(b)
       PROVE  FilesFollowThread'
  BY <1>10 DEF StopSeen, AcceptFails, Moves
<1>11. ASSUME NEW b \in Bridges, Accept(b) \/ ClientGone(b)
       PROVE  FilesFollowThread'
  BY <1>11 DEF Accept, ClientGone
<1>12. ASSUME NEW b \in Bridges, Unlink(b)
       PROVE  FilesFollowThread'
  <2>1. CASE Removes(b, "socket", "unlink_socket", "unlink_record")
    BY <2>1 DEF Removes, Moves
  <2>2. CASE Removes(b, "record", "unlink_record", "unlink_secret")
    BY <2>2 DEF Removes, Moves
  <2>3. CASE Removes(b, "secret", "unlink_secret", "ended")
    BY <2>3 DEF Removes, Moves
  <2> QED BY <1>12, <2>1, <2>2, <2>3 DEF Unlink
<1> QED BY <1>1, <1>2, <1>3, <1>4, <1>5, <1>6, <1>7, <1>8, <1>9, <1>10, <1>11,
           <1>12, NextSteps DEF MainStep, ThreadStep

LEMMA OneListenerStep ==
  ASSUME Types, OneListener, Next
  PROVE  OneListener'
<1> USE RendezvousAssumption DEF Types, OneListener, Listening
<1>1. CASE SidecarStep
  BY <1>1, SidecarFrame
<1>2. CASE MainStep
  <2>1. endpoint' = endpoint
    BY <1>2 DEF MainStep, StartBridge, StartFails, StopBridge, Stopped, Crash
  <2>2. \A b \in Bridges :
          worker'[b] \in {worker[b], "bind", "killed"}
    BY <1>2 DEF MainStep, StartBridge, StartFails, StopBridge, Stopped, Crash
  <2> QED BY <2>1, <2>2
<1>3. ASSUME NEW b \in Bridges, Bind(b)
      PROVE  OneListener'
  <2>1. worker' = [worker EXCEPT ![b] = "secret"]
    BY <1>3 DEF Bind, Moves
  <2>2. CASE endpoint' = [endpoint EXCEPT ![b] = b]
    BY <2>1, <2>2
  <2>3. ASSUME NEW port \in Ports, Free(port),
               endpoint' = [endpoint EXCEPT ![b] = port]
        PROVE  OneListener'
    BY <2>1, <2>3 DEF Free
  <2> QED BY <1>3, <2>2, <2>3 DEF Bind
<1>4. ASSUME NEW b \in Bridges,
             \/ BindFails(b) \/ Publish(b) \/ PublishFails(b)
             \/ StopSeen(b) \/ AcceptFails(b) \/ Accept(b) \/ ClientGone(b)
             \/ Unlink(b)
      PROVE  OneListener'
  <2>1. ASSUME NEW from, NEW to,
               \/ from \in {"secret", "record", "serve", "unlink_socket",
                            "unlink_record", "unlink_secret"}
               \/ to = "ended",
               Moves(b, from, to)
        PROVE  \A c \in Bridges : Listening(c)' => Listening(c)
    BY <2>1 DEF Moves
  <2>2. CASE BindFails(b) \/ Publish(b) \/ StopSeen(b) \/ AcceptFails(b)
    BY <2>1, <2>2 DEF BindFails, Publish, Writes, StopSeen, AcceptFails
  <2>3. CASE PublishFails(b)
    BY <2>1, <2>3 DEF PublishFails
  <2>4. CASE Unlink(b)
    BY <2>1, <2>4 DEF Unlink, Removes
  <2>5. CASE Accept(b) \/ ClientGone(b)
    BY <2>5 DEF Accept, ClientGone
  <2> QED BY <1>4, <2>2, <2>3, <2>4, <2>5
<1> QED BY <1>1, <1>2, <1>3, <1>4, NextSteps DEF ThreadStep

-----------------------------------------------------------------------------
(* Who waits where, by the kind of the step. *)

(* No step of FreeCAD adds a connection.  One whose bridge goes on serving  *)
(* stays, unless it has been answered or has been closed.                   *)
KeepsConnections ==
  /\ \A b \in Bridges : Distinct(backlog'[b])
  /\ \A s \in Sidecars, b \in Bridges :
       /\ WaitsAt(s, b)' => WaitsAt(s, b)
       /\ worker'[b] = "serve" /\ at[s] = "pair" /\ WaitsAt(s, b) =>
            b \in Sessions(s) \/ WaitsAt(s, b)'

LEMMA BridgesKeepConnections ==
  ASSUME Types, OneConnection, MainStep \/ ThreadStep
  PROVE  UNCHANGED sidecarVars /\ KeepsConnections
<1> USE RendezvousAssumption DEF Types
<1>1. \A b \in Bridges : Distinct(backlog[b])
  BY DEF OneConnection, Distinct
<1>2. UNCHANGED sidecarVars
  BY ThreadFrame DEF MainStep, StartBridge, StartFails, StopBridge, Stopped, Crash
<1>3. \A s \in Sidecars : UNCHANGED <<Sessions(s), at[s]>>
  BY <1>2 DEF sidecarVars, Sessions
<1>4. CASE UNCHANGED <<backlog, serving>>
  BY <1>1, <1>2, <1>3, <1>4 DEF KeepsConnections, WaitsAt, Queued
<1>5. ASSUME NEW p \in Processes, Crash(p)
      PROVE  KeepsConnections
  <2>1. ASSUME NEW b \in Bridges
        PROVE  \/ worker'[b] = "killed" /\ backlog'[b] = <<>> /\ serving'[b] = None
               \/ backlog'[b] = backlog[b] /\ serving'[b] = serving[b]
    BY <1>5 DEF Crash
  <2>2. \A b \in Bridges : Distinct(backlog'[b])
    <3>1. Distinct(<<>>)
      BY DEF Distinct
    <3> QED BY <1>1, <2>1, <3>1
  <2>3. ASSUME NEW s \in Sidecars, NEW b \in Bridges
        PROVE  /\ WaitsAt(s, b)' => WaitsAt(s, b)
               /\ worker'[b] = "serve" /\ WaitsAt(s, b) => WaitsAt(s, b)'
    BY <1>3, <2>1 DEF WaitsAt, Queued
  <2> QED BY <2>2, <2>3 DEF KeepsConnections
<1>6. ASSUME NEW c \in Bridges, Accept(c)
      PROVE  KeepsConnections
  <2> DEFINE q == backlog[c]
  <2>1. q \in Seq(Sidecars) /\ q # <<>> /\ Distinct(q)
    BY <1>1, <1>6 DEF Accept
  <2>2. /\ serving[c] = None /\ serving'[c] = Head(q) /\ backlog'[c] = Tail(q)
        /\ \A b \in Bridges \ {c} :
             backlog'[b] = backlog[b] /\ serving'[b] = serving[b]
    BY <1>6 DEF Accept
  <2>3. /\ Head(q) = q[1] /\ DOMAIN q = 1 .. Len(q) /\ Len(q) \in Nat \ {0}
        /\ DOMAIN Tail(q) = 1 .. Len(q) - 1
        /\ \A i \in DOMAIN Tail(q) : i + 1 \in DOMAIN q /\ Tail(q)[i] = q[i + 1]
    <3> HIDE DEF q
    <3> QED BY <2>1, TailElements
  <2> HIDE DEF q
  <2>4. Distinct(Tail(q))
    BY <2>1, <2>3 DEF Distinct
  <2>5. ASSUME NEW s
        PROVE  (\E i \in DOMAIN q : q[i] = s) <=>
                  Head(q) = s \/ \E i \in DOMAIN Tail(q) : Tail(q)[i] = s
    BY <2>1, HeadOrTail
  <2>6. ASSUME NEW s \in Sidecars
        PROVE  /\ WaitsAt(s, c)' => WaitsAt(s, c)
               /\ WaitsAt(s, c) => c \in Sessions(s) \/ WaitsAt(s, c)'
    <3>1. Queued(s, c) <=> \E i \in DOMAIN q : q[i] = s
      BY DEF Queued, q
    <3>2. Queued(s, c)' <=> \E i \in DOMAIN Tail(q) : Tail(q)[i] = s
      BY <2>2 DEF Queued
    <3>3. serving'[c] = Head(q) /\ serving[c] # s /\ Sessions(s)' = Sessions(s)
      BY <1>3, <2>2
    <3> QED BY <2>5, <3>1, <3>2, <3>3 DEF WaitsAt
  <2>7. ASSUME NEW s \in Sidecars, NEW b \in Bridges \ {c}
        PROVE  WaitsAt(s, b)' <=> WaitsAt(s, b)
    BY <1>3, <2>2 DEF WaitsAt, Queued
  <2>8. \A b \in Bridges : Distinct(backlog'[b])
    BY <1>1, <2>2, <2>4
  <2> QED BY <2>6, <2>7, <2>8 DEF KeepsConnections
<1>7. ASSUME NEW c \in Bridges, ClientGone(c) \/ Unlink(c)
      PROVE  KeepsConnections
  <2>1. \A b \in Bridges :
          \/ backlog'[b] = backlog[b] /\ serving'[b] = serving[b]
          \/ /\ backlog'[b] = backlog[b] /\ serving'[b] = None
             /\ serving[b] # None /\ at[serving[b]] \in {"gone", "failed"}
          \/ worker'[b] # "serve" /\ backlog'[b] = <<>> /\ serving'[b] = serving[b]
    <3>1. CASE ClientGone(c)
      BY <3>1 DEF ClientGone
    <3>2. ASSUME NEW file, NEW from, NEW to, to # "serve", 
                 Removes(c, file, from, to)
          PROVE  \A b \in Bridges :
                   /\ \/ backlog'[b] = backlog[b]
                      \/ worker'[b] # "serve" /\ backlog'[b] = <<>>
                   /\ serving'[b] = serving[b]
      BY <3>2 DEF Removes, Moves
    <3>3. CASE Unlink(c)
      BY <3>2, <3>3 DEF Unlink
    <3> QED BY <1>7, <3>1, <3>3
  <2>2. \A b \in Bridges : Distinct(backlog'[b])
    BY <1>1, <2>1 DEF Distinct
  <2>3. ASSUME NEW s \in Sidecars, NEW b \in Bridges
        PROVE  /\ WaitsAt(s, b)' => WaitsAt(s, b)
               /\ worker'[b] = "serve" /\ at[s] = "pair" /\ WaitsAt(s, b) =>
                    WaitsAt(s, b)'
    BY <1>3, <2>1 DEF WaitsAt, Queued
  <2> QED BY <2>2, <2>3 DEF KeepsConnections
<1>8. CASE MainStep
  <2>1. \/ UNCHANGED <<backlog, serving>>
        \/ \E p \in Processes : Crash(p)
    BY <1>8 DEF MainStep, StartBridge, StartFails, StopBridge, Stopped
  <2> QED BY <1>2, <1>4, <1>5, <2>1
<1>9. CASE ThreadStep
  <2>1. \/ UNCHANGED <<backlog, serving>>
        \/ \E b \in Bridges : Accept(b) \/ ClientGone(b) \/ Unlink(b)
    BY <1>9 DEF ThreadStep, Bind, BindFails, Publish, Writes, PublishFails,
                StopSeen, AcceptFails
  <2> QED BY <1>2, <1>4, <1>6, <1>7, <2>1
<1> QED BY <1>8, <1>9

(* What a step of s leaves to the other sidecars.                           *)
Others(s) ==
  \A t \in Sidecars \ {s} :
    /\ UNCHANGED <<at[t], now[t], todo[t], found[t], owed[t]>>
    /\ \A b \in Bridges : WaitsAt(t, b)' <=> WaitsAt(t, b)

LEMMA OthersWaitOn ==
  ASSUME Types,
         NEW s \in Sidecars,
         \A t \in Sidecars \ {s} :
           UNCHANGED <<at[t], now[t], todo[t], found[t], owed[t]>>,
         UNCHANGED <<backlog, serving>>
  PROVE  Others(s)
BY DEF Others, WaitsAt, Queued, Sessions

LEMMA ConnectLeavesOthers ==
  ASSUME Types, NEW s \in Sidecars, Connect(s)
  PROVE  /\ Others(s)
         /\ \E b \in Reached(s) :
              /\ \A c \in Bridges \ {b} : WaitsAt(s, c)' <=> WaitsAt(s, c)
              /\ WaitsAt(s, b)'
              /\ Distinct(backlog[b]) /\ ~ Queued(s, b) => Distinct(backlog'[b])
              /\ \A c \in Bridges \ {b} : backlog'[c] = backlog[c]
<1> USE DEF Types
<1>1. PICK b \in Reached(s) : backlog' = [backlog EXCEPT ![b] = Append(@, s)]
  BY DEF Connect
<1> DEFINE q == backlog[b]
<1>2. b \in Bridges /\ q \in Seq(Sidecars)
  BY DEF Reached
<1>3. /\ backlog'[b] = Append(q, s)
      /\ \A c \in Bridges \ {b} : backlog'[c] = backlog[c]
      /\ UNCHANGED <<serving, todo, now, found, owed>>
      /\ \A t \in Sidecars \ {s} : at'[t] = at[t]
  BY <1>1, <1>2 DEF Connect
<1>4. /\ DOMAIN Append(q, s) = 1 .. Len(q) + 1
      /\ \A i \in DOMAIN q : Append(q, s)[i] = q[i]
      /\ Append(q, s)[Len(q) + 1] = s
      /\ DOMAIN q = 1 .. Len(q) /\ Len(q) \in Nat
  <2> HIDE DEF q
  <2> QED BY <1>2, AppendElements
<1>5. \A t : Queued(t, b) <=> \E i \in DOMAIN q : q[i] = t
  BY DEF Queued
<1>6. \A t : Queued(t, b)' <=> \E i \in DOMAIN Append(q, s) : Append(q, s)[i] = t
  BY <1>3 DEF Queued
<1>7. \A t : \A c \in Bridges \ {b} : Queued(t, c)' <=> Queued(t, c)
  BY <1>3 DEF Queued
<1> HIDE DEF q
<1>8. \A t : t # s => (Queued(t, b)' <=> Queued(t, b))
  BY <1>4, <1>5, <1>6
<1>9. Queued(s, b)'
  <2>1. Len(q) + 1 \in DOMAIN Append(q, s) /\ Append(q, s)[Len(q) + 1] = s
    BY <1>4
  <2> QED BY <1>6, <2>1, Zenon
<1>10. Distinct(q) /\ ~ Queued(s, b) => Distinct(Append(q, s))
  BY <1>2, <1>5, AppendDistinct
<1>11. \A t : Sessions(t)' = Sessions(t)
  BY <1>3 DEF Sessions
<1>12. /\ \A t \in Sidecars, c \in Bridges \ {b} : WaitsAt(t, c)' <=> WaitsAt(t, c)
       /\ \A t \in Sidecars \ {s} : WaitsAt(t, b)' <=> WaitsAt(t, b)
  BY <1>3, <1>7, <1>8, <1>11 DEF WaitsAt
<1>13. WaitsAt(s, b)'
  BY <1>9 DEF WaitsAt
<1>14. Others(s)
  BY <1>3, <1>12 DEF Others
<1> QED BY <1>3, <1>10, <1>12, <1>13, <1>14 DEF q

LEMMA AnswerLeavesOthers ==
  ASSUME Types, OneConnection, NEW s \in Sidecars, NEW b \in Bridges, Answer(s, b)
  PROVE  /\ Others(s) /\ UNCHANGED <<backlog, todo, now>>
         /\ WaitsAt(s, b) /\ at[s] = "pair"
         /\ \A c \in Bridges : ~ WaitsAt(s, c)'
<1> USE RendezvousAssumption DEF Types
<1>1. /\ at[s] = "pair" /\ serving[b] = s /\ b \notin Sessions(s)
      /\ \A c \in Bridges : ~ Queued(s, c)
  BY DEF Answer, Paired, Refused, Busy, Pairing
<1>2. WaitsAt(s, b)
  BY <1>1 DEF WaitsAt
<1>3. \A c \in Bridges : serving[c] = s => c = b \/ c \in Sessions(s)
  BY <1>1, <1>2 DEF OneConnection, WaitsAt
<1>4. CASE Paired(s, b)
  <2>1. /\ UNCHANGED <<bridgeVars, todo, now, owed>>
        /\ \A t \in Sidecars \ {s} : UNCHANGED <<at[t], found[t]>>
        /\ found'[s] = found[s] \cup {[session |-> b, record |-> now[s]]}
    BY <1>4 DEF Paired
  <2>2. UNCHANGED <<backlog, serving>>
    BY <2>1 DEF bridgeVars
  <2>3. Others(s)
    BY <2>1, <2>2, OthersWaitOn
  <2>4. Sessions(s) \cup {b} \subseteq Sessions(s)'
    <3>1. /\ found[s] \subseteq found'[s]
          /\ [session |-> b, record |-> now[s]] \in found'[s]
      BY <2>1
    <3>2. Sessions(s) \subseteq Sessions(s)'
      BY <3>1 DEF Sessions
    <3>3. b \in Sessions(s)'
      BY <3>1 DEF Sessions
    <3> QED BY <3>2, <3>3
  <2>5. \A c \in Bridges : ~ WaitsAt(s, c)'
    BY <1>1, <1>3, <2>2, <2>4 DEF WaitsAt, Queued
  <2> QED BY <1>1, <1>2, <2>1, <2>2, <2>3, <2>5
<1>5. CASE Refused(s, b) \/ Busy(s, b)
  <2>1. Dismissed(s, b) /\ \A t \in Sidecars \ {s} : owed'[t] = owed[t]
    BY <1>5 DEF Refused, Busy
  <2>2. /\ UNCHANGED <<backlog, todo, now, found>> /\ serving'[b] = None
        /\ \A c \in Bridges \ {b} : serving'[c] = serving[c]
        /\ \A t \in Sidecars \ {s} : at'[t] = at[t]
    BY <2>1 DEF Dismissed
  <2>3. \A t \in Sidecars, c \in Bridges : Queued(t, c)' <=> Queued(t, c)
    BY <2>2 DEF Queued
  <2>4. \A t \in Sidecars : Sessions(t)' = Sessions(t)
    BY <2>2 DEF Sessions
  <2>5. \A t \in Sidecars \ {s}, c \in Bridges : WaitsAt(t, c)' <=> WaitsAt(t, c)
    BY <1>1, <2>2, <2>3, <2>4 DEF WaitsAt
  <2>6. ASSUME NEW c \in Bridges
        PROVE  ~ WaitsAt(s, c)'
    <3>1. ~ Queued(s, c)' /\ Sessions(s)' = Sessions(s)
      BY <1>1, <2>3, <2>4
    <3>2. serving'[c] = s => c \in Sessions(s)
      BY <1>3, <2>2
    <3> QED BY <3>1, <3>2 DEF WaitsAt
  <2>7. Others(s)
    BY <2>1, <2>2, <2>5 DEF Others
  <2> QED BY <1>1, <1>2, <2>2, <2>6, <2>7
<1> QED BY <1>4, <1>5 DEF Answer

(* The steps of s that touch no connection.                                 *)
Alone(s) ==
  \/ \E b \in Bridges : Open(s, b)
  \/ List(s) \/ Choose(s) \/ ReadSecret(s) \/ ConnectFails(s)
  \/ HungUp(s) \/ Finish(s) \/ Exit(s)

LEMMA AloneLeavesOthers ==
  ASSUME Types, NEW s \in Sidecars, Alone(s)
  PROVE  /\ Others(s) /\ UNCHANGED bridgeVars
         /\ \A b \in Bridges : WaitsAt(s, b)' <=> WaitsAt(s, b)
         /\ at'[s] \notin {"new", "pair"} /\ UNCHANGED found
         /\ at[s] \notin {"pair", "gone"} \/ HungUp(s) \/ Exit(s)
<1> USE DEF Types
<1>1. /\ UNCHANGED <<bridgeVars, found>>
      /\ \A t \in Sidecars \ {s} : UNCHANGED <<at[t], now[t], todo[t], owed[t]>>
      /\ at'[s] \notin {"new", "pair"}
      /\ at[s] \notin {"pair", "gone"} \/ HungUp(s) \/ Exit(s)
  <2>1. CASE \E b \in Bridges : Open(s, b)
    BY <2>1 DEF Open
  <2>2. CASE List(s)
    BY <2>2 DEF List
  <2>3. CASE Choose(s)
    BY <2>3 DEF Choose
  <2>4. CASE ReadSecret(s)
    BY <2>4 DEF ReadSecret, Without
  <2>5. CASE ConnectFails(s)
    BY <2>5 DEF ConnectFails, Without
  <2>6. CASE HungUp(s)
    BY <2>6 DEF HungUp, Without
  <2>7. CASE Finish(s)
    BY <2>7 DEF Finish
  <2>8. CASE Exit(s)
    BY <2>8 DEF Exit
  <2> QED BY <2>1, <2>2, <2>3, <2>4, <2>5, <2>6, <2>7, <2>8 DEF Alone
<1>2. UNCHANGED <<backlog, serving>>
  BY <1>1 DEF bridgeVars
<1>3. Others(s)
  BY <1>1, <1>2, OthersWaitOn
<1>4. \A b \in Bridges : WaitsAt(s, b)' <=> WaitsAt(s, b)
  BY <1>1, <1>2 DEF WaitsAt, Queued, Sessions
<1> QED BY <1>1, <1>3, <1>4

LEMMA OneConnectionStep ==
  ASSUME Types, OneConnection, Next
  PROVE  OneConnection'
<1>1. \A b \in Bridges : Distinct(backlog[b])
  BY DEF OneConnection, Distinct
<1>2. ASSUME \A b \in Bridges : Distinct(backlog'[b]),
             \A s \in Sidecars, b \in Bridges :
               WaitsAt(s, b)' => WaitsAt(s, b) /\ at'[s] \in {"pair", "gone"}
      PROVE  OneConnection'
  BY <1>2 DEF OneConnection, Distinct
<1>3. CASE MainStep \/ ThreadStep
  <2>1. UNCHANGED at
    BY <1>3, BridgesKeepConnections DEF sidecarVars
  <2> QED BY <1>2, <1>3, <2>1, BridgesKeepConnections
          DEF KeepsConnections, OneConnection
<1>4. ASSUME NEW s \in Sidecars, NEW b \in Bridges, Answer(s, b)
      PROVE  OneConnection'
  <2>1. \A t \in Sidecars, c \in Bridges :
          WaitsAt(t, c)' => WaitsAt(t, c) /\ at'[t] \in {"pair", "gone"}
    BY <1>4, AnswerLeavesOthers DEF Others, OneConnection
  <2>2. \A c \in Bridges : Distinct(backlog'[c])
    BY <1>1, <1>4, AnswerLeavesOthers
  <2> QED BY <1>2, <2>1, <2>2
<1>5. ASSUME NEW s \in Sidecars, Connect(s)
      PROVE  OneConnection'
  <2>1. at[s] = "connect" /\ at'[s] = "pair"
    BY <1>5 DEF Connect, Types
  <2>2. \A c \in Bridges : ~ WaitsAt(s, c)
    BY <2>1 DEF OneConnection
  <2>3. PICK b \in Reached(s) :
          /\ \A c \in Bridges \ {b} : WaitsAt(s, c)' <=> WaitsAt(s, c)
          /\ Distinct(backlog[b]) /\ ~ Queued(s, b) => Distinct(backlog'[b])
          /\ \A c \in Bridges \ {b} : backlog'[c] = backlog[c]
    BY <1>5, ConnectLeavesOthers
  <2>4. b \in Bridges
    BY DEF Reached
  <2>5. \A c \in Bridges : Distinct(backlog'[c])
    BY <1>1, <2>2, <2>3, <2>4 DEF WaitsAt
  <2>6. \A c \in Bridges : WaitsAt(s, c)' => c = b
    BY <2>2, <2>3
  <2>7. \A t \in Sidecars \ {s}, c \in Bridges :
          (WaitsAt(t, c)' <=> WaitsAt(t, c)) /\ at'[t] = at[t]
    BY <1>5, ConnectLeavesOthers DEF Others
  <2>8. \A t \in Sidecars, c \in Bridges :
          WaitsAt(t, c)' => at'[t] \in {"pair", "gone"}
    BY <2>1, <2>7 DEF OneConnection
  <2>9. \A t \in Sidecars, c, d \in Bridges :
          WaitsAt(t, c)' /\ WaitsAt(t, d)' => c = d
    BY <2>6, <2>7 DEF OneConnection
  <2> QED BY <2>5, <2>8, <2>9 DEF OneConnection, Distinct
<1>6. ASSUME NEW s \in Sidecars, Alone(s)
      PROVE  OneConnection'
  <2>1. HungUp(s) => \A c \in Bridges : ~ WaitsAt(s, c)
    BY DEF HungUp, WaitsAt, Pairing
  <2>2. Exit(s) => at'[s] = "gone"
    BY DEF Exit, Types
  <2>3. at[s] \notin {"pair", "gone"} => \A c \in Bridges : ~ WaitsAt(s, c)
    BY DEF OneConnection
  <2>4. \A t \in Sidecars, c \in Bridges :
          WaitsAt(t, c)' => WaitsAt(t, c) /\ at'[t] \in {"pair", "gone"}
    BY <1>6, <2>1, <2>2, <2>3, AloneLeavesOthers DEF Others, OneConnection
  <2>5. \A c \in Bridges : Distinct(backlog'[c])
    BY <1>1, <1>6, AloneLeavesOthers DEF bridgeVars
  <2> QED BY <1>2, <2>4, <2>5
<1> QED BY <1>3, <1>4, <1>5, <1>6, NextSteps DEF SidecarStep, Alone

-----------------------------------------------------------------------------
(* A thread that has served never serves again once it has left that stage. *)
LEMMA PastForever ==
  ASSUME Types, Ownership, Next
  PROVE  \A b \in Bridges :
           Past(b) => Past(b)' /\ (worker'[b] = "serve" => worker[b] = "serve")
<1> USE DEF Types, Past
<1>1. CASE SidecarStep
  BY <1>1, SidecarFrame
<1>2. CASE ThreadStep
  <2>1. PICK b \in Bridges : \/ worker' = worker
                             \/ \E m \in Stages : Moves(b, m[1], m[2])
    BY <1>2, ThreadFrame
  <2>2. CASE \E m \in Stages : Moves(b, m[1], m[2])
    <3>1. PICK m \in Stages : Moves(b, m[1], m[2])
      BY <2>2
    <3>2. m[1] \in {"none", "bind", "secret", "record"} \/
          m[2] \notin {"none", "bind", "secret", "record", "serve"}
      BY DEF Stages
    <3> QED BY <3>1, <3>2 DEF Moves
  <2> QED BY <2>1, <2>2
<1>3. CASE MainStep
  <2>1. \A b \in Bridges :
          \/ worker'[b] \in {worker[b], "killed"}
          \/ home[b] = None /\ worker'[b] = "bind"
    BY <1>3 DEF MainStep, StartBridge, StartFails, MayStart, StopBridge,
                Stopped, Crash
  <2> QED BY <2>1 DEF Ownership
<1> QED BY <1>1, <1>2, <1>3, NextSteps

LEMMA ConnectedStep ==
  ASSUME Types, Ownership, FilesFollowThread, OneListener, OneConnection,
         ConnectedAsRecorded, Next
  PROVE  ConnectedAsRecorded'
<1> USE RendezvousAssumption
<1>1. \A b \in Bridges :
        Past(b) => Past(b)' /\ (worker'[b] = "serve" => worker[b] = "serve")
  BY PastForever
<1>2. SUFFICES ASSUME NEW s \in Sidecars
               PROVE  FollowsRecord(s)'
  BY DEF ConnectedAsRecorded
<1>3. /\ Tried(s) => now[s] \in Bridges /\ Past(now[s])
      /\ at[s] = "pair" /\ worker[now[s]] = "serve" =>
           /\ \A b \in Bridges : WaitsAt(s, b) => b = now[s]
           /\ now[s] \in Sessions(s) \/ WaitsAt(s, now[s])
  BY DEF ConnectedAsRecorded, FollowsRecord
<1>4. CASE MainStep \/ ThreadStep
  <2>1. UNCHANGED <<at, now, found>>
    BY <1>4, BridgesKeepConnections DEF sidecarVars
  <2>2. \A b \in Bridges :
          /\ WaitsAt(s, b)' => WaitsAt(s, b)
          /\ worker'[b] = "serve" /\ at[s] = "pair" /\ WaitsAt(s, b) =>
               b \in Sessions(s) \/ WaitsAt(s, b)'
    BY <1>4, BridgesKeepConnections DEF KeepsConnections
  <2>3. Tried(s)' = Tried(s) /\ Sessions(s)' = Sessions(s)
    BY <2>1 DEF Tried, Sessions
  <2>4. at[s] = "pair" => Tried(s)
    BY DEF Tried
  <2>5. Tried(s) => now[s] \in Bridges /\ (Past(now[s]))'
    BY <1>1, <1>3, <2>1 DEF Past
  <2>6. ASSUME at[s] = "pair", worker'[now[s]] = "serve"
        PROVE  /\ \A b \in Bridges : WaitsAt(s, b)' => b = now[s]
               /\ now[s] \in Sessions(s) \/ (WaitsAt(s, now[s]))'
    <3>1. now[s] \in Bridges /\ worker[now[s]] = "serve"
      BY <1>1, <1>3, <2>4, <2>6
    <3>2. WaitsAt(s, now[s]) =>
            now[s] \in Sessions(s) \/ (WaitsAt(s, now[s]))'
      BY <2>1, <2>2, <2>6, <3>1 DEF WaitsAt, Queued
    <3> QED BY <1>3, <2>2, <2>6, <3>1, <3>2
  <2> QED BY <2>1, <2>3, <2>5, <2>6 DEF FollowsRecord
<1>5. ASSUME UNCHANGED <<at[s], now[s], found[s], worker>>,
             \A b \in Bridges : WaitsAt(s, b)' <=> WaitsAt(s, b)
      PROVE  FollowsRecord(s)'
  <2>1. Tried(s)' = Tried(s) /\ Sessions(s)' = Sessions(s)
    BY <1>5 DEF Tried, Sessions
  <2>2. at[s] = "pair" => Tried(s)
    BY DEF Tried
  <2>3. now[s] \in Bridges => (WaitsAt(s, now[s]) <=> (WaitsAt(s, now[s]))')
    BY <1>5 DEF WaitsAt, Queued
  <2> QED BY <1>3, <1>5, <2>1, <2>2, <2>3 DEF FollowsRecord, Past
<1>6. ASSUME NEW t \in Sidecars \ {s}, Others(t), UNCHANGED worker
      PROVE  FollowsRecord(s)'
  BY <1>5, <1>6 DEF Others
<1>7. ASSUME NEW b \in Bridges, Answer(s, b)
      PROVE  at'[s] \in {"next", "failed"}
  BY <1>7 DEF Answer, Paired, Refused, Busy, Dismissed, Without, Types
<1>8. ASSUME Connect(s), UNCHANGED worker
      PROVE  FollowsRecord(s)'
  <2>1. at[s] = "connect" /\ UNCHANGED <<now, found>>
    BY <1>8 DEF Connect
  <2>2. now[s] \in Bridges /\ Past(now[s])
    BY <1>3, <2>1 DEF Tried
  <2>3. \A c \in Bridges : ~ WaitsAt(s, c)
    BY <2>1 DEF OneConnection
  <2>4. PICK b \in Reached(s) :
          /\ \A c \in Bridges \ {b} : WaitsAt(s, c)' <=> WaitsAt(s, c)
          /\ WaitsAt(s, b)'
    BY <1>8, ConnectLeavesOthers
  <2>5. worker[now[s]] = "serve" => b = now[s]
    BY <2>2 DEF Reached, OneListener, Listening
  <2>6. b = now[s] => (WaitsAt(s, now[s]))'
    BY <2>1, <2>4 DEF WaitsAt, Queued
  <2> QED BY <1>8, <2>1, <2>2, <2>3, <2>4, <2>5, <2>6 DEF FollowsRecord, Past
<1>9. ASSUME Alone(s), UNCHANGED worker
      PROVE  FollowsRecord(s)'
  <2>1. at'[s] # "pair"
    BY <1>9, AloneLeavesOthers
  <2>2. ASSUME NEW b \in Bridges, Open(s, b), Tried(s)'
        PROVE  now'[s] = b /\ "record" \in files[b]
    BY <2>2 DEF Open, Tried, Types
  <2>3. ASSUME Choose(s)
        PROVE  now'[s] \in Bridges /\ "record" \in files[now'[s]]
    BY <2>3 DEF Choose, Types
  <2>4. \A b \in Bridges : "record" \in files[b] => Past(b)
    BY DEF FilesFollowThread, Past
  <2>5. CASE ReadSecret(s) \/ ConnectFails(s) \/ HungUp(s)
    <3>1. Tried(s) /\ now' = now
      BY <2>5 DEF ReadSecret, ConnectFails, HungUp, Tried
    <3> QED BY <1>3, <1>9, <2>1, <3>1 DEF FollowsRecord, Past
  <2>6. CASE List(s) \/ Finish(s) \/ Exit(s)
    BY <2>1, <2>6 DEF List, Finish, Exit, FollowsRecord, Tried, Types
  <2>7. CASE Choose(s) \/ \E b \in Bridges : Open(s, b)
    BY <1>9, <2>1, <2>2, <2>3, <2>4, <2>7 DEF FollowsRecord, Past
  <2> QED BY <1>9, <2>5, <2>6, <2>7 DEF Alone
<1>10. CASE SidecarStep
  <2>1. UNCHANGED worker
    BY <1>10, SidecarFrame
  <2>2. PICK t \in Sidecars :
          \/ \E b \in Bridges : Answer(t, b)
          \/ Connect(t)
          \/ Alone(t)
    BY <1>10 DEF SidecarStep, Alone
  <2>3. Others(t)
    BY <2>2, AnswerLeavesOthers, ConnectLeavesOthers, AloneLeavesOthers
  <2>4. CASE t # s
    BY <1>6, <2>1, <2>3, <2>4
  <2>5. CASE t = s
    <3>1. CASE \E b \in Bridges : Answer(t, b)
      BY <1>7, <2>5, <3>1 DEF FollowsRecord, Tried
    <3>2. CASE Connect(t)
      BY <1>8, <2>1, <2>5, <3>2
    <3>3. CASE Alone(t)
      BY <1>9, <2>1, <2>5, <3>3
    <3> QED BY <2>2, <3>1, <3>2, <3>3
  <2> QED BY <2>4, <2>5
<1> QED BY <1>4, <1>10, NextSteps

LEMMA NoneForgottenStep ==
  ASSUME Types, Ownership, FilesFollowThread, OneListener, OneConnection,
         ConnectedAsRecorded, NoneForgotten, Next
  PROVE  NoneForgotten'
<1>1. \A b \in Bridges :
        Past(b) => Past(b)' /\ (worker'[b] = "serve" => worker[b] = "serve")
  BY PastForever
<1>2. SUFFICES ASSUME NEW s \in Sidecars
               PROVE  Remembers(s)'
  BY DEF NoneForgotten
<1>3. Remembers(s) /\ FollowsRecord(s) /\ owed[s] \subseteq Bridges
  BY DEF NoneForgotten, ConnectedAsRecorded, Types
<1>4. ASSUME UNCHANGED <<at[s], now[s], todo[s], found[s], owed[s]>>
      PROVE  Remembers(s)'
  <2>1. Tried(s)' = Tried(s) /\ Sessions(s)' = Sessions(s)
    BY <1>4 DEF Tried, Sessions
  <2>2. \A b \in owed[s] : /\ Past(b)'
                           /\ worker'[b] = "serve" => worker[b] = "serve"
    BY <1>1, <1>3 DEF Remembers
  <2> QED BY <1>3, <1>4, <2>1, <2>2 DEF Remembers
<1>5. CASE MainStep \/ ThreadStep
  <2>1. UNCHANGED sidecarVars
    BY <1>5, BridgesKeepConnections
  <2> QED BY <1>4, <2>1 DEF sidecarVars
<1>6. ASSUME NEW b \in Bridges, Answer(s, b), UNCHANGED worker
      PROVE  Remembers(s)'
  <2>1. /\ UNCHANGED <<todo, now>> /\ at[s] = "pair" /\ WaitsAt(s, b)
        /\ at'[s] \in {"next", "failed"}
    BY <1>6, AnswerLeavesOthers
       DEF Answer, Paired, Refused, Busy, Dismissed, Without, Types
  <2>2. /\ owed'[s] \subseteq owed[s] /\ Sessions(s) \subseteq Sessions(s)'
    BY <1>6 DEF Answer, Paired, Refused, Busy, Dismissed, Sessions, Types
  <2>3. worker[now[s]] = "serve" => b = now[s]
    BY <1>3, <2>1 DEF FollowsRecord
  <2>4. b = now[s] => b \in Sessions(s)' \/ b \notin owed'[s]
    <3>1. CASE Paired(s, b)
      <4>1. [session |-> b, record |-> now[s]] \in found'[s]
        BY <3>1 DEF Paired, Types
      <4> QED BY <4>1 DEF Sessions
    <3>2. CASE Refused(s, b)
      BY <3>2 DEF Refused, Genuine
    <3>3. CASE Busy(s, b)
      BY <3>3 DEF Busy, Types
    <3> QED BY <1>6, <3>1, <3>2, <3>3 DEF Answer
  <2> QED BY <1>1, <1>3, <1>6, <2>1, <2>2, <2>3, <2>4 DEF Remembers, Past
<1>7. ASSUME Connect(s), UNCHANGED worker
      PROVE  Remembers(s)'
  BY <1>3, <1>7 DEF Connect, Remembers, Tried, Sessions, Types, Past
<1>8. ASSUME Alone(s), UNCHANGED <<worker, files, endpoint>>
      PROVE  Remembers(s)'
  <2>1. Sessions(s)' = Sessions(s) /\ \A b \in Bridges : Past(b)' = Past(b)
    BY <1>8, AloneLeavesOthers DEF Sessions, Past
  <2>2. \A b \in Bridges : worker[b] = "serve" =>
          /\ Past(b) /\ Listening(b) /\ {"record", "secret"} \subseteq files[b]
          /\ endpoint[b] = b => "socket" \in files[b]
    BY DEF FilesFollowThread, Past, Listening
  <2>3. ASSUME NEW b \in Bridges, Open(s, b)
        PROVE  Remembers(s)'
    <3>1. /\ at[s] = "next" /\ todo'[s] = todo[s] \ {b} /\ now'[s] = b
          /\ at'[s] = IF "record" \in files[b] THEN "secret" ELSE "failed"
          /\ owed' = owed
      BY <2>3 DEF Open, Types
    <3> QED BY <1>3, <1>8, <2>1, <2>2, <3>1 DEF Remembers, Tried
  <2>4. CASE List(s)
    <3>1. /\ at'[s] = "next"
          /\ todo'[s] = {b \in Bridges : "record" \in files[b]}
          /\ owed'[s] = {b \in Bridges : worker[b] = "serve"}
      BY <2>4 DEF List, Types
    <3> QED BY <2>1, <2>2, <3>1 DEF Remembers
  <2>5. CASE Choose(s)
    <3>1. at[s] = "new" /\ at'[s] = "secret" /\ owed' = owed
      BY <2>5 DEF Choose, Types
    <3> QED BY <1>3, <3>1 DEF Remembers
  <2>6. CASE ReadSecret(s)
    <3>1. /\ Tried(s) /\ UNCHANGED <<todo, now, owed>>
          /\ at'[s] = IF "secret" \in files[now[s]] THEN "connect" ELSE Without(s)
          /\ Without(s) \in {"next", "failed"} /\ at[s] = "secret"
      BY <2>6 DEF ReadSecret, Tried, Without, Types
    <3>2. now[s] \in Bridges
      BY <1>3, <3>1 DEF FollowsRecord
    <3> QED BY <1>3, <1>8, <2>1, <2>2, <3>1, <3>2 DEF Remembers, Tried
  <2>7. CASE ConnectFails(s)
    <3>1. /\ Tried(s) /\ UNCHANGED <<todo, now, owed>> /\ Reached(s) = {}
          /\ at'[s] \in {"next", "failed"} /\ at[s] = "connect"
      BY <2>7 DEF ConnectFails, Tried, Without, Types
    <3>2. now[s] \in Bridges
      BY <1>3, <3>1 DEF FollowsRecord
    <3>3. worker[now[s]] # "serve"
      <4>1. worker[now[s]] = "serve" => now[s] \in Reached(s)
        BY <2>2, <3>2 DEF Reached
      <4> QED BY <3>1, <4>1
    <3> QED BY <1>3, <1>8, <2>1, <3>1, <3>3 DEF Remembers
  <2>8. CASE HungUp(s)
    <3>1. /\ Tried(s) /\ UNCHANGED <<todo, now, owed>>
          /\ at'[s] \in {"next", "failed"} /\ at[s] = "pair"
          /\ \A b \in Bridges : ~ WaitsAt(s, b)
      BY <2>8 DEF HungUp, Tried, Without, Types, WaitsAt, Pairing
    <3>2. worker[now[s]] = "serve" => now[s] \in Sessions(s)
      BY <1>3, <3>1 DEF FollowsRecord
    <3> QED BY <1>3, <1>8, <2>1, <3>1, <3>2 DEF Remembers
  <2>9. CASE Finish(s)
    <3>1. /\ at[s] = "next" /\ at'[s] = "up" /\ todo[s] = {}
          /\ UNCHANGED owed
      BY <2>9 DEF Finish, Types
    <3> QED BY <1>3, <1>8, <2>1, <3>1 DEF Remembers, Tried
  <2>10. CASE Exit(s)
    <3>1. at'[s] = "gone" /\ UNCHANGED owed
      BY <2>10 DEF Exit, Types
    <3> QED BY <1>3, <2>1, <3>1 DEF Remembers
  <2> QED BY <1>8, <2>3, <2>4, <2>5, <2>6, <2>7, <2>8, <2>9, <2>10 DEF Alone
<1>9. CASE SidecarStep
  <2>1. UNCHANGED <<worker, files, endpoint>>
    BY <1>9, SidecarFrame
  <2>2. PICK t \in Sidecars :
          \/ \E b \in Bridges : Answer(t, b)
          \/ Connect(t)
          \/ Alone(t)
    BY <1>9 DEF SidecarStep, Alone
  <2>3. Others(t)
    BY <2>2, AnswerLeavesOthers, ConnectLeavesOthers, AloneLeavesOthers
  <2>4. CASE t # s
    BY <1>4, <2>3, <2>4 DEF Others
  <2>5. CASE t = s
    BY <1>6, <1>7, <1>8, <2>1, <2>2, <2>5
  <2> QED BY <2>4, <2>5
<1> QED BY <1>5, <1>9, NextSteps

LEMMA GenuineStep ==
  ASSUME Types, RegisteredAreGenuine, Next
  PROVE  RegisteredAreGenuine'
<1> USE DEF RegisteredAreGenuine
<1>1. CASE found' = found
  BY <1>1
<1>2. ASSUME NEW s \in Sidecars, NEW b \in Bridges, Paired(s, b)
      PROVE  RegisteredAreGenuine'
  <2>1. now[s] = b
    BY <1>2 DEF Paired, Genuine
  <2>2. found' = [found EXCEPT ![s] = @ \cup {[session |-> b, record |-> now[s]]}]
    BY <1>2 DEF Paired
  <2> QED BY <2>1, <2>2 DEF Types
<1>3. CASE MainStep \/ ThreadStep
  <2>1. UNCHANGED sidecarVars
    BY <1>3, ThreadFrame
       DEF MainStep, StartBridge, StartFails, StopBridge, Stopped, Crash
  <2> QED BY <1>1, <2>1 DEF sidecarVars
<1>4. ASSUME NEW s \in Sidecars, Connect(s) \/ Alone(s)
      PROVE  RegisteredAreGenuine'
  BY <1>1, <1>4, AloneLeavesOthers DEF Connect
<1>5. ASSUME NEW s \in Sidecars, NEW b \in Bridges, Answer(s, b)
      PROVE  RegisteredAreGenuine'
  BY <1>1, <1>2, <1>5 DEF Answer, Refused, Busy, Dismissed
<1> QED BY <1>3, <1>4, <1>5, NextSteps DEF SidecarStep, Alone

LEMMA NextInvariant == IInv /\ [Next]_vars => IInv'
<1>1. IInv /\ Next => IInv'
  BY TypesStep, OwnershipStep, FilesStep, StopCleansStep, OneListenerStep,
     OneConnectionStep, ConnectedStep, NoneForgottenStep, GenuineStep DEF IInv
<1>2. IInv /\ UNCHANGED vars => IInv'
  <2> SUFFICES ASSUME IInv, UNCHANGED vars
               PROVE  IInv'
    OBVIOUS
  <2> USE DEF vars, processVars, bridgeVars, sidecarVars, IInv
  <2>1. Types'
    BY DEF Types
  <2>2. Ownership' /\ FilesFollowThread' /\ StopCleans'
    BY DEF Ownership, FilesFollowThread, StopCleans
  <2>3. OneListener'
    BY DEF OneListener, Listening
  <2>4. OneConnection'
    BY DEF OneConnection, WaitsAt, Queued, Sessions
  <2>5. ConnectedAsRecorded' /\ NoneForgotten' /\ RegisteredAreGenuine'
    BY DEF ConnectedAsRecorded, FollowsRecord, NoneForgotten, Remembers,
           RegisteredAreGenuine, WaitsAt, Queued, Sessions, Tried, Past
  <2> QED BY <2>1, <2>2, <2>3, <2>4, <2>5
<1> QED BY <1>1, <1>2

LEMMA Invariance == Spec => []IInv
BY InitInvariant, NextInvariant, PTL DEF Spec

-----------------------------------------------------------------------------

(* No thread's backlog can hold more connections than there are sidecars.   *)
LEMMA BacklogIsShort ==
  ASSUME NEW q \in Seq(Sidecars), Distinct(q)
  PROVE  Len(q) <= Cardinality(Sidecars)
<1>1. Len(q) \in Nat /\ DOMAIN q = 1 .. Len(q)
  OBVIOUS
<1>2. q \in Injection(DOMAIN q, Sidecars)
  BY DEF Distinct, Injection, IsInjective
<1>3. Cardinality(DOMAIN q) <= Cardinality(Sidecars)
  BY <1>1, <1>2, RendezvousAssumption, FS_Injection
<1>4. Cardinality(DOMAIN q) = Len(q)
  BY <1>1, FS_Interval
<1> QED BY <1>3, <1>4

(* TypeOK holds of every state; a sidecar waits in one backlog at a time    *)
(* and only once, so no backlog is longer than there are sidecars.          *)
THEOREM TypeCorrect == Spec => []TypeOK
<1>1. IInv => TypeOK
  <2> SUFFICES ASSUME IInv
               PROVE  TypeOK
    OBVIOUS
  <2>1. Types /\ \A b \in Bridges : Distinct(backlog[b])
    BY DEF IInv, OneConnection, Distinct
  <2>2. \A b \in Bridges : Len(backlog[b]) <= Cardinality(Sidecars)
    BY <2>1, BacklogIsShort DEF Types
  <2> QED BY <2>1, <2>2 DEF Types, TypeOK
<1> QED BY <1>1, Invariance, PTL

(* A record that can be read points to a secret that can be read, whatever  *)
(* fails and whenever FreeCAD dies (Rendezvous::publish, close).            *)
THEOREM RecordsHaveSecrets == Spec => []RecordMeansSecret
<1>1. IInv => RecordMeansSecret
  BY DEF IInv, FilesFollowThread, RecordMeansSecret
<1> QED BY <1>1, Invariance, PTL

(* Nothing of a bridge is left when its stop has returned, however far the  *)
(* thread had come and whatever had failed in it (BridgeState::stop).       *)
THEOREM StopLeavesNothing == Spec => []StopCleans
<1>1. IInv => StopCleans
  BY DEF IInv
<1> QED BY <1>1, Invariance, PTL

(* pairing_status never calls a bridge ready that nobody can connect to.    *)
THEOREM ReadyMeansServed == Spec => []ReadyIsServed
<1>1. IInv => ReadyIsServed
  <2> SUFFICES ASSUME IInv, NEW p \in Processes, NEW b \in Bridges,
                      slot[p] = b, "record" \in files[b]
               PROVE  Listening(b)
    BY DEF ReadyIsServed
  <2>1. b # None
    BY RendezvousAssumption
  <2>2. p \in alive /\ home[b] = p
    BY <2>1 DEF IInv, Ownership
  <2>3. worker[b] # "killed"
    BY <2>2 DEF IInv, Ownership
  <2> QED BY <2>3 DEF IInv, FilesFollowThread, Listening
<1> QED BY <1>1, Invariance, PTL

(* A sidecar that comes up has a session with every bridge that served all  *)
(* the while and did not keep it waiting for ten seconds                    *)
(* (discover_sessions).                                                     *)
THEOREM ServingAreFound == Spec => []EveryServingIsFound
<1>1. IInv => EveryServingIsFound
  BY DEF IInv, NoneForgotten, Remembers, Tried, EveryServingIsFound
<1> QED BY <1>1, Invariance, PTL

(* No session is registered on the record of another bridge, also when a    *)
(* new listener has the port of a crashed FreeCAD (verify_pairing).         *)
THEOREM SessionsAreGenuine == Spec => []RegisteredAreGenuine
<1>1. IInv => RegisteredAreGenuine
  BY DEF IInv
<1> QED BY <1>1, Invariance, PTL

=============================================================================
