----------------------------- MODULE Rendezvous -----------------------------
(***************************************************************************)
(* The life of bridges and how sidecars find them: start and stop on       *)
(* FreeCAD's main thread, the worker thread that binds, publishes, serves  *)
(* one connection at a time and withdraws what it published, the files in  *)
(* the rendezvous directory, crashes of FreeCAD, and discover_sessions of  *)
(* several sidecars racing all of that.                                    *)
(*                                                                         *)
(* A bridge is a BridgeState: its session names its files, so no two       *)
(* bridges share one, and it is started at most once.  What a connection   *)
(* carries after its authentication is modelled in BridgeQueue.            *)
(***************************************************************************)
EXTENDS Naturals, Sequences, FiniteSets

CONSTANTS
  Processes,  \* FreeCAD processes
  Bridges,    \* bridges these processes may start
  Sidecars,   \* topomind processes
  Direct,     \* Direct[s]: the bridge given with --bridge-socket, or None
  Ports,      \* loopback ports, used where there are no Unix sockets
  Makers,     \* Makers[b]: bound, the processes that may start b
  Fallible,   \* bound, the bridges of which something may fail
  Mortal,     \* bound, the processes that may crash
  None        \* no bridge, process, endpoint or sidecar

ASSUME RendezvousAssumption ==
  /\ None \notin Processes \cup Bridges \cup Sidecars \cup Ports
  /\ IsFiniteSet(Sidecars)
  /\ Bridges \cap Ports = {}
  /\ Direct \in [Sidecars -> Bridges \cup {None}]
  /\ Makers \in [Bridges -> SUBSET Processes]
  /\ Fallible \subseteq Bridges
  /\ Mortal \subseteq Processes

VARIABLES
  \* FreeCAD processes
  alive,     \* the processes that have not crashed
  slot,      \* slot[p]: BRIDGE, the bridge that was started, or None
  joining,   \* joining[p]: the bridge whose stop waits for its worker
  \* bridges
  home,      \* home[b]: the process that made it, or None
  hooks,     \* hooks[b]: what it has registered with FreeCAD
  stop,      \* stop[b]: its stop flag
  worker,    \* worker[b]: where its thread is
  endpoint,  \* endpoint[b]: a port, or b for a Unix socket of its own
  serving,   \* serving[b]: whose connection it serves, or None
  backlog,   \* backlog[b]: connections it has not accepted
  files,     \* files[b]: its files in the rendezvous directory
  \* sidecars
  at,        \* at[s]: where discover_sessions of s is
  todo,      \* todo[s]: records listed and not opened yet
  now,       \* now[s]: the bridge whose record it has opened
  found,     \* found[s]: the sessions it has registered
  \* history variable
  owed       \* owed[s]: bridges that served when s listed the directory
             \* and have not kept s waiting for ten seconds since

processVars == <<alive, slot, joining>>
bridgeVars  == <<home, hooks, stop, worker, endpoint, serving, backlog, files>>
sidecarVars == <<at, todo, now, found, owed>>
vars        == <<processVars, bridgeVars, sidecarVars>>

Hooks == {"observers", "timer"}
Files == {"socket", "secret", "record"}

(* A thread that is writing a file is at that file.  It is closing the      *)
(* listener while it unlinks what it published.                             *)
WorkerStages == {"none", "bind", "secret", "record", "serve", "unlink_socket",
                 "unlink_record", "unlink_secret", "ended", "killed"}

Listening(b) == worker[b] \in {"secret", "record", "serve", "unlink_socket",
                               "unlink_record", "unlink_secret"}

-----------------------------------------------------------------------------
(* The main thread of FreeCAD: start_bridge, stop_bridge. *)

MayStart(p, b) ==
  /\ p \in alive \cap Makers[b]
  /\ joining[p] = None /\ slot[p] = None /\ home[b] = None

(* Observers, timer and worker, then the slot.                              *)
StartBridge(p, b) ==
  /\ MayStart(p, b)
  /\ home' = [home EXCEPT ![b] = p]
  /\ hooks' = [hooks EXCEPT ![b] = Hooks]
  /\ worker' = [worker EXCEPT ![b] = "bind"]
  /\ slot' = [slot EXCEPT ![p] = b]
  /\ UNCHANGED <<alive, joining, stop, endpoint, serving, backlog, files,
                 sidecarVars>>

(* What start registered before it failed stays registered.                 *)
StartFails(p, b) ==
  /\ MayStart(p, b) /\ b \in Fallible
  /\ home' = [home EXCEPT ![b] = p]
  /\ \E left \in {{}, {"observers"}, Hooks} :
       hooks' = [hooks EXCEPT ![b] = left]
  /\ UNCHANGED <<processVars, stop, worker, endpoint, serving, backlog, files,
                 sidecarVars>>

(* stop empties the slot, sets the flag, stops the timer and joins.         *)
StopBridge(p) ==
  /\ p \in alive /\ joining[p] = None /\ slot[p] # None
  /\ slot' = [slot EXCEPT ![p] = None]
  /\ joining' = [joining EXCEPT ![p] = slot[p]]
  /\ stop' = [stop EXCEPT ![slot[p]] = TRUE]
  /\ hooks' = [hooks EXCEPT ![slot[p]] = @ \ {"timer"}]
  /\ UNCHANGED <<alive, home, worker, endpoint, serving, backlog, files,
                 sidecarVars>>

(* Mutant of Stopped: leaves the files to the worker.                       *)
StoppedByWorker(p) ==
  /\ joining[p] # None /\ worker[joining[p]] = "ended"
  /\ joining' = [joining EXCEPT ![p] = None]
  /\ hooks' = [hooks EXCEPT ![joining[p]] = {}]
  /\ UNCHANGED <<alive, slot, home, stop, worker, endpoint, serving, backlog,
                 files, sidecarVars>>

(* The worker has ended: observers and whatever files it left are removed.  *)
Stopped(p) ==
  /\ joining[p] # None /\ worker[joining[p]] = "ended"
  /\ joining' = [joining EXCEPT ![p] = None]
  /\ hooks' = [hooks EXCEPT ![joining[p]] = {}]
  /\ files' = [files EXCEPT ![joining[p]] = {}]
  /\ UNCHANGED <<alive, slot, home, stop, worker, endpoint, serving, backlog,
                 sidecarVars>>

(* FreeCAD dies: threads and connections go, files stay.                    *)
Crash(p) ==
  /\ p \in alive \cap Mortal
  /\ alive' = alive \ {p}
  /\ slot' = [slot EXCEPT ![p] = None]
  /\ joining' = [joining EXCEPT ![p] = None]
  /\ hooks' = [b \in Bridges |-> IF home[b] = p THEN {} ELSE hooks[b]]
  /\ worker' = [b \in Bridges |-> IF home[b] = p THEN "killed" ELSE worker[b]]
  /\ serving' = [b \in Bridges |-> IF home[b] = p THEN None ELSE serving[b]]
  /\ backlog' = [b \in Bridges |-> IF home[b] = p THEN <<>> ELSE backlog[b]]
  /\ UNCHANGED <<home, stop, endpoint, files, sidecarVars>>

-----------------------------------------------------------------------------
(* The worker thread of a bridge: server_loop. *)

(* A step of b's thread from one stage to another.                          *)
Moves(b, from, to) ==
  worker[b] = from /\ worker' = [worker EXCEPT ![b] = to]

Free(port) == \A b \in Bridges : Listening(b) => endpoint[b] # port

Bind(b) ==
  /\ Moves(b, "bind", "secret")
  /\ \/ /\ endpoint' = [endpoint EXCEPT ![b] = b]
        /\ files' = [files EXCEPT ![b] = {"socket"}]
     \/ \E port \in Ports :
          /\ Free(port)
          /\ endpoint' = [endpoint EXCEPT ![b] = port]
          /\ UNCHANGED files
  /\ UNCHANGED <<processVars, home, hooks, stop, serving, backlog,
                 sidecarVars>>

(* bind_listener may fail once the socket is there; the thread just ends.   *)
BindFails(b) ==
  /\ b \in Fallible
  /\ Moves(b, "bind", "ended")
  /\ \E left \in {{}, {"socket"}} : files' = [files EXCEPT ![b] = left]
  /\ UNCHANGED <<processVars, home, hooks, stop, endpoint, serving, backlog,
                 sidecarVars>>

Writes(b, from, to) ==
  /\ Moves(b, from, to)
  /\ files' = [files EXCEPT ![b] = @ \cup {from}]
  /\ UNCHANGED <<processVars, home, hooks, stop, endpoint, serving, backlog,
                 sidecarVars>>

(* Mutant of Publish: writes the record first.                              *)
PublishRecordFirst(b) ==
  /\ \/ worker[b] = "secret" /\ worker' = [worker EXCEPT ![b] = "record"]
        /\ files' = [files EXCEPT ![b] = @ \cup {"record"}]
     \/ worker[b] = "record" /\ worker' = [worker EXCEPT ![b] = "serve"]
        /\ files' = [files EXCEPT ![b] = @ \cup {"secret"}]
  /\ UNCHANGED <<processVars, home, hooks, stop, endpoint, serving, backlog,
                 sidecarVars>>

(* atomic_secret, then atomic_json: each is renamed into place when it is   *)
(* complete.                                                                *)
Publish(b) == Writes(b, "secret", "record") \/ Writes(b, "record", "serve")

(* A write may fail before or after the rename.                             *)
PublishFails(b) ==
  /\ b \in Fallible
  /\ \E stage \in {"secret", "record"} :
       /\ Moves(b, stage, "unlink_socket")
       /\ \E left \in {{}, {stage}} :
            files' = [files EXCEPT ![b] = @ \cup left]
  /\ UNCHANGED <<processVars, home, hooks, stop, endpoint, serving, backlog,
                 sidecarVars>>

(* Between two connections the loop looks at the stop flag.                 *)
StopSeen(b) ==
  /\ stop[b] /\ serving[b] = None
  /\ Moves(b, "serve", "unlink_socket")
  /\ UNCHANGED <<processVars, home, hooks, stop, endpoint, serving, backlog,
                 files, sidecarVars>>

(* Mutant of AcceptFails: the thread ends and leaves the files.             *)
AcceptFailsOpen(b) ==
  /\ serving[b] = None /\ b \in Fallible
  /\ Moves(b, "serve", "ended")
  /\ backlog' = [backlog EXCEPT ![b] = <<>>]
  /\ UNCHANGED <<processVars, home, hooks, stop, endpoint, serving, files,
                 sidecarVars>>

(* Any other error of accept ends the loop as well.                         *)
AcceptFails(b) ==
  /\ serving[b] = None /\ b \in Fallible
  /\ Moves(b, "serve", "unlink_socket")
  /\ UNCHANGED <<processVars, home, hooks, stop, endpoint, serving, backlog,
                 files, sidecarVars>>

(* The flag may have been set after the loop looked at it.                  *)
Accept(b) ==
  /\ worker[b] = "serve" /\ serving[b] = None /\ backlog[b] # <<>>
  /\ serving' = [serving EXCEPT ![b] = Head(backlog[b])]
  /\ backlog' = [backlog EXCEPT ![b] = Tail(@)]
  /\ UNCHANGED <<processVars, home, hooks, stop, worker, endpoint, files,
                 sidecarVars>>

(* read_frame reports that the client has gone.                             *)
ClientGone(b) ==
  /\ serving[b] # None
  /\ at[serving[b]] \in {"gone", "failed"}
  /\ serving' = [serving EXCEPT ![b] = None]
  /\ UNCHANGED <<processVars, home, hooks, stop, worker, endpoint, backlog,
                 files, sidecarVars>>

Removes(b, file, from, to) ==
  /\ Moves(b, from, to)
  /\ files' = [files EXCEPT ![b] = @ \ {file}]
  /\ backlog' = [backlog EXCEPT ![b] = IF to = "ended" THEN <<>> ELSE @]
  /\ UNCHANGED <<processVars, home, hooks, stop, endpoint, serving,
                 sidecarVars>>

(* Rendezvous::close, and with the end of the thread the listener closes.   *)
Unlink(b) ==
  \/ Removes(b, "socket", "unlink_socket", "unlink_record")
  \/ Removes(b, "record", "unlink_record", "unlink_secret")
  \/ Removes(b, "secret", "unlink_secret", "ended")

-----------------------------------------------------------------------------
(* A sidecar: discover_sessions, or the one bridge of --bridge-socket. *)

Sessions(s) == {f.session : f \in found[s]}

Queued(s, b) == \E i \in DOMAIN backlog[b] : backlog[b][i] = s

(* s waits for b's answer to its authentication.                            *)
Pairing(s, b) ==
  /\ at[s] = "pair" /\ serving[b] = s /\ b \notin Sessions(s)
  /\ \A other \in Bridges : ~ Queued(s, other)

(* Records are files named *.json: read_dir lists those there are.          *)
List(s) ==
  /\ at[s] = "new" /\ Direct[s] = None
  /\ todo' = [todo EXCEPT ![s] = {b \in Bridges : "record" \in files[b]}]
  /\ owed' = [owed EXCEPT ![s] = {b \in Bridges : worker[b] = "serve"}]
  /\ at' = [at EXCEPT ![s] = "next"]
  /\ UNCHANGED <<processVars, bridgeVars, now, found>>

(* Its user has seen the bridge's record and gives it the endpoint and the  *)
(* secret named there.                                                      *)
Choose(s) ==
  /\ at[s] = "new" /\ Direct[s] # None
  /\ "record" \in files[Direct[s]]
  /\ now' = [now EXCEPT ![s] = Direct[s]]
  /\ at' = [at EXCEPT ![s] = "secret"]
  /\ UNCHANGED <<processVars, bridgeVars, todo, found, owed>>

(* A listed record that cannot be read any more ends the whole discovery.   *)
Open(s, b) ==
  /\ at[s] = "next" /\ b \in todo[s]
  /\ todo' = [todo EXCEPT ![s] = @ \ {b}]
  /\ now' = [now EXCEPT ![s] = b]
  /\ at' = [at EXCEPT ![s] =
              IF "record" \in files[b] THEN "secret" ELSE "failed"]
  /\ UNCHANGED <<processVars, bridgeVars, found, owed>>

(* Any later failure leaves this one record out.  With one bridge to talk   *)
(* to, every failure ends the process.                                      *)
Without(s) == IF Direct[s] = None THEN "next" ELSE "failed"

ReadSecret(s) ==
  /\ at[s] = "secret"
  /\ at' = [at EXCEPT ![s] =
              IF "secret" \in files[now[s]] THEN "connect" ELSE Without(s)]
  /\ UNCHANGED <<processVars, bridgeVars, todo, now, found, owed>>

(* Whoever listens at the endpoint the record names.                        *)
Reached(s) ==
  {b \in Bridges : /\ Listening(b)
                   /\ endpoint[b] = endpoint[now[s]]
                   /\ endpoint[b] = b => "socket" \in files[b]}

(* Mutant of ConnectFails: ends the discovery, as it does for the record.   *)
ConnectFailsForGood(s) ==
  /\ at[s] = "connect" /\ Reached(s) = {}
  /\ at' = [at EXCEPT ![s] = "up"]
  /\ UNCHANGED <<processVars, bridgeVars, todo, now, found, owed>>

ConnectFails(s) ==
  /\ at[s] = "connect" /\ Reached(s) = {}
  /\ at' = [at EXCEPT ![s] = Without(s)]
  /\ UNCHANGED <<processVars, bridgeVars, todo, now, found, owed>>

(* Mutant of Connect: does not wait for the answer.                         *)
ConnectAgain(s) ==
  /\ at[s] = "connect"
  /\ \E b \in Reached(s) :
       backlog' = [backlog EXCEPT ![b] = Append(@, s)]
  /\ UNCHANGED <<processVars, home, hooks, stop, worker, endpoint, serving,
                 files, sidecarVars>>

Connect(s) ==
  /\ at[s] = "connect"
  /\ \E b \in Reached(s) :
       backlog' = [backlog EXCEPT ![b] = Append(@, s)]
  /\ at' = [at EXCEPT ![s] = "pair"]
  /\ UNCHANGED <<processVars, home, hooks, stop, worker, endpoint, serving,
                 files, todo, now, found, owed>>

(* The main thread polls the queue of the bridge in its slot, no other.     *)
Polled(b) == \E p \in alive : slot[p] = b

(* Mutant of Genuine: verify_pairing lets every proof pass.                 *)
GenuineAlways(s, b) == TRUE

(* Every bridge has a secret of its own, and s read that of the record.     *)
Genuine(s, b) == now[s] = b

(* The bridge's proof of its identity names the session.                    *)
Paired(s, b) ==
  /\ Pairing(s, b) /\ Polled(b) /\ Genuine(s, b)
  /\ found' = [found EXCEPT ![s] = @ \cup {[session |-> b, record |-> now[s]]}]
  /\ at' = [at EXCEPT ![s] = "next"]
  /\ UNCHANGED <<processVars, bridgeVars, todo, now, owed>>

Dismissed(s, b) ==
  /\ serving' = [serving EXCEPT ![b] = None]
  /\ at' = [at EXCEPT ![s] = Without(s)]
  /\ UNCHANGED <<processVars, home, hooks, stop, worker, endpoint, backlog,
                 files, todo, now, found>>

(* permission_denied: s drops the connection.                               *)
Refused(s, b) ==
  /\ Pairing(s, b) /\ Polled(b) /\ ~ Genuine(s, b)
  /\ Dismissed(s, b) /\ UNCHANGED owed

(* Mutant of Busy: enqueue waits without a timeout.                         *)
BusyNever(s, b) == FALSE

(* bridge_busy: the main thread did not get to the request in ten seconds.  *)
Busy(s, b) ==
  /\ Pairing(s, b) /\ Dismissed(s, b)
  /\ owed' = [owed EXCEPT ![s] = @ \ {b}]

(* The connection was closed before an answer came.                         *)
HungUp(s) ==
  /\ at[s] = "pair"
  /\ \A b \in Bridges : ~ Queued(s, b) /\ ~ Pairing(s, b)
  /\ at' = [at EXCEPT ![s] = Without(s)]
  /\ UNCHANGED <<processVars, bridgeVars, todo, now, found, owed>>

Finish(s) ==
  /\ at[s] = "next" /\ todo[s] = {}
  /\ at' = [at EXCEPT ![s] = "up"]
  /\ UNCHANGED <<processVars, bridgeVars, todo, now, found, owed>>

(* The MCP host may end the sidecar at any time.                            *)
Exit(s) ==
  /\ at[s] \notin {"new", "failed", "gone"}
  /\ at' = [at EXCEPT ![s] = "gone"]
  /\ UNCHANGED <<processVars, bridgeVars, todo, now, found, owed>>

-----------------------------------------------------------------------------

Init ==
  /\ alive = Processes
  /\ slot = [p \in Processes |-> None]
  /\ joining = [p \in Processes |-> None]
  /\ home = [b \in Bridges |-> None]
  /\ hooks = [b \in Bridges |-> {}]
  /\ stop = [b \in Bridges |-> FALSE]
  /\ worker = [b \in Bridges |-> "none"]
  /\ endpoint = [b \in Bridges |-> None]
  /\ serving = [b \in Bridges |-> None]
  /\ backlog = [b \in Bridges |-> <<>>]
  /\ files = [b \in Bridges |-> {}]
  /\ at = [s \in Sidecars |-> "new"]
  /\ todo = [s \in Sidecars |-> {}]
  /\ now = [s \in Sidecars |-> None]
  /\ found = [s \in Sidecars |-> {}]
  /\ owed = [s \in Sidecars |-> {}]

Answer(s, b) == Paired(s, b) \/ Refused(s, b) \/ Busy(s, b)

Next ==
  \/ \E p \in Processes, b \in Bridges : StartBridge(p, b) \/ StartFails(p, b)
  \/ \E p \in Processes : StopBridge(p) \/ Stopped(p) \/ Crash(p)
  \/ \E b \in Bridges :
       \/ Bind(b) \/ BindFails(b) \/ Publish(b) \/ PublishFails(b)
       \/ StopSeen(b) \/ AcceptFails(b) \/ Accept(b) \/ ClientGone(b)
       \/ Unlink(b)
  \/ \E s \in Sidecars, b \in Bridges : Open(s, b) \/ Answer(s, b)
  \/ \E s \in Sidecars :
       \/ List(s) \/ Choose(s) \/ ReadSecret(s) \/ ConnectFails(s) 
       \/ Connect(s) \/ HungUp(s) \/ Finish(s) \/ Exit(s)

(* The worker thread runs, and its wait for the main thread is bounded.     *)
WorkerRuns(b) ==
  \/ Bind(b) \/ BindFails(b) \/ Publish(b) \/ PublishFails(b)
  \/ StopSeen(b) \/ Accept(b) \/ ClientGone(b) \/ Unlink(b)
  \/ \E s \in Sidecars : Answer(s, b)

(* So does a sidecar, unless it waits for an answer.                        *)
SidecarRuns(s) ==
  \/ List(s) \/ ReadSecret(s) \/ ConnectFails(s) \/ Connect(s)
  \/ HungUp(s) \/ Finish(s)
  \/ \E b \in Bridges : Open(s, b)

Fairness ==
  /\ \A b \in Bridges : WF_vars(WorkerRuns(b))
  /\ \A s \in Sidecars : WF_vars(SidecarRuns(s))

Spec == Init /\ [][Next]_vars /\ Fairness

-----------------------------------------------------------------------------

(* A sidecar waits in one backlog at a time, and only once.                 *)
TypeOK ==
  /\ alive \subseteq Processes
  /\ slot \in [Processes -> Bridges \cup {None}]
  /\ joining \in [Processes -> Bridges \cup {None}]
  /\ home \in [Bridges -> Processes \cup {None}]
  /\ hooks \in [Bridges -> SUBSET Hooks]
  /\ stop \in [Bridges -> BOOLEAN]
  /\ worker \in [Bridges -> WorkerStages]
  /\ endpoint \in [Bridges -> Bridges \cup Ports \cup {None}]
  /\ serving \in [Bridges -> Sidecars \cup {None}]
  /\ backlog \in [Bridges -> Seq(Sidecars)]
  /\ \A b \in Bridges : Len(backlog[b]) <= Cardinality(Sidecars)
  /\ files \in [Bridges -> SUBSET Files]
  /\ at \in [Sidecars -> {"new", "next", "secret", "connect", "pair", "up",
                          "failed", "gone"}]
  /\ todo \in [Sidecars -> SUBSET Bridges]
  /\ now \in [Sidecars -> Bridges \cup {None}]
  /\ found \in [Sidecars -> SUBSET [session : Bridges, record : Bridges]]
  /\ owed \in [Sidecars -> SUBSET Bridges]

(* A record never appears before the secret it points to and never          *)
(* outlives it, whatever fails and whenever FreeCAD dies: a sidecar that    *)
(* can still read the record can read the secret (Rendezvous::publish,      *)
(* close).                                                                  *)
RecordMeansSecret ==
  \A b \in Bridges : "record" \in files[b] => "secret" \in files[b]

(* When stop_bridge has returned, nothing of the bridge is left: its thread *)
(* has ended, FreeCAD calls none of its observers, and none of its files    *)
(* lies in the rendezvous directory, however far the thread had come when   *)
(* the flag was set and whatever had failed in it (BridgeState::stop).      *)
StopCleans ==
  \A b \in Bridges :
    (stop[b] /\ home[b] \in alive /\ joining[home[b]] # b) =>
      worker[b] = "ended" /\ hooks[b] = {} /\ files[b] = {}

(* pairing_status says "ready" when the record of the bridge in the slot is *)
(* there.  It is never said of a bridge nobody can connect to.              *)
ReadyIsServed ==
  \A p \in Processes, b \in Bridges :
    (slot[p] = b /\ "record" \in files[b]) => Listening(b)

(* A sidecar that comes up has a session with every bridge that served all  *)
(* the while and was not busy for ten seconds, whatever the records of      *)
(* stopped, failed or crashed bridges made of its other connections         *)
(* (discover_sessions).                                                     *)
EveryServingIsFound ==
  \A s \in Sidecars : at[s] = "up" =>
    \A b \in owed[s] : worker[b] = "serve" => b \in Sessions(s)

(* A session is never registered on the record of another bridge, also when *)
(* a crashed FreeCAD's port is listened to by a new one (verify_pairing).   *)
RegisteredAreGenuine ==
  \A s \in Sidecars : \A f \in found[s] : f.session = f.record

Discovering(s) == at[s] \in {"next", "secret", "connect", "pair"}

NotKeptOut(s) == \A b \in Bridges : Queued(s, b) => serving[b] = None

(* discover_sessions ends, on its own or with an error, unless it waits     *)
(* behind a connection that is never closed: IpcClient reads without a      *)
(* timeout, so the ten seconds of the bridge are all that bounds it.        *)
DiscoveryEnds ==
  \A s \in Sidecars :
    []<>NotKeptOut(s) => (Discovering(s) ~> ~ Discovering(s))

=============================================================================
