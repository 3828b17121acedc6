--------------------------- MODULE AdbdProcesses ---------------------------
(***************************************************************************)
(* The application's daemons: the activity asks, on its main thread, the   *)
(* AdbdService of another process (AdbdManager.java), which forks daemons, *)
(* lists them by port and asks waitpid whether they run (AdbdService.java, *)
(* Adbd.java, adbd.cpp).  The system restarts a service that died and      *)
(* tells every connection again.                                           *)
(***************************************************************************)
EXTENDS Integers, Sequences, FiniteSets

CONSTANTS
  Ports,
  MaxClicks,      \* bound on the buttons pressed
  MaxPids,        \* bound on the daemons ever forked
  MaxInstances,   \* bound on the processes the service ever has
  MaxConns        \* bound on the connections ever made

ASSUME ProcessesAssumption == {MaxClicks, MaxPids, MaxInstances, MaxConns} \subseteq Nat

Pids == 1 .. MaxPids
Instances == 1 .. MaxInstances

VARIABLES
  clicks,     \* buttons pressed
  messages,   \* refresh messages the handler has
  bound,      \* mService: the instance of the service it talks to, 0 when null
  conns,      \* what was asked of each ServiceConnection
  told,       \* the connections this instance's onServiceConnected reached
  service,    \* the instance that runs, or 0
  instance,   \* instances there were
  listed,     \* sAdbds: the pid of the Adbd at each port
  forked,     \* daemons forked
  child,      \* each: none, running, killed, exited, reaped
  place,      \* each one's port and the instance that forked it
  outcome,    \* what was last asked and answered
  failedFork, \* ports where fork failed in this instance
  lost        \* history: refreshes that were told an error

clientVars == <<clicks, messages, bound, conns, told, lost>>
serviceVars == <<service, instance>>
daemonVars == <<listed, forked, child, place, failedFork>>
processVars == <<clientVars, serviceVars, daemonVars, outcome>>

Run(p) == [op |-> "run", port |-> p]
KillAll == [op |-> "killAll", port |-> 0]
GetAll == [op |-> "getAll", port |-> 0]
Asked(r, a) == [ask |-> r, answer |-> a]
Nothing == Asked([op |-> "none", port |-> 0], "none")

NoPlace == [port |-> 0, of |-> 0]

ProcessesInit ==
  /\ clicks = 0 /\ messages = 1 /\ bound = 0 /\ conns = <<>> /\ told = {} /\ lost = 0
  /\ service = 0 /\ instance = 0
  /\ listed = <<>> /\ forked = 0 /\ failedFork = {}
  /\ child = [d \in Pids |-> "none"] /\ place = [d \in Pids |-> NoPlace]
  /\ outcome = Nothing

-----------------------------------------------------------------------------
\* In the service.

\* nativeIsRunning: waitpid(pid, WNOHANG) != pid.  An end is reported once; after
\* that waitpid fails, which reads as running.
SaysRunning(d) == child[d] # "exited"
Reaped(D) == [d \in Pids |-> IF d \in D /\ child[d] = "exited" THEN "reaped" ELSE child[d]]
ListedPids == {listed[p] : p \in DOMAIN listed}
ListedOnly(P) == [p \in P |-> listed[p]]
Refused(p) == p \in DOMAIN listed /\ SaysRunning(listed[p])

\* run(port): the new daemon takes the place of one that is gone.
RunForks(p) ==
  /\ ~ Refused(p) /\ forked < MaxPids
  /\ forked' = forked + 1
  /\ child' = [Reaped({listed[q] : q \in DOMAIN listed \cap {p}}) EXCEPT ![forked'] = "running"]
  /\ listed' = [q \in DOMAIN listed \cup {p} |-> IF q = p THEN forked' ELSE listed[q]]
  /\ place' = [place EXCEPT ![forked'] = [port |-> p, of |-> service]]
  /\ outcome' = Asked(Run(p), "ok")
  /\ UNCHANGED failedFork

\* fork failed: run answers false, which AdbdManager.run does not look at.
RunForkFails(p) ==
  /\ ~ Refused(p)
  /\ child' = Reaped({listed[q] : q \in DOMAIN listed \cap {p}})
  /\ failedFork' = failedFork \cup {p}
  /\ outcome' = Asked(Run(p), "ok")
  /\ UNCHANGED <<listed, forked, place>>

RunRefused(p) ==
  /\ Refused(p)
  /\ outcome' = Asked(Run(p), "error")
  /\ UNCHANGED daemonVars

\* killAll: a daemon that says it runs gets SIGKILL, is not waited for, and all are
\* forgotten.
KillsAll ==
  /\ child' = [d \in Pids |->
       IF d \notin ListedPids THEN child[d]
       ELSE CASE child[d] = "running" -> "killed"
              [] child[d] = "exited"  -> "reaped"
              [] OTHER                -> child[d]]
  /\ listed' = <<>> /\ failedFork' = {}
  /\ outcome' = Asked(KillAll, "ok")
  /\ UNCHANGED <<forked, place>>

\* getAll: those that are gone are dropped from the list.
GetsAll ==
  /\ child' = Reaped(ListedPids)
  /\ listed' = ListedOnly({p \in DOMAIN listed : SaysRunning(listed[p])})
  /\ failedFork' = failedFork \cap DOMAIN listed'
  /\ outcome' = Asked(GetAll, "ok")
  /\ UNCHANGED <<forked, place>>

\* A call of the service; that of a dead instance throws.
Call(r, b) ==
  IF b # service
    THEN /\ outcome' = Asked(r, "error") /\ UNCHANGED daemonVars
    ELSE CASE r.op = "run"     -> RunForks(r.port) \/ RunForkFails(r.port) \/ RunRefused(r.port)
           [] r.op = "killAll" -> KillsAll
           [] r.op = "getAll"  -> GetsAll

-----------------------------------------------------------------------------
\* The activity, on its main thread.

\* The listener of a refresh: onGetAll has the next message sent, onError does not.
Listens(r, taken) ==
  LET again == r = GetAll /\ outcome'.answer = "ok"
      missed == r = GetAll /\ outcome'.answer = "error"
  IN /\ messages' = messages - taken + (IF again THEN 1 ELSE 0)
     /\ lost' = lost + (IF missed THEN 1 ELSE 0)

\* bindService: calls at once, or makes a connection that will.
Asks(r, taken) ==
  \/ /\ bound = 0 /\ Len(conns) < MaxConns
     /\ conns' = Append(conns, r)
     /\ messages' = messages - taken
     /\ UNCHANGED <<bound, told, lost, serviceVars, daemonVars, outcome>>
  \/ /\ bound # 0
     /\ Call(r, bound) /\ Listens(r, taken)
     /\ UNCHANGED <<bound, conns, told, serviceVars>>

Click ==
  /\ clicks < MaxClicks
  /\ clicks' = clicks + 1
  /\ \E r \in {Run(p) : p \in Ports} \cup {KillAll} : Asks(r, 0)

\* handleMessage
Refresh == messages > 0 /\ Asks(GetAll, 1) /\ UNCHANGED clicks

\* Mutant: only the first connection is told.
ConnectedFirst(i) ==
  /\ service # 0 /\ i \in DOMAIN conns /\ i \notin told
  /\ bound = 0 /\ bound' = service
  /\ told' = told \cup {i}
  /\ Call(conns[i], service) /\ Listens(conns[i], 0)
  /\ UNCHANGED <<clicks, conns, serviceVars>>

\* onServiceConnected of a connection: on its first instance and on every later one.
Connected(i) ==
  /\ service # 0 /\ i \in DOMAIN conns /\ i \notin told
  /\ bound' = service
  /\ told' = told \cup {i}
  /\ Call(conns[i], service) /\ Listens(conns[i], 0)
  /\ UNCHANGED <<clicks, conns, serviceVars>>

\* onServiceDisconnected, onBindingDied
Disconnected ==
  /\ bound # 0 /\ bound # service
  /\ bound' = 0
  /\ UNCHANGED <<clicks, messages, conns, told, lost, serviceVars, daemonVars, outcome>>

-----------------------------------------------------------------------------
\* The system.

\* BIND_AUTO_CREATE: the service's process is started, and again when it died.
ServiceStarts ==
  /\ service = 0 /\ conns # <<>> /\ instance < MaxInstances
  /\ bound = 0
  /\ instance' = instance + 1 /\ service' = instance'
  /\ told' = {}
  /\ UNCHANGED <<clicks, messages, bound, conns, lost, daemonVars, outcome>>

\* Its list is gone.  A daemon may outlive it, and is nobody's child then.
ServiceDies ==
  /\ service # 0 /\ instance < MaxInstances
  /\ service' = 0 /\ listed' = <<>> /\ failedFork' = {}
  /\ \E D \in SUBSET {d \in Pids : child[d] = "running"} :
       child' = [d \in Pids |-> IF d \in D THEN "reaped" ELSE child[d]]
  /\ outcome' = Nothing
  /\ UNCHANGED <<clientVars, instance, forked, place>>

DaemonExits(d) ==
  /\ child[d] = "running"
  /\ child' = [child EXCEPT ![d] = "exited"]
  /\ outcome' = Nothing
  /\ UNCHANGED <<clientVars, serviceVars, listed, forked, place, failedFork>>

ProcessesNext ==
  \/ Click \/ Refresh \/ Disconnected \/ ServiceStarts \/ ServiceDies
  \/ \E i \in 1 .. MaxConns : Connected(i)
  \/ \E d \in Pids : DaemonExits(d)

-----------------------------------------------------------------------------
Ours(d) == service # 0 /\ place[d].of = service
Gone(d) == child[d] \in {"exited", "reaped"}

ProcessesTypeOK ==
  /\ clicks \in 0 .. MaxClicks /\ messages \in Nat /\ lost \in Nat
  /\ bound \in {0} \cup Instances /\ service \in {0} \cup Instances
  /\ instance \in {0} \cup Instances
  /\ conns \in Seq({Run(p) : p \in Ports} \cup {KillAll, GetAll}) /\ told \subseteq DOMAIN conns
  /\ DOMAIN listed \subseteq Ports /\ ListedPids \subseteq Pids /\ failedFork \subseteq Ports
  /\ child \in [Pids -> {"none", "running", "killed", "exited", "reaped"}]
  /\ place \in [Pids -> [port : {0} \cup Ports, of : {0} \cup Instances]]
  /\ forked \in 0 .. MaxPids

\* A daemon that runs is listed at its port, by the service that forked it: so there is
\* one for a port at most, killAll reaches it and getAll shows it, however calls and
\* exits alternate (AdbdService.java, run, killAll, getAll).
RunningListed ==
  \A d \in Pids : child[d] = "running" /\ Ours(d) =>
    place[d].port \in DOMAIN listed /\ listed[place[d].port] = d

\* A listed daemon was not reaped, so that the next look at it is right; except after a
\* fork that failed, which leaves the one it was to replace listed for good
\* (adbd.cpp, nativeIsRunning; AdbdService.java, run).
ListedNotReaped ==
  \A p \in DOMAIN listed : child[listed[p]] \in {"running", "exited"} \/ p \in failedFork

\* run is refused only when the daemon of the port runs, or a fork failed there.
RefusedRunning ==
  [][\A p \in Ports : outcome' = Asked(Run(p), "error") /\ outcome # outcome' /\ bound' = service =>
       \/ p \in DOMAIN listed /\ child[listed[p]] = "running"
       \/ p \in failedFork]_processVars

\* One refresh is on its way at any time, as a message or as a connection not told yet,
\* unless one was told an error or the service was started again: each connection of a
\* refresh that is told again starts another (AdbdActivity.java, Handler).
Refreshes == messages + Cardinality({i \in DOMAIN conns \ told : conns[i] = GetAll})
OneRefresh == lost = 0 /\ instance <= 1 => Refreshes = 1

\* What a connection was made for is carried out (AdbdManager.java, bindService).
ConnectionsServed ==
  \A i \in 1 .. MaxConns : (i \in DOMAIN conns \ told) ~> (i \in told)

\* The daemons the app's service starts (adbd.cpp, Adbd.java, AdbdService.java): those that run
\* are listed, one refresh is under way at most, and every connection is served.
ProcessesCorrect ==
  /\ []ProcessesTypeOK /\ []RunningListed /\ []ListedNotReaped /\ []OneRefresh
  /\ RefusedRunning /\ ConnectionsServed
=============================================================================
