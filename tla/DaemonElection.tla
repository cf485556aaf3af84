--------------------------- MODULE DaemonElection ---------------------------
(***************************************************************************)
(* How one daemon comes to serve a state directory: the lock files of      *)
(* src/src/shared/daemon-startup.ts taken system call by system call, the  *)
(* launchers of the hosts (client/daemon-launcher.ts, plugin-opencode/     *)
(* daemon-launcher.ts, plugin-claude/bin/ensure-daemon.mjs), the startup   *)
(* of a daemon up to its sockets (daemon/index.ts), and the handover to a  *)
(* newer build.                                                            *)
(* A process is named by the token of the lock it may hold; a name is used *)
(* again when no file and no other process remembers it.  Time is a choice *)
(* of the step that ends a wait and of the one that makes a lock old.      *)
(***************************************************************************)
EXTENDS Naturals

CONSTANTS
  Launcher, Daemon,  \* names of processes
  None,
  Build,             \* the packaged build of each launcher
  Killing,           \* launchers that stop a child that does not answer (Codex)
  MaxFaults          \* bound: kills, idle stops, probes that are not answered in time, waits cut short

BuildType == [release: Nat, time: Nat, asks: BOOLEAN]

ASSUME NoneAssumption == None \notin Launcher \cup Daemon /\ Launcher \cap Daemon = {}
(* What comes before requestHandover replaces nothing, and is older than all that does: *)
(* whatever its release is, it counts as unknown.                                       *)
ASSUME BuildAssumption ==
  /\ Build \in [Launcher -> BuildType]
  /\ \A l \in Launcher : Build[l].asks \/ Build[l].release = 0
ASSUME BoundAssumption == Killing \subseteq Launcher /\ MaxFaults \in Nat

VARIABLES
  file,      \* daemon-start.lock and daemon.lock
  socket,    \* the daemon bound to the historical socket
  st,        \* where each process is
  acq,       \* where it is in taking a lock
  build,     \* the build of each daemon
  token,     \* the launcher whose start lock a daemon inherited
  child,     \* the daemon a launcher waits for, or asks to hand over
  faults,    \* minor ones, which cost time only, and major ones
  served,    \* history: the build of the daemon that last began to serve
  rivals     \* history: the daemons that were closing the socket when it was last bound

procVars == <<st, acq, build, token, child>>
vars == <<file, socket, procVars, faults, served, rivals>>

-----------------------------------------------------------------------------
Proc == Launcher \cup Daemon
Lock == {"start", "daemon"}

Absent == [owner |-> None, written |-> FALSE, old |-> FALSE]

NoAcq == [step |-> "none", attempt |-> 1, judged |-> None]

(* UNKNOWN_BUILD *)
Unknown == [release |-> 0, time |-> 0, asks |-> TRUE]

(* compareDaemonBuilds(candidate, running) = "newer"; a release is its rank, 0 when *)
(* it is unknown.                                                                   *)
Newer(candidate, running) ==
  /\ candidate.release > 0
  /\ \/ candidate.release > running.release
     \/ /\ candidate.release = running.release
        /\ candidate.time > 0 /\ running.time > 0
        /\ candidate.time > running.time

Alive(p) == st[p] # "off"

(* readLockOwner *)
Owner(k) == IF file[k].written THEN file[k].owner ELSE None

(* A daemon that has yet to bind the socket, one that closes it, and one on its way out *)
Early == {"booting", "locked", "bridging", "bridged", "unbound"}
Closing == {"closing", "unlinked"}
Leaving == Closing \cup {"stopping", "closed"}

(* Somebody accepts connections on the historical socket *)
Reachable == socket # None /\ Alive(socket)

(* daemonLockHeld *)
DaemonLockHeld == Owner("daemon") # None /\ Alive(Owner("daemon"))

(* isDaemonStarting *)
DaemonStarting == DaemonLockHeld /\ ~file["daemon"].old

Fault(kind) ==
  /\ faults.minor + faults.major < MaxFaults
  /\ faults' = [faults EXCEPT ![kind] = @ + 1]

(* A wait that ends before what it is about is gone is a fault *)
Ends(gone) == IF gone THEN UNCHANGED faults ELSE Fault("major")

(* isSocketReachable, inspectDaemon: a busy daemon may not answer in time, even *)
(* when it is given as long as SOCKET_TAKEOVER_PROBE_MS                         *)
Answered == Reachable /\ UNCHANGED faults
Unanswered == Ends(~Reachable)

Goto(p, to) == st' = [st EXCEPT ![p] = to]
In(p, from) == st[p] = from

(* releaseDaemonLock, releaseDaemonStartLock *)
Without(f, k, p) == IF f[k].written /\ f[k].owner = p THEN [f EXCEPT ![k] = Absent] ELSE f

-----------------------------------------------------------------------------
(* acquireDaemonLock, acquireDaemonStartLock                                 *)

LockOf(p) == IF st[p] = "booting" THEN "daemon" ELSE "start"

AcqVars == <<socket, build, token, child, served, rivals>>

At(p, step) == acq[p].step = step
Step(p, to) == acq' = [acq EXCEPT ![p].step = to]

(* Where a process goes on when it has the lock, and when it has not *)
AfterAcquired(p) ==
  CASE st[p] = "booting"  -> "locked"
    [] st[p] = "bridging" -> "bridged"
    [] OTHER              -> "holding"

(* A daemon counts the lock of the launcher that spawned it as its own; the   *)
(* launchers wait once and try again.                                         *)
Inherits(d) == token[d] # None /\ Owner("start") = token[d]

AfterRefused(p) ==
  CASE st[p] = "booting"  -> "exiting"
    [] st[p] = "bridging" -> IF Inherits(p) THEN "bridged" ELSE "exiting"
    [] st[p] = "locking"  -> "waiting"
    [] OTHER              -> "off"

Acquired(p) == Goto(p, AfterAcquired(p)) /\ acq' = [acq EXCEPT ![p] = NoAcq]
Refused(p) == Goto(p, AfterRefused(p)) /\ acq' = [acq EXCEPT ![p] = NoAcq]

(* openSync with "wx" *)
Create(p) ==
  /\ At(p, "create")
  /\ IF file[LockOf(p)] = Absent
     THEN file' = [file EXCEPT ![LockOf(p)].owner = p] /\ Step(p, "write")
     ELSE UNCHANGED file /\ Step(p, "judge")
  /\ UNCHANGED <<st, AcqVars, faults>>

(* The descriptor outlives the name: what was removed meanwhile is written unseen *)
Write(p) ==
  /\ At(p, "write")
  /\ file' = IF file[LockOf(p)].owner = p THEN [file EXCEPT ![LockOf(p)].written = TRUE] ELSE file
  /\ Acquired(p)
  /\ UNCHANGED <<AcqVars, faults>>

(* Mutant: a lock without an owner is never stale *)
MutStale(k) == file[k] # Absent /\ file[k].old /\ Owner(k) # None /\ ~Alive(Owner(k))

(* lockIsStale; a lock that is gone is not stale *)
Stale(k) == file[k] # Absent /\ file[k].old /\ (Owner(k) # None => ~Alive(Owner(k)))

Remember(p, to) == acq' = [acq EXCEPT ![p].step = to, ![p].judged = Owner(LockOf(p))]

Judge(p) ==
  /\ At(p, "judge")
  /\ IF LockOf(p) = "start"
     THEN IF Stale("start") THEN Remember(p, "unlink") /\ UNCHANGED st ELSE Refused(p)
     ELSE LET owner == Owner("daemon") IN
          CASE owner = None -> IF Stale("daemon") THEN Remember(p, "recheck") /\ UNCHANGED st
                                                  ELSE Refused(p)
            [] owner # None /\ Alive(owner) ->
                 IF file["daemon"].old THEN Remember(p, "probe") /\ UNCHANGED st ELSE Refused(p)
            [] OTHER -> Remember(p, "recheck") /\ UNCHANGED st
  /\ UNCHANGED <<file, AcqVars, faults>>

(* isServing, for an owner that lives *)
ProbeOwner(p) ==
  /\ At(p, "probe")
  /\ \/ Answered /\ Refused(p)
     \/ Unanswered /\ Step(p, "recheck") /\ UNCHANGED st
  /\ UNCHANGED <<file, AcqVars>>

Recheck(p) ==
  /\ At(p, "recheck")
  /\ IF Owner("daemon") # acq[p].judged THEN Refused(p) ELSE Step(p, "unlink") /\ UNCHANGED st
  /\ UNCHANGED <<file, AcqVars, faults>>

Unlink(p) ==
  /\ At(p, "unlink")
  /\ file' = [file EXCEPT ![LockOf(p)] = Absent]
  /\ IF acq[p].attempt = 2 THEN Refused(p)
     ELSE acq' = [acq EXCEPT ![p] = [NoAcq EXCEPT !.step = "create", !.attempt = 2]] /\ UNCHANGED st
  /\ UNCHANGED <<AcqVars, faults>>

Acquire(p) == \/ Create(p) \/ Write(p) \/ Judge(p) \/ ProbeOwner(p) \/ Recheck(p) \/ Unlink(p)

Acquiring(p, phase) ==
  /\ Goto(p, phase)
  /\ acq' = [acq EXCEPT ![p] = [NoAcq EXCEPT !.step = "create"]]

-----------------------------------------------------------------------------
(* A daemon's startup                                                        *)

(* The process is gone, having released what it holds of the given locks *)
Exit(d, locks) ==
  /\ file' = [k \in Lock |-> IF k \in locks THEN Without(file, k, d)[k] ELSE file[k]]
  /\ Goto(d, "off")
  /\ acq' = [acq EXCEPT ![d] = NoAcq]
  /\ token' = [token EXCEPT ![d] = None]

(* acquireDaemonLock failed, LEGACY_STARTUP_BUSY *)
GiveUp(d) ==
  /\ In(d, "exiting")
  /\ Exit(d, Lock)
  /\ UNCHANGED <<socket, build, child, faults, served, rivals>>

(* A daemon may serve that has no lock *)
CheckSocket(d) ==
  /\ In(d, "locked")
  /\ \/ Answered /\ Exit(d, Lock)
     \/ Unanswered /\ Acquiring(d, "bridging") /\ UNCHANGED <<file, token>>
  /\ UNCHANGED <<socket, build, child, served, rivals>>

(* LegacyV1GuardServer.listen: the probe *)
ProbeSocket(d) ==
  /\ In(d, "bridged")
  /\ \/ Answered /\ Exit(d, Lock)
     \/ Unanswered /\ Goto(d, "unbound") /\ UNCHANGED <<file, acq, token>>
  /\ UNCHANGED <<socket, build, child, served, rivals>>

(* ... and, once it has answered, the path is removed and bound; the bridge's own *)
(* start lock is released.                                                        *)
Bind(d) ==
  /\ In(d, "unbound")
  /\ socket' = d
  /\ rivals' = {e \in Daemon : st[e] \in Closing}
  /\ file' = Without(file, "start", d)
  /\ Goto(d, "bound")
  /\ token' = [token EXCEPT ![d] = None]
  /\ UNCHANGED <<acq, build, child, faults, served>>

(* Mutant: the daemon lock is not looked at again once the socket is bound *)
MutListen(d) ==
  /\ In(d, "bound")
  /\ Goto(d, "listening")
  /\ UNCHANGED <<file, socket, acq, build, token, child, faults, served, rivals>>

(* holdsDaemonLock, then the instance's own socket; the requests on it are answered. *)
(* A startup that lost the lock is aborted, and closes the guard as a stop does.     *)
Listen(d) ==
  /\ In(d, "bound")
  /\ Goto(d, IF Owner("daemon") = d THEN "listening" ELSE "stopping")
  /\ UNCHANGED <<file, socket, acq, build, token, child, faults, served, rivals>>

(* The first discovery is over: the lifecycle starts and listens to handovers *)
Serve(d) ==
  /\ In(d, "listening")
  /\ Goto(d, "serving")
  /\ served' = build[d]
  /\ UNCHANGED <<file, socket, acq, build, token, child, faults, rivals>>

(* lockCheckInterval *)
LoseLock(d) ==
  /\ In(d, "serving") /\ Owner("daemon") # d
  /\ Goto(d, "stopping")
  /\ UNCHANGED <<file, socket, acq, build, token, child, faults, served, rivals>>

(* Mutant: whatever is bound to the path is closed *)
MutCloseGuard(d) ==
  /\ In(d, "stopping")
  /\ Goto(d, "closing")
  /\ UNCHANGED <<file, socket, acq, build, token, child, faults, served, rivals>>

(* LegacyV1GuardServer.close, as the shutdown begins: is the path still this daemon's? *)
CloseGuard(d) ==
  /\ In(d, "stopping")
  /\ Goto(d, IF socket = d THEN "closing" ELSE "closed")
  /\ UNCHANGED <<file, socket, acq, build, token, child, faults, served, rivals>>

(* server.close removes the path, and once the connections have ended rmSync does so *)
(* again; neither looks whose it is by now                                           *)
RemovePath(d) ==
  /\ st[d] \in Closing
  /\ socket' = None
  /\ Goto(d, IF In(d, "closing") THEN "unlinked" ELSE "closed")
  /\ UNCHANGED <<file, acq, build, token, child, faults, served, rivals>>

ReleaseLock(d) ==
  /\ In(d, "closed")
  /\ Exit(d, {"daemon"})
  /\ UNCHANGED <<socket, build, child, faults, served, rivals>>

DaemonStep(d) ==
  \/ Acquire(d) \/ GiveUp(d) \/ CheckSocket(d) \/ ProbeSocket(d) \/ Bind(d) \/ Listen(d)
  \/ LoseLock(d) \/ CloseGuard(d) \/ RemovePath(d) \/ ReleaseLock(d)

-----------------------------------------------------------------------------
(* A launcher                                                                *)

(* No launcher, and no daemon that inherited its token, remembers the lock *)
Finish(l) ==
  /\ file' = Without(file, "start", l)
  /\ Goto(l, "off")
  /\ acq' = [acq EXCEPT ![l] = NoAcq]
  /\ child' = [child EXCEPT ![l] = None]
  /\ token' = [d \in Daemon |-> IF token[d] = l THEN None ELSE token[d]]

Wait(l, phase, d) == Goto(l, phase) /\ child' = [child EXCEPT ![l] = d]

(* A daemon serves that is not older: the launcher is done if it hears of it *)
Content(l) == Reachable /\ ~Newer(Build[l], build[socket])

Launch(l) ==
  /\ In(l, "off") /\ file["start"].owner # l /\ \A d \in Daemon : token[d] # l
  /\ IF Content(l) THEN Fault("minor") ELSE UNCHANGED faults
  /\ Acquiring(l, "locking")
  /\ UNCHANGED <<file, socket, build, token, child, served, rivals>>

(* The lock is another launcher's: wait for its daemon, as long as it takes or not, *)
(* then try once more                                                               *)
AwaitOther(l) ==
  /\ In(l, "waiting")
  /\ \/ Reachable /\ Goto(l, "off") /\ UNCHANGED acq
     \/ Acquiring(l, "relocking")
  /\ UNCHANGED <<file, socket, build, token, child, faults, served, rivals>>

(* The locked probe.  Who is not answered finds nobody, or gives up. *)
LockedProbe(l) ==
  /\ In(l, "holding")
  /\ \/ Answered /\ Goto(l, "planning") /\ UNCHANGED <<file, acq, token, child>>
     \/ Unanswered /\ Goto(l, "free") /\ UNCHANGED <<file, acq, token, child>>
     \/ Reachable /\ Unanswered /\ Finish(l)
  /\ UNCHANGED <<socket, build, served, rivals>>

(* planHandover: a daemon whose build is not learnt, because it predates              *)
(* requestHandover or because it does not answer the handshake, is of UNKNOWN_BUILD.  *)
(* Who has stopped meanwhile does not answer.                                         *)
Plan(l) ==
  /\ In(l, "planning")
  /\ \/ /\ Answered /\ Content(l) /\ Finish(l)
     \/ /\ Answered /\ ~Content(l)
        /\ Wait(l, IF build[socket].asks THEN "asking" ELSE "signalling", socket)
        /\ UNCHANGED <<file, acq, token>>
     \/ /\ Unanswered
        /\ IF Newer(Build[l], Unknown)
           THEN Goto(l, "signalling") /\ UNCHANGED <<file, acq, token, child>>
           ELSE Finish(l)
  /\ UNCHANGED <<socket, build, served, rivals>>

(* requestHandover, which nobody listens to before the lifecycle starts *)
Ask(l) ==
  LET d == child[l] IN
  /\ In(l, "asking")
  /\ IF st[d] \in {"listening", "serving"} /\ Newer(Build[l], build[d])
     THEN /\ st' = [st EXCEPT ![l] = "draining", ![d] = IF @ = "serving" THEN "stopping" ELSE @]
          /\ UNCHANGED <<file, acq, token, child>>
     ELSE Finish(l)
  /\ UNCHANGED <<socket, build, faults, served, rivals>>

(* A daemon handles signals from when it serves; before that one ends it *)
Signalled(phase) ==
  CASE phase = "serving" -> "stopping"
    [] phase \in Leaving -> phase
    [] OTHER             -> "off"

(* identifySignalableDaemon and SIGTERM: the owner of the daemon lock, if it lives and *)
(* somebody answers on the socket                                                      *)
Signal(l) ==
  /\ In(l, "signalling")
  /\ \/ LET d == Owner("daemon") IN
        /\ Answered /\ DaemonLockHeld
        /\ st' = [st EXCEPT ![l] = "draining", ![d] = Signalled(@)]
        /\ acq' = [acq EXCEPT ![d] = NoAcq]
        /\ child' = [child EXCEPT ![l] = d]
        /\ UNCHANGED <<file, token>>
     \/ (IF DaemonLockHeld THEN Unanswered ELSE UNCHANGED faults) /\ Finish(l)
  /\ UNCHANGED <<socket, build, served, rivals>>

(* Mutant: the start lock is released before the new build is spawned *)
MutAwaitDrained(l) ==
  /\ In(l, "draining") /\ ~DaemonLockHeld /\ ~Reachable
  /\ file' = Without(file, "start", l)
  /\ Wait(l, "free", None)
  /\ UNCHANGED <<acq, token, socket, build, faults, served, rivals>>

(* The wait for the old daemon to release its lock and the socket; one that does not *)
(* stop is waited for in vain                                                        *)
AwaitDrained(l) ==
  /\ In(l, "draining")
  /\ \/ ~DaemonLockHeld /\ Unanswered /\ Wait(l, "free", None) /\ UNCHANGED <<file, acq, token>>
     \/ (DaemonLockHeld \/ Reachable) /\ Ends(st[child[l]] \notin Leaving) /\ Finish(l)
  /\ UNCHANGED <<socket, build, served, rivals>>

(* A daemon that holds the daemon lock is waited for, otherwise one is spawned *)
Fresh(d) ==
  /\ ~Alive(d) /\ socket # d
  /\ \A k \in Lock : file[k].owner # d
  /\ \A p \in Proc : acq[p].judged # d
  /\ \A l \in Launcher : child[l] # d

Spawn(l) ==
  /\ In(l, "free")
  /\ \/ /\ DaemonStarting
        /\ Wait(l, "expecting", Owner("daemon"))
        /\ UNCHANGED <<acq, build, token>>
     \/ /\ ~DaemonStarting
        /\ \E d \in Daemon :
             /\ Fresh(d)
             /\ st' = [st EXCEPT ![l] = "spawned", ![d] = "booting"]
             /\ acq' = [acq EXCEPT ![d] = [NoAcq EXCEPT !.step = "create"]]
             /\ child' = [child EXCEPT ![l] = d]
             /\ build' = [build EXCEPT ![d] = Build[l]]
             /\ token' = [token EXCEPT ![d] = l]
  /\ UNCHANGED <<file, socket, faults, served, rivals>>

(* The daemon that is waited for does not answer, in vain if it is gone or cut off *)
Abandoned(l) == Ends(~Reachable /\ st[child[l]] \notin Early)

AwaitDaemon(l) ==
  /\ \/ st[l] \in {"expecting", "spawned"} /\ Reachable /\ UNCHANGED faults
     \/ In(l, "expecting") /\ Abandoned(l)
     \/ In(l, "spawned") /\ l \notin Killing /\ Abandoned(l)
     \/ In(l, "killed") /\ UNCHANGED faults
  /\ Finish(l)
  /\ UNCHANGED <<socket, build, served, rivals>>

(* Codex stops a child that did not answer and does not own the daemon lock; one whose *)
(* startup is being aborted handles no signals                                         *)
KillChild(l) ==
  LET d == child[l] IN
  /\ In(l, "spawned") /\ l \in Killing /\ Abandoned(l)
  /\ IF Owner("daemon") # d /\ Alive(d)
     THEN /\ \E x \in {Signalled(st[d])} \cup (IF st[d] \in Leaving THEN {"off"} ELSE {}) :
               st' = [st EXCEPT ![l] = "killed", ![d] = x]
          /\ acq' = [acq EXCEPT ![d] = NoAcq]
     ELSE Goto(l, "killed") /\ UNCHANGED acq
  /\ UNCHANGED <<file, socket, build, token, child, served, rivals>>

LauncherStep(l) ==
  \/ Acquire(l) \/ AwaitOther(l) \/ LockedProbe(l) \/ Plan(l) \/ Ask(l) \/ Signal(l) \/ AwaitDrained(l)
  \/ Spawn(l) \/ AwaitDaemon(l) \/ KillChild(l)

-----------------------------------------------------------------------------
(* A lock outlives the limit that applies to it: the grace of a starting daemon,   *)
(* or the age at which a lock without a live owner counts as abandoned.  Early, it *)
(* is a fault, and a major one if the start lock's owner has not written it yet.   *)
Age(k) ==
  /\ file[k] # Absent /\ ~file[k].old
  /\ IF ~Alive(file[k].owner) \/ In(file[k].owner, "serving") THEN UNCHANGED faults
     ELSE Fault(IF k = "daemon" \/ file[k].written THEN "minor" ELSE "major")
  /\ file' = [file EXCEPT ![k].old = TRUE]
  /\ UNCHANGED <<socket, procVars, served, rivals>>

(* A launcher that has neither taken the start lock nor is about to *)
Outside(p) == st[p] \in {"locking", "waiting", "relocking"} /\ acq[p].step \in {"none", "create", "judge"}

Kill(p) ==
  /\ Alive(p) /\ Fault(IF Outside(p) THEN "minor" ELSE "major")
  /\ Goto(p, "off")
  /\ acq' = [acq EXCEPT ![p] = NoAcq]
  /\ child' = [q \in Launcher |-> IF q = p THEN None ELSE child[q]]
  /\ token' = [d \in Daemon |-> IF d = p THEN None ELSE token[d]]
  /\ UNCHANGED <<file, socket, build, served, rivals>>

(* Nothing needs the daemon any more, or a lease of its authority is lost *)
StopIdle(d) ==
  /\ Fault("major") /\ In(d, "serving")
  /\ Goto(d, "stopping")
  /\ UNCHANGED <<file, socket, acq, build, token, child, served, rivals>>

-----------------------------------------------------------------------------
Init ==
  /\ file = [k \in Lock |-> Absent]
  /\ socket = None
  /\ st = [p \in Proc |-> "off"]
  /\ acq = [p \in Proc |-> NoAcq]
  /\ build = [d \in Daemon |-> Unknown]
  /\ token = [d \in Daemon |-> None]
  /\ child = [l \in Launcher |-> None]
  /\ faults = [minor |-> 0, major |-> 0]
  /\ served = Unknown
  /\ rivals = {}

Next ==
  \/ \E l \in Launcher : Launch(l) \/ LauncherStep(l)
  \/ \E d \in Daemon : DaemonStep(d) \/ Serve(d) \/ StopIdle(d)
  \/ \E k \in Lock : Age(k)
  \/ \E p \in Proc : Kill(p)

Spec == Init /\ [][Next]_vars

(* Processes run on, locks grow old, and some host keeps launching *)
Fairness ==
  /\ \A l \in Launcher : WF_vars(Launch(l)) /\ WF_vars(LauncherStep(l))
  /\ \A d \in Daemon : WF_vars(DaemonStep(d)) /\ WF_vars(Serve(d))
  /\ \A k \in Lock : WF_vars(Age(k))

FairSpec == Spec /\ Fairness

-----------------------------------------------------------------------------

(* The comment of LegacyV1GuardServer.close, "If another daemon has since rebound the *)
(* historical path, leave it alone", as far as it holds: a daemon that listens or      *)
(* serves is cut off by another's shutdown only if that one was closing the path       *)
(* already when it was bound, and never by one that has kept its daemon lock.          *)
SocketNotCutOff ==
  [][\A c, e \in Daemon :
       /\ socket = c /\ socket' = None /\ st[c] \in {"listening", "serving"}
       /\ e # c /\ st[e] \in Closing /\ st'[e] # st[e]
       => e \in rivals /\ Owner("daemon") # e]_vars

(* docs/protocol.md: a launcher "replaces a running daemon only when its own build is  *)
(* strictly newer", and the comment at the start lock, "Holding the start lock keeps   *)
(* older launchers from restarting the old build between its exit and our daemon's     *)
(* startup": no daemon is followed by an older one, whatever launchers without the     *)
(* start lock die, however long they wait and however long a startup takes.  It takes  *)
(* a major fault: a daemon, or the launcher that has the start lock, dies or is        *)
(* suspended before it has written its token; a daemon stops of its own; a daemon is   *)
(* too busy to answer a probe or the handshake; a launcher that has the start lock     *)
(* gives up.                                                                           *)
NeverDowngraded == [][faults'.major = 0 /\ served' # served => ~Newer(served, served')]_vars

(* docs/protocol.md: "If the new daemon fails to start, nothing is left holding the *)
(* locks and the next launch tries again": whoever dies with whatever lock, a       *)
(* daemon holds the daemon lock and the historical socket again.                    *)
ServedAgain == []<>(\E d \in Daemon : In(d, "serving") /\ Owner("daemon") = d /\ socket = d)
=============================================================================
