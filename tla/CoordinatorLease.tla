-------------------------- MODULE CoordinatorLease --------------------------
(***************************************************************************)
(* Which daemon may write: the daemon lock as its holders see it           *)
(* (src/src/daemon/index.ts), the lease of each daemon instance and the    *)
(* lease of the background coordinator (daemon/persistence/store.ts), the  *)
(* transactions fenced by it, and the polls that await GitHub between the  *)
(* check of the lease and their writes.  A process may be killed, and may  *)
(* be suspended for any time between two of its steps.                     *)
(* A name of Daemon stands for one process at a time and is used again     *)
(* once no lease mentions it: instance ids are random.                     *)
(***************************************************************************)
EXTENDS Naturals

CONSTANTS
  Daemon,     \* names of daemon processes
  None,       \* no daemon
  TTL,        \* PREMIND_DAEMON_LEASE_TTL_MS and PREMIND_COORDINATOR_LEASE_TTL_MS, in ticks
  MaxFaults,  \* bound: kills, suspensions, requested stops and ticks GitHub hangs
  MaxGen      \* bound: generations of the coordinator lease

ASSUME NoneAssumption == None \notin Daemon
ASSUME BoundAssumption == TTL \in Nat \ {0} /\ MaxFaults \in Nat /\ MaxGen \in Nat

VARIABLES
  coordinator,  \* the row of coordinator_leases, with the ticks it has left
  instance,     \* daemon_instance_leases: ticks left
  lock,         \* the daemon named in daemon.lock
  phase,        \* where each process is
  mine,         \* the generation of the coordinator lease each process holds a token of
  away,         \* a poll of the process awaits GitHub
  suspended,    \* the process does not run
  faults,
  fencedGen,    \* history: the generation of the last fenced write
  writeGen      \* history: the generation of the last write of a scheduler or of startup

leaseVars == <<coordinator, instance>>
gens == <<fencedGen, writeGen>>
vars == <<coordinator, instance, lock, phase, mine, away, suspended, faults, fencedGen, writeGen>>

-----------------------------------------------------------------------------
Startup == {"starting", "registered", "coordinating", "recovered", "detached", "reset", "reaped", "pruned", "swept",
            "listening", "discovering"}
Phase == {"off", "serving", "demoting", "stopping", "released"} \cup Startup

Free == [owner |-> None, gen |-> 0, left |-> 0]

Alive(d) == phase[d] # "off"
Running(d) == Alive(d) /\ ~suspended[d]

(* Mutant: withCoordinatorLease does not look at the row *)
MutHolds(d) == mine[d] > 0

(* withCoordinatorLease: the token is that of the row, and in time *)
Holds(d) == coordinator.owner = d /\ coordinator.gen = mine[d] /\ coordinator.left > 0

At(d, p) == Running(d) /\ phase[d] = p
Goto(d, p) == phase' = [phase EXCEPT ![d] = p]

Unlocked(d) == IF lock = d THEN None ELSE lock

(* Mutant: the release forgets when the lease would have expired *)
MutReleaseLeases(d) ==
  /\ coordinator' = IF Holds(d) THEN [coordinator EXCEPT !.owner = None] ELSE coordinator
  /\ instance' = [instance EXCEPT ![d] = 0]

(* Mutant: the release does not look whose lease it is *)
MutReleaseAnyLease(d) ==
  /\ coordinator' = [coordinator EXCEPT !.owner = None, !.left = 0]
  /\ instance' = [instance EXCEPT ![d] = 0]

(* releaseCoordinatorLease, releaseDaemonInstanceLease *)
ReleaseLeases(d) ==
  /\ coordinator' = IF Holds(d) THEN [coordinator EXCEPT !.owner = None, !.left = 0] ELSE coordinator
  /\ instance' = [instance EXCEPT ![d] = 0]

(* The process is gone *)
End(d) ==
  /\ Goto(d, "off")
  /\ mine' = [mine EXCEPT ![d] = 0]
  /\ away' = [away EXCEPT ![d] = FALSE]
  /\ suspended' = [suspended EXCEPT ![d] = FALSE]

(* main: the lock is released, then abortStartup *)
AbortStartup(d) == ReleaseLeases(d) /\ lock' = Unlocked(d) /\ End(d) /\ UNCHANGED <<faults, gens>>

-----------------------------------------------------------------------------
(* Startup                                                                   *)

(* acquireDaemonLock: no lock, a dead owner, or one that does not answer *)
Start(d) ==
  /\ ~Alive(d) /\ instance[d] = 0 /\ coordinator.owner # d
  /\ lock # None => ~Alive(lock) \/ suspended[lock]
  /\ lock' = d
  /\ Goto(d, "starting")
  /\ UNCHANGED <<leaseVars, mine, away, suspended, faults, gens>>

ClaimDaemonInstanceLease(d) ==
  /\ At(d, "starting")
  /\ instance' = [instance EXCEPT ![d] = TTL]
  /\ Goto(d, "registered")
  /\ UNCHANGED <<coordinator, lock, mine, away, suspended, faults, gens>>

Busy(d) == coordinator.owner # None /\ coordinator.left > 0

(* claimCoordinatorLease, or COORDINATOR_BUSY or DAEMON_MOVED *)
ClaimCoordinatorLease(d) ==
  /\ At(d, "registered")
  /\ IF instance[d] = 0 \/ Busy(d) THEN AbortStartup(d)
     ELSE /\ coordinator.gen < MaxGen
          /\ coordinator' = [owner |-> d, gen |-> coordinator.gen + 1, left |-> TTL]
          /\ mine' = [mine EXCEPT ![d] = coordinator.gen + 1]
          /\ Goto(d, "coordinating")
          /\ UNCHANGED <<instance, lock, away, suspended, faults, gens>>

Wrote(d) == writeGen' = mine[d]

(* A transaction of startup under the coordinator lease, or COORDINATOR_MOVED *)
Fenced(d, from, to) ==
  /\ At(d, from)
  /\ \/ /\ Holds(d)
        /\ fencedGen' = mine[d] /\ Wrote(d)
        /\ Goto(d, to)
        /\ UNCHANGED <<leaseVars, lock, mine, away, suspended, faults>>
     \/ ~Holds(d) /\ AbortStartup(d)

RecoverFromRestart(d) == Fenced(d, "coordinating", "recovered")
SuspendAutomaticSubscriptions(d) == Fenced(d, "recovered", "detached")

(* The one write of startup outside withCoordinatorLease *)
ResetInferredSubscriptionPolicies(d) ==
  /\ At(d, "detached")
  /\ Wrote(d) /\ UNCHANGED fencedGen
  /\ Goto(d, "reset")
  /\ UNCHANGED <<leaseVars, lock, mine, away, suspended, faults>>

(* Reaping, pruning and the cleanup of detail files *)
SweepAtStartup(d) ==
  Fenced(d, "reset", "reaped") \/ Fenced(d, "reaped", "pruned") \/ Fenced(d, "pruned", "swept")

(* holdsDaemonLock, then listen *)
Listen(d) ==
  /\ At(d, "swept")
  /\ IF lock = d THEN Goto(d, "listening")
                      /\ UNCHANGED <<leaseVars, lock, mine, away, suspended, faults, gens>>
     ELSE AbortStartup(d)

(* The first discovery is awaited before the intervals exist that renew the leases *)
DiscoverAtStartup(d) ==
  /\ At(d, "listening")
  /\ IF Holds(d) THEN Goto(d, "discovering") /\ away' = [away EXCEPT ![d] = TRUE]
                      /\ UNCHANGED <<leaseVars, lock, mine, suspended, faults, gens>>
     ELSE AbortStartup(d)

(* The schedulers, intervals and the lifecycle start *)
Serve(d) ==
  /\ At(d, "discovering")
  /\ Goto(d, "serving") /\ away' = [away EXCEPT ![d] = FALSE]
  /\ UNCHANGED <<leaseVars, lock, mine, suspended, faults, gens>>

-----------------------------------------------------------------------------
(* The schedulers and intervals of a serving daemon                          *)

Open == {"discovering", "serving", "demoting", "stopping", "released"}   \* the database is

(* A scheduler's tick: the check, then an await.  COORDINATOR_MOVED ends the tick. *)
BeginPoll(d) ==
  /\ At(d, "serving") /\ ~away[d] /\ Holds(d)
  /\ away' = [away EXCEPT ![d] = TRUE]
  /\ UNCHANGED <<leaseVars, lock, phase, mine, suspended, faults, gens>>

(* GitHub answered for one of the pull requests; what changed is saved *)
SavePoll(d) ==
  /\ Running(d) /\ phase[d] \in Open /\ away[d]
  /\ Wrote(d) /\ UNCHANGED fencedGen
  /\ away' \in {away, [away EXCEPT ![d] = FALSE]}
  /\ UNCHANGED <<leaseVars, lock, phase, mine, suspended, faults>>

(* reapInterval: COORDINATOR_MOVED is not caught and ends the process *)
Sweep(d) ==
  /\ At(d, "serving")
  /\ \/ /\ Holds(d)
        /\ fencedGen' = mine[d] /\ Wrote(d)
        /\ UNCHANGED <<leaseVars, lock, phase, mine, away, suspended, faults>>
     \/ ~Holds(d) /\ End(d) /\ UNCHANGED <<leaseVars, lock, faults, gens>>

(* Mutant: the interval renews the instance lease only *)
MutRenewAuthority(d) ==
  /\ At(d, "serving")
  /\ IF instance[d] = 0 THEN UNCHANGED leaseVars /\ Goto(d, "demoting")
     ELSE /\ instance' = [instance EXCEPT ![d] = TTL]
          /\ UNCHANGED <<coordinator, phase>>
  /\ UNCHANGED <<lock, mine, away, suspended, faults, gens>>

(* authorityInterval *)
RenewAuthority(d) ==
  /\ At(d, "serving")
  /\ IF instance[d] = 0 THEN UNCHANGED leaseVars /\ Goto(d, "demoting")
     ELSE /\ instance' = [instance EXCEPT ![d] = TTL]
          /\ IF Holds(d) THEN coordinator' = [coordinator EXCEPT !.left = TTL] /\ UNCHANGED phase
                         ELSE UNCHANGED coordinator /\ Goto(d, "demoting")
  /\ UNCHANGED <<lock, mine, away, suspended, faults, gens>>

(* The sockets are closed, the lock is released, the process exits; the leases *)
(* are left to expire.                                                         *)
Demoted(d) ==
  /\ At(d, "demoting")
  /\ lock' = Unlocked(d)
  /\ End(d)
  /\ UNCHANGED <<leaseVars, faults, gens>>

(* lockCheckInterval *)
LockLost(d) ==
  /\ At(d, "serving") /\ lock # d
  /\ Goto(d, "stopping")
  /\ UNCHANGED <<leaseVars, lock, mine, away, suspended, faults, gens>>

(* onStopping, up to the release of the leases *)
ReleaseAuthority(d) ==
  /\ At(d, "stopping")
  /\ ReleaseLeases(d)
  /\ Goto(d, "released")
  /\ UNCHANGED <<lock, mine, away, suspended, faults, gens>>

(* The sockets and the database are closed, the lock is released *)
Stopped(d) ==
  /\ At(d, "released")
  /\ lock' = Unlocked(d)
  /\ End(d)
  /\ UNCHANGED <<leaseVars, faults, gens>>

-----------------------------------------------------------------------------
Fault == faults < MaxFaults /\ faults' = faults + 1

(* Idle, a signal, or a handover to a newer build *)
RequestStop(d) ==
  /\ Fault /\ At(d, "serving")
  /\ Goto(d, "stopping")
  /\ UNCHANGED <<leaseVars, lock, mine, away, suspended, gens>>

Kill(d) == Fault /\ Alive(d) /\ End(d) /\ UNCHANGED <<leaseVars, lock, gens>>

Suspend(d) ==
  /\ Fault /\ Running(d)
  /\ suspended' = [suspended EXCEPT ![d] = TRUE]
  /\ UNCHANGED <<leaseVars, lock, phase, mine, away, gens>>

Resume(d) ==
  /\ suspended[d]
  /\ suspended' = [suspended EXCEPT ![d] = FALSE]
  /\ UNCHANGED <<leaseVars, lock, phase, mine, away, faults, gens>>

Minus(n) == IF n > 0 THEN n - 1 ELSE 0

(* Startup takes less than a tick, and the renewal interval of a daemon that    *)
(* serves is shorter than the leases.                                          *)
Due(d) == /\ Running(d)
          /\ \/ phase[d] \in Startup \cup {"demoting", "stopping", "released"}
             \/ phase[d] = "serving" /\ \/ instance[d] < TTL \/ ~Holds(d) \/ coordinator.left < TTL

(* A row that expired mentions its owner no more *)
Elapse ==
  /\ coordinator.left > 0 \/ \E d \in Daemon : instance[d] > 0
  /\ coordinator' = [coordinator EXCEPT !.left = Minus(@), !.owner = IF coordinator.left = 1 THEN None ELSE @]
  /\ instance' = [d \in Daemon |-> Minus(instance[d])]
  /\ UNCHANGED <<lock, phase, mine, away, suspended, gens>>

(* Time passes only when no process that runs has something due *)
Tick == (\A d \in Daemon : ~Due(d)) /\ Elapse /\ UNCHANGED faults

(* GitHub hangs: the discovery at startup may outlast the leases, which nothing *)
(* renews yet (DEFAULT_GITHUB_REQUEST_TIMEOUT_MS is as long as they are).       *)
GitHubHangs(d) ==
  /\ Fault /\ At(d, "discovering") /\ \A e \in Daemon \ {d} : ~Due(e)
  /\ Elapse

-----------------------------------------------------------------------------
Init ==
  /\ coordinator = Free
  /\ instance = [d \in Daemon |-> 0]
  /\ lock = None
  /\ phase = [d \in Daemon |-> "off"]
  /\ mine = [d \in Daemon |-> 0]
  /\ away = [d \in Daemon |-> FALSE]
  /\ suspended = [d \in Daemon |-> FALSE]
  /\ faults = 0
  /\ fencedGen = 0
  /\ writeGen = 0

StartupStep(d) ==
  \/ ClaimDaemonInstanceLease(d) \/ ClaimCoordinatorLease(d) \/ RecoverFromRestart(d)
  \/ SuspendAutomaticSubscriptions(d) \/ ResetInferredSubscriptionPolicies(d)
  \/ SweepAtStartup(d) \/ Listen(d) \/ DiscoverAtStartup(d) \/ Serve(d)

ServingStep(d) ==
  \/ BeginPoll(d) \/ SavePoll(d) \/ Sweep(d) \/ RenewAuthority(d) \/ Demoted(d)
  \/ LockLost(d) \/ ReleaseAuthority(d) \/ Stopped(d)

FaultStep(d) == RequestStop(d) \/ Kill(d) \/ Suspend(d) \/ GitHubHangs(d)

Next == \/ \E d \in Daemon : \/ Start(d) \/ StartupStep(d) \/ ServingStep(d)
                             \/ FaultStep(d) \/ Resume(d)
        \/ Tick

Spec == Init /\ [][Next]_vars

-----------------------------------------------------------------------------
(* A launcher starts a daemon whenever none serves; a process runs on, and its *)
(* intervals fire; time does not stop for launchers that try again and again.  *)
Fairness ==
  /\ WF_vars(\E d \in Daemon : Start(d))
  /\ SF_vars(Tick)
  /\ \A d \in Daemon :
       /\ WF_vars(StartupStep(d)) /\ WF_vars(Resume(d))
       /\ WF_vars(RenewAuthority(d)) /\ WF_vars(LockLost(d)) /\ WF_vars(Demoted(d)) /\ WF_vars(ReleaseAuthority(d)) /\ WF_vars(Stopped(d))

FairSpec == Spec /\ Fairness

-----------------------------------------------------------------------------
(* Every variable holds values of its type, and a lease has an owner while it *)
(* has time left.                                                             *)
TypeOK ==
  /\ coordinator \in [owner: Daemon, gen: 1..MaxGen, left: 1..TTL]
                       \cup [owner: {None}, gen: 0..MaxGen, left: {0}]
  /\ instance \in [Daemon -> 0..TTL]
  /\ lock \in Daemon \cup {None}
  /\ phase \in [Daemon -> Phase]
  /\ mine \in [Daemon -> 0..MaxGen]
  /\ away \in [Daemon -> BOOLEAN]
  /\ suspended \in [Daemon -> BOOLEAN]
  /\ faults \in 0..MaxFaults
  /\ fencedGen \in 0..MaxGen /\ writeGen \in 0..MaxGen

(* What a daemon does under withCoordinatorLease it never does after a later *)
(* coordinator has done something: startup recovery and the sweeps of two    *)
(* daemons do not overlap, however long one of them was suspended.           *)
FencedInGenerationOrder == [][fencedGen' >= fencedGen]_vars

(* docs/plans/issue-40-protocol-migrations.md, of polls as well: "at most one   *)
(* coordinator generation may commit scheduler or maintenance effects.  Every  *)
(* async task captures the generation before dispatch and validates it in the  *)
(* final database transaction".                                                *)
WritesInGenerationOrder == [][writeGen' >= writeGen]_vars

(* A daemon that serves loses the coordinator lease only while it is suspended *)
(* or when it leaves: neither the clock nor another daemon's start and abort   *)
(* takes it away.                                                              *)
OnlyAwayLosesAuthority ==
  [][\A d \in Daemon :
       Running(d) /\ Holds(d) /\ phase[d] = "serving" /\ phase'[d] = "serving" => Holds(d)']_vars

(* Whatever is killed or suspended, a daemon serves again under a valid lease *)
(* once the leases of the one before have run out.                            *)
ServedAgain == []<>(\E d \in Daemon : phase[d] = "serving" /\ Holds(d) /\ lock = d)

=============================================================================
