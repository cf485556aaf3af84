----------------------- MODULE CoordinatorLeaseProofs -----------------------
(***************************************************************************)
(* Proofs about CoordinatorLease, for any number of daemons, kills and     *)
(* suspensions: what is done under the coordinator lease is done in the    *)
(* order of its generations, and a lease that lasts longer than the        *)
(* renewal interval is not lost by a daemon that runs.                     *)
(***************************************************************************)
EXTENDS CoordinatorLease, TLAPS

(* No process has a token, and nothing was fenced, of a generation that was not given out *)
GenerationsGiven ==
  /\ fencedGen <= coordinator.gen
  /\ \A d \in Daemon : mine[d] <= coordinator.gen

LeaseInv == TypeOK /\ GenerationsGiven

LEMMA LeaseInvInit == Init => LeaseInv
  BY NoneAssumption, BoundAssumption DEF Init, LeaseInv, TypeOK, GenerationsGiven, Free, Phase, Startup

-----------------------------------------------------------------------------
(* What the actions are made of                                              *)

(* The coordinator's row is replaced by one of its type that is of no earlier generation *)
Later(old, new) ==
  /\ new \in [owner: Daemon, gen: 1..MaxGen, left: 1..TTL] \cup [owner: {None}, gen: 0..MaxGen, left: {0}]
  /\ new.gen >= old.gen

LEMMA ReleaseKeepsGeneration ==
  ASSUME TypeOK, NEW d \in Daemon, ReleaseLeases(d)
  PROVE  /\ Later(coordinator, coordinator')
         /\ instance' \in [Daemon -> 0..TTL]
<1>1. instance' \in [Daemon -> 0..TTL]
  BY BoundAssumption DEF TypeOK, ReleaseLeases
<1>2. CASE Holds(d)
  <2>1. coordinator \in [owner: Daemon, gen: 1..MaxGen, left: 1..TTL]
    BY <1>2, NoneAssumption DEF TypeOK, Holds
  <2>2. coordinator' = [owner |-> None, gen |-> coordinator.gen, left |-> 0]
    BY <1>2, <2>1 DEF ReleaseLeases
  <2> QED BY <1>1, <2>1, <2>2, BoundAssumption DEF Later
<1>3. CASE ~Holds(d)
  BY <1>1, <1>3, BoundAssumption DEF Later, TypeOK, ReleaseLeases
<1> QED BY <1>2, <1>3

LEMMA ElapseKeepsGeneration ==
  ASSUME TypeOK, Elapse
  PROVE  /\ Later(coordinator, coordinator')
         /\ instance' \in [Daemon -> 0..TTL]
<1>1. instance' \in [Daemon -> 0..TTL]
  BY BoundAssumption DEF TypeOK, Elapse, Minus
<1>2. coordinator' = [owner |-> IF coordinator.left = 1 THEN None ELSE coordinator.owner,
                      gen |-> coordinator.gen, left |-> Minus(coordinator.left)]
  BY DEF TypeOK, Elapse
<1>3. CASE coordinator \in [owner: Daemon, gen: 1..MaxGen, left: 1..TTL]
  BY <1>1, <1>2, <1>3, BoundAssumption DEF Later, Minus
<1>4. CASE coordinator \in [owner: {None}, gen: 0..MaxGen, left: {0}]
  BY <1>1, <1>2, <1>4, BoundAssumption DEF Later, Minus
<1> QED BY <1>3, <1>4 DEF TypeOK

(* The process is gone, or the startup is given up *)
LEMMA EndKeepsTypes ==
  ASSUME TypeOK, NEW d \in Daemon, End(d)
  PROVE  /\ phase' \in [Daemon -> Phase]
         /\ mine' \in [Daemon -> 0..MaxGen]
         /\ \A e \in Daemon : mine'[e] <= mine[e]
         /\ away' \in [Daemon -> BOOLEAN] /\ suspended' \in [Daemon -> BOOLEAN]
  BY BoundAssumption DEF TypeOK, End, Goto, Phase

(* How a step leaves the invariant alone: the row goes on, tokens are dropped, and *)
(* what is fenced is of the generation of the row.                                 *)
Steady ==
  /\ Later(coordinator, coordinator')
  /\ instance' \in [Daemon -> 0..TTL]
  /\ lock' \in Daemon \cup {None}
  /\ phase' \in [Daemon -> Phase]
  /\ mine' \in [Daemon -> 0..MaxGen] /\ \A e \in Daemon : mine'[e] <= mine[e]
  /\ away' \in [Daemon -> BOOLEAN] /\ suspended' \in [Daemon -> BOOLEAN]
  /\ faults' \in 0..MaxFaults
  /\ fencedGen' \in {fencedGen, coordinator.gen}
  /\ writeGen' \in 0..MaxGen

LEMMA SteadyKeepsInv == ASSUME LeaseInv, Steady PROVE LeaseInv' /\ fencedGen' >= fencedGen
<1>1. /\ coordinator.gen \in 0..MaxGen /\ coordinator'.gen \in 0..MaxGen
      /\ coordinator'.gen >= coordinator.gen
  BY BoundAssumption DEF LeaseInv, TypeOK, Steady, Later
<1>2. TypeOK'
  BY <1>1, BoundAssumption DEF LeaseInv, TypeOK, Steady, Later
<1>3. fencedGen' <= coordinator'.gen /\ fencedGen' >= fencedGen
  BY <1>1, BoundAssumption DEF LeaseInv, TypeOK, GenerationsGiven, Steady
<1>4. ASSUME NEW e \in Daemon PROVE mine'[e] <= coordinator'.gen
  BY <1>1, BoundAssumption DEF LeaseInv, TypeOK, GenerationsGiven, Steady
<1> QED BY <1>2, <1>3, <1>4 DEF LeaseInv, GenerationsGiven

LEMMA AbortIsSteady == ASSUME LeaseInv, NEW d \in Daemon, AbortStartup(d) PROVE Steady
  BY ReleaseKeepsGeneration, EndKeepsTypes, BoundAssumption
     DEF LeaseInv, TypeOK, AbortStartup, Unlocked, Steady, gens

LEMMA RowKept == ASSUME TypeOK, UNCHANGED coordinator PROVE Later(coordinator, coordinator')
  BY BoundAssumption DEF TypeOK, Later

LEMMA FencedIsSteady ==
  ASSUME LeaseInv, NEW d \in Daemon, NEW from, NEW to \in Phase, Fenced(d, from, to)
  PROVE  Steady
<1>1. CASE AbortStartup(d)
  BY <1>1, AbortIsSteady
<1>2. CASE Holds(d) /\ fencedGen' = mine[d] /\ Wrote(d) /\ Goto(d, to)
           /\ UNCHANGED <<leaseVars, lock, mine, away, suspended, faults>>
  BY <1>2, RowKept, BoundAssumption DEF LeaseInv, TypeOK, Holds, Wrote, Goto, leaseVars, Steady
<1> QED BY <1>1, <1>2 DEF Fenced

-----------------------------------------------------------------------------
(* The one step that gives out a token *)
LEMMA ClaimKeepsInv ==
  ASSUME LeaseInv, NEW d \in Daemon, ClaimCoordinatorLease(d)
  PROVE  LeaseInv' /\ fencedGen' >= fencedGen
<1>1. CASE AbortStartup(d)
  BY <1>1, AbortIsSteady, SteadyKeepsInv
<1>2. CASE ~(instance[d] = 0 \/ Busy(d))
  <2>0. coordinator.gen \in 0..MaxGen /\ coordinator.gen < MaxGen
    BY <1>2, BoundAssumption DEF LeaseInv, TypeOK, ClaimCoordinatorLease
  <2>1. /\ coordinator' = [owner |-> d, gen |-> coordinator.gen + 1, left |-> TTL]
        /\ mine' = [mine EXCEPT ![d] = coordinator.gen + 1]
        /\ phase' = [phase EXCEPT ![d] = "coordinating"]
        /\ UNCHANGED <<instance, lock, away, suspended, faults, fencedGen, writeGen>>
    BY <1>2 DEF ClaimCoordinatorLease, Goto, gens
  <2>2. TypeOK'
    BY <2>0, <2>1, BoundAssumption DEF LeaseInv, TypeOK, Phase, Startup
  <2>3. GenerationsGiven' /\ fencedGen' >= fencedGen
    BY <2>0, <2>1, BoundAssumption DEF LeaseInv, TypeOK, GenerationsGiven
  <2> QED BY <2>2, <2>3 DEF LeaseInv
<1> QED BY <1>1, <1>2 DEF ClaimCoordinatorLease

LEMMA StartupIsSteady ==
  ASSUME LeaseInv, NEW d \in Daemon, Start(d) \/ StartupStep(d), ~ClaimCoordinatorLease(d)
  PROVE  Steady
<1>0. {"starting", "registered", "recovered", "detached", "reset", "reaped", "pruned", "swept", "listening",
       "discovering", "serving"} \subseteq Phase
  BY DEF Phase, Startup
<1>1. CASE Start(d)
  BY <1>0, <1>1, RowKept, BoundAssumption
     DEF LeaseInv, TypeOK, Start, Goto, leaseVars, gens, Steady
<1>2. CASE ClaimDaemonInstanceLease(d)
  BY <1>0, <1>2, RowKept, BoundAssumption
     DEF LeaseInv, TypeOK, ClaimDaemonInstanceLease, Goto, gens, Steady
<1>3. CASE RecoverFromRestart(d) \/ SuspendAutomaticSubscriptions(d) \/ SweepAtStartup(d)
  BY <1>0, <1>3, FencedIsSteady DEF RecoverFromRestart, SuspendAutomaticSubscriptions, SweepAtStartup
<1>4. CASE ResetInferredSubscriptionPolicies(d)
  BY <1>0, <1>4, RowKept, BoundAssumption
     DEF LeaseInv, TypeOK, ResetInferredSubscriptionPolicies, Wrote, Goto, leaseVars, Steady
<1>5. CASE Listen(d)
  <2>1. CASE AbortStartup(d)
    BY <2>1, AbortIsSteady
  <2>2. CASE lock = d
    BY <1>0, <1>5, <2>2, RowKept, BoundAssumption
       DEF LeaseInv, TypeOK, Listen, Goto, leaseVars, gens, Steady
  <2> QED BY <1>5, <2>1, <2>2 DEF Listen
<1>6. CASE DiscoverAtStartup(d)
  <2>1. CASE AbortStartup(d)
    BY <2>1, AbortIsSteady
  <2>2. CASE Holds(d)
    <3>1. /\ phase' = [phase EXCEPT ![d] = "discovering"] /\ away' = [away EXCEPT ![d] = TRUE]
          /\ UNCHANGED <<coordinator, instance, lock, mine, suspended, faults, fencedGen, writeGen>>
      BY <1>6, <2>2 DEF DiscoverAtStartup, Goto, leaseVars, gens
    <3>2. away' \in [Daemon -> BOOLEAN] /\ phase' \in [Daemon -> Phase]
      BY <1>0, <3>1 DEF LeaseInv, TypeOK
    <3> QED BY <3>1, <3>2, RowKept, BoundAssumption DEF LeaseInv, TypeOK, Steady
  <2> QED BY <1>6, <2>1, <2>2 DEF DiscoverAtStartup
<1>7. CASE Serve(d)
  BY <1>0, <1>7, RowKept, BoundAssumption DEF LeaseInv, TypeOK, Serve, Goto, leaseVars, gens, Steady
<1> QED BY <1>1, <1>2, <1>3, <1>4, <1>5, <1>6, <1>7 DEF StartupStep

LEMMA ServingIsSteady ==
  ASSUME LeaseInv, NEW d \in Daemon, ServingStep(d)
  PROVE  Steady
<1>0. {"demoting", "stopping", "released"} \subseteq Phase
  BY DEF Phase
<1>1. CASE BeginPoll(d)
  BY <1>1, RowKept, BoundAssumption DEF LeaseInv, TypeOK, BeginPoll, leaseVars, gens, Steady
<1>2. CASE SavePoll(d)
  <2>1. away' \in [Daemon -> BOOLEAN] /\ writeGen' \in 0..MaxGen
    BY <1>2 DEF LeaseInv, TypeOK, SavePoll, Wrote
  <2> QED BY <1>2, <2>1, RowKept, BoundAssumption DEF LeaseInv, TypeOK, SavePoll, leaseVars, Steady
<1>3. CASE Sweep(d)
  <2>1. CASE Holds(d) /\ fencedGen' = mine[d] /\ Wrote(d)
             /\ UNCHANGED <<leaseVars, lock, phase, mine, away, suspended, faults>>
    BY <2>1, RowKept, BoundAssumption DEF LeaseInv, TypeOK, Holds, Wrote, leaseVars, Steady
  <2>2. CASE End(d) /\ UNCHANGED <<leaseVars, lock, faults, gens>>
    BY <2>2, EndKeepsTypes, RowKept, BoundAssumption DEF LeaseInv, TypeOK, leaseVars, gens, Steady
  <2> QED BY <1>3, <2>1, <2>2 DEF Sweep
<1>4. CASE RenewAuthority(d)
  <2>1. phase' \in [Daemon -> Phase]
    BY <1>0, <1>4 DEF LeaseInv, TypeOK, RenewAuthority, Goto
  <2>2. instance' \in [Daemon -> 0..TTL]
    BY <1>4, BoundAssumption DEF LeaseInv, TypeOK, RenewAuthority, leaseVars
  <2>3. Later(coordinator, coordinator')
    <3>1. CASE Holds(d) /\ coordinator' = [coordinator EXCEPT !.left = TTL]
      <4>1. coordinator \in [owner: Daemon, gen: 1..MaxGen, left: 1..TTL]
        BY <3>1, NoneAssumption DEF LeaseInv, TypeOK, Holds
      <4> QED BY <3>1, <4>1, BoundAssumption DEF Later
    <3>2. CASE UNCHANGED coordinator
      BY <3>2, RowKept DEF LeaseInv
    <3> QED BY <1>4, <3>1, <3>2 DEF RenewAuthority, leaseVars
  <2> QED BY <1>4, <2>1, <2>2, <2>3, BoundAssumption
             DEF LeaseInv, TypeOK, RenewAuthority, gens, Steady
<1>5. CASE Demoted(d) \/ Stopped(d)
  BY <1>5, EndKeepsTypes, RowKept, BoundAssumption
     DEF LeaseInv, TypeOK, Demoted, Stopped, Unlocked, leaseVars, gens, Steady
<1>6. CASE LockLost(d)
  BY <1>0, <1>6, RowKept, BoundAssumption DEF LeaseInv, TypeOK, LockLost, Goto, leaseVars, gens, Steady
<1>7. CASE ReleaseAuthority(d)
  BY <1>0, <1>7, ReleaseKeepsGeneration, BoundAssumption
     DEF LeaseInv, TypeOK, ReleaseAuthority, Goto, gens, Steady
<1> QED BY <1>1, <1>2, <1>3, <1>4, <1>5, <1>6, <1>7 DEF ServingStep

LEMMA FaultIsSteady ==
  ASSUME LeaseInv, NEW d \in Daemon, FaultStep(d) \/ Resume(d)
  PROVE  Steady
<1>0. ASSUME Fault PROVE faults' \in 0..MaxFaults
  BY <1>0, BoundAssumption DEF LeaseInv, TypeOK, Fault
<1>1. CASE RequestStop(d)
  BY <1>0, <1>1, RowKept, BoundAssumption
     DEF LeaseInv, TypeOK, RequestStop, Goto, Phase, leaseVars, gens, Steady
<1>2. CASE Kill(d)
  BY <1>0, <1>2, EndKeepsTypes, RowKept, BoundAssumption
     DEF LeaseInv, TypeOK, Kill, leaseVars, gens, Steady
<1>3. CASE Suspend(d)
  BY <1>0, <1>3, RowKept, BoundAssumption DEF LeaseInv, TypeOK, Suspend, leaseVars, gens, Steady
<1>4. CASE GitHubHangs(d)
  BY <1>0, <1>4, ElapseKeepsGeneration, BoundAssumption
     DEF LeaseInv, TypeOK, GitHubHangs, Elapse, gens, Steady
<1>5. CASE Resume(d)
  BY <1>5, RowKept, BoundAssumption DEF LeaseInv, TypeOK, Resume, leaseVars, gens, Steady
<1> QED BY <1>1, <1>2, <1>3, <1>4, <1>5 DEF FaultStep

LEMMA TickIsSteady == ASSUME LeaseInv, Tick PROVE Steady
  BY ElapseKeepsGeneration, BoundAssumption DEF LeaseInv, TypeOK, Tick, Elapse, gens, Steady

LEMMA StepKeepsInv ==
  ASSUME LeaseInv, [Next]_vars PROVE LeaseInv' /\ fencedGen' >= fencedGen
<1>1. ASSUME NEW d \in Daemon, Start(d) \/ StartupStep(d) PROVE LeaseInv' /\ fencedGen' >= fencedGen
  BY <1>1, ClaimKeepsInv, StartupIsSteady, SteadyKeepsInv
<1>2. ASSUME NEW d \in Daemon, ServingStep(d) PROVE LeaseInv' /\ fencedGen' >= fencedGen
  BY <1>2, ServingIsSteady, SteadyKeepsInv
<1>3. ASSUME NEW d \in Daemon, FaultStep(d) \/ Resume(d) PROVE LeaseInv' /\ fencedGen' >= fencedGen
  BY <1>3, FaultIsSteady, SteadyKeepsInv
<1>4. CASE Tick
  BY <1>4, TickIsSteady, SteadyKeepsInv
<1>5. CASE UNCHANGED vars
  BY <1>5, BoundAssumption DEF LeaseInv, TypeOK, GenerationsGiven, vars
<1> QED BY <1>1, <1>2, <1>3, <1>4, <1>5 DEF Next

LEMMA LeaseInvariant == Spec => []LeaseInv
<1>1. LeaseInv /\ [Next]_vars => LeaseInv'
  BY StepKeepsInv
<1> QED BY LeaseInvInit, <1>1, PTL DEF Spec

(* Every table and every process is in a state of its type: a lease with time left *)
(* has an owner (claimCoordinatorLease, releaseCoordinatorLease and its expiry).    *)
THEOREM TypeCorrect == Spec => []TypeOK
<1>1. LeaseInv => TypeOK
  BY DEF LeaseInv
<1> QED BY LeaseInvariant, <1>1, PTL

(* withCoordinatorLease: recovery and the sweeps of one coordinator are never followed *)
(* by those of an earlier one, however many daemons start, hang, are killed or sleep.  *)
THEOREM FencedWorkIsOrdered == Spec => FencedInGenerationOrder
<1>1. LeaseInv /\ [Next]_vars => [fencedGen' >= fencedGen]_vars
  BY StepKeepsInv
<1> QED BY LeaseInvariant, <1>1, PTL DEF Spec, FencedInGenerationOrder

-----------------------------------------------------------------------------
(* A daemon that runs and serves keeps the lease: its own steps renew it, those of *)
(* others neither release nor claim it, and time does not reach its end.           *)
LEMMA ServingKeepsLease ==
  ASSUME TTL > 1, LeaseInv, [Next]_vars,
         NEW d \in Daemon, Running(d), Holds(d), phase[d] = "serving", phase'[d] = "serving"
  PROVE  Holds(d)'
<1>1. /\ coordinator \in [owner: Daemon, gen: 1..MaxGen, left: 1..TTL]
      /\ coordinator.owner = d /\ coordinator.gen = mine[d]
  BY NoneAssumption DEF LeaseInv, TypeOK, Holds
<1>2. ASSUME coordinator' = coordinator, mine'[d] = mine[d] PROVE Holds(d)'
  BY <1>2 DEF Holds
<1>3. ASSUME NEW e \in Daemon, End(e) PROVE e # d /\ mine'[d] = mine[d]
  <2>1. e # d
    BY <1>3 DEF LeaseInv, TypeOK, End, Goto
  <2> QED BY <1>3, <2>1 DEF LeaseInv, TypeOK, End
<1>4. ASSUME NEW e \in Daemon, ReleaseLeases(e), e # d PROVE coordinator' = coordinator
  BY <1>1, <1>4 DEF Holds, ReleaseLeases
<1>5. ASSUME NEW e \in Daemon, AbortStartup(e) PROVE Holds(d)'
  BY <1>2, <1>3, <1>4, <1>5 DEF AbortStartup
<1>6. ASSUME Elapse, ~Due(d) PROVE Holds(d)'
  <2>1. coordinator.left = TTL
    BY <1>1, <1>6, BoundAssumption DEF Due
  <2>2. /\ coordinator' = [coordinator EXCEPT !.left = Minus(coordinator.left),
                                              !.owner = IF coordinator.left = 1 THEN None ELSE coordinator.owner]
        /\ mine' = mine
    BY <1>6 DEF Elapse
  <2>3. coordinator'.owner = d /\ coordinator'.gen = mine[d] /\ coordinator'.left = TTL - 1
    BY <1>1, <2>1, <2>2, BoundAssumption DEF Minus
  <2> QED BY <2>2, <2>3, BoundAssumption DEF Holds
<1>7. ASSUME NEW e \in Daemon, NEW from, NEW to, Fenced(e, from, to) PROVE Holds(d)'
  BY <1>2, <1>5, <1>7 DEF Fenced, leaseVars
<1>8. ASSUME NEW e \in Daemon, Start(e) \/ StartupStep(e) PROVE Holds(d)'
  <2>1. CASE ClaimCoordinatorLease(e)
    BY <1>1, <1>5, <2>1, BoundAssumption, NoneAssumption
       DEF ClaimCoordinatorLease, Busy
  <2>2. CASE RecoverFromRestart(e) \/ SuspendAutomaticSubscriptions(e) \/ SweepAtStartup(e)
    BY <1>7, <2>2 DEF RecoverFromRestart, SuspendAutomaticSubscriptions, SweepAtStartup
  <2>3. CASE Start(e) \/ ClaimDaemonInstanceLease(e) \/ ResetInferredSubscriptionPolicies(e) \/ Serve(e)
    BY <1>2, <2>3 DEF Start, ClaimDaemonInstanceLease, ResetInferredSubscriptionPolicies, Serve, leaseVars
  <2>4. CASE Listen(e) \/ DiscoverAtStartup(e)
    BY <1>2, <1>5, <2>4 DEF Listen, DiscoverAtStartup, leaseVars
  <2> QED BY <1>8, <2>1, <2>2, <2>3, <2>4 DEF StartupStep
<1>9. ASSUME NEW e \in Daemon, ServingStep(e) PROVE Holds(d)'
  <2>1. CASE BeginPoll(e) \/ SavePoll(e) \/ LockLost(e)
    BY <1>2, <2>1 DEF BeginPoll, SavePoll, LockLost, leaseVars
  <2>2. CASE Sweep(e) \/ Demoted(e) \/ Stopped(e)
    BY <1>2, <1>3, <2>2 DEF Sweep, Demoted, Stopped, leaseVars
  <2>3. CASE RenewAuthority(e)
    <3>1. mine' = mine
      BY <2>3 DEF RenewAuthority
    <3>2. coordinator' \in {coordinator, [coordinator EXCEPT !.left = TTL]}
      BY <2>3 DEF RenewAuthority, leaseVars
    <3> QED BY <1>1, <3>1, <3>2, BoundAssumption DEF Holds
  <2>4. CASE ReleaseAuthority(e)
    <3>1. e # d /\ mine' = mine
      BY <2>4 DEF ReleaseAuthority, At
    <3> QED BY <1>2, <1>4, <2>4, <3>1 DEF ReleaseAuthority
  <2> QED BY <1>9, <2>1, <2>2, <2>3, <2>4 DEF ServingStep
<1>10. ASSUME NEW e \in Daemon, FaultStep(e) \/ Resume(e) PROVE Holds(d)'
  <2>1. CASE RequestStop(e) \/ Suspend(e) \/ Resume(e)
    BY <1>2, <2>1 DEF RequestStop, Suspend, Resume, leaseVars
  <2>2. CASE Kill(e)
    BY <1>2, <1>3, <2>2 DEF Kill, leaseVars
  <2>3. CASE GitHubHangs(e)
    <3>1. e # d
      BY <2>3 DEF GitHubHangs, At
    <3> QED BY <1>6, <2>3, <3>1 DEF GitHubHangs
  <2> QED BY <1>10, <2>1, <2>2, <2>3 DEF FaultStep
<1>11. CASE Tick
  BY <1>6, <1>11 DEF Tick
<1>12. CASE UNCHANGED vars
  BY <1>2, <1>12 DEF vars
<1> QED BY <1>8, <1>9, <1>10, <1>11, <1>12 DEF Next

(* authorityInterval (src/src/daemon/index.ts): where the leases outlast the renewal *)
(* interval, neither the clock nor another daemon's start, abort or end takes the    *)
(* coordinator lease from a daemon that runs.                                        *)
THEOREM RunningKeepsAuthority == ASSUME TTL > 1 PROVE Spec => OnlyAwayLosesAuthority
<1>1. LeaseInv /\ [Next]_vars =>
        [\A d \in Daemon :
           Running(d) /\ Holds(d) /\ phase[d] = "serving" /\ phase'[d] = "serving" => Holds(d)']_vars
  BY ServingKeepsLease
<1> QED BY LeaseInvariant, <1>1, PTL DEF Spec, OnlyAwayLosesAuthority
=============================================================================
