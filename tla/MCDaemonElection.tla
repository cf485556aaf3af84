-------------------------- MODULE MCDaemonElection --------------------------
(***************************************************************************)
(* Small instances of DaemonElection for TLC, all in one run: the first    *)
(* state chooses which.  l1 packages the oldest build, l2 a newer one and  *)
(* l3 one of l2's release built later; l0 is a package from before         *)
(* requestHandover.                                                        *)
(***************************************************************************)
EXTENDS DaemonElection, TLC

CONSTANTS l0, l1, l2, l3, d1, d2

Packaged ==
  (l0 :> [release |-> 0, time |-> 0, asks |-> FALSE]) @@
  (l1 :> [release |-> 1, time |-> 1, asks |-> TRUE]) @@
  (l2 :> [release |-> 2, time |-> 1, asks |-> TRUE]) @@
  (l3 :> [release |-> 2, time |-> 2, asks |-> TRUE])

MCBuild == [l \in Launcher |-> Packaged[l]]

VARIABLE slice

(* "fair": two builds, one fault, liveness; "builds": three builds and no fault; *)
(* "faults": one launcher and every fault.                                       *)
Launching == [fair |-> {l1, l2}, builds |-> {l0, l2, l3}, faults |-> {l2}]

mcVars == <<vars, slice>>

MCInit ==
  /\ slice \in DOMAIN Launching
  /\ Init!1 /\ Init!2 /\ Init!3 /\ Init!4 /\ Init!5 /\ Init!6 /\ Init!7
  /\ faults = [minor |-> 0, major |-> IF slice = "fair" THEN MaxFaults - 1 ELSE 0]
  /\ Init!9 /\ Init!10

MCNext ==
  /\ Next
  /\ \A l \in Launcher \ Launching[slice] : st'[l] = "off"
  /\ slice = "builds" => faults'.major = 0 /\ faults'.minor <= 1
  /\ UNCHANGED slice

MCFairness ==
  /\ \A l \in Launching["fair"] : WF_mcVars(Launch(l) /\ UNCHANGED slice)
  /\ \A l \in Launching["fair"] : WF_mcVars(LauncherStep(l) /\ UNCHANGED slice)
  /\ \A d \in Daemon : WF_mcVars(DaemonStep(d) /\ UNCHANGED slice) /\ WF_mcVars(Serve(d) /\ UNCHANGED slice)
  /\ \A k \in Lock : WF_mcVars(Age(k) /\ UNCHANGED slice)

MCSpec == MCInit /\ [][MCNext]_mcVars /\ (slice = "fair" => MCFairness)

(* ServedAgain in the instance that is fair *)
ServedAgainWhenFair == slice = "fair" => ServedAgain
=============================================================================
