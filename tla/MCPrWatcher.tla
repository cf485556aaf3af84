---------------------------- MODULE MCPrWatcher ----------------------------
(***************************************************************************)
(* Small instances of PrWatcher for TLC, chosen by the first state:        *)
(* "shared", one pull request and two sessions; "moving", two processes    *)
(* that poll while the coordinator lease moves, neither switched off nor   *)
(* throttled nor left; "lasting" and "pair", one and two pull requests     *)
(* of one session, for liveness.                                           *)
(***************************************************************************)
EXTENDS PrWatcher, TLC

CONSTANTS d1, d2, s1, s2, p1, p2

VARIABLE slice

mcVars == <<vars, slice>>

Slices ==
  [shared  |-> [daemons |-> {d1}, sessions |-> {s1, s2}, prs |-> {p1}, versions |-> 2, faults |-> 2],
   moving  |-> [daemons |-> {d1, d2}, sessions |-> {s1}, prs |-> {p1}, versions |-> 1, faults |-> 1],
   lasting |-> [daemons |-> {d1}, sessions |-> {s1}, prs |-> {p1}, versions |-> 1, faults |-> 2],
   pair    |-> [daemons |-> {d1}, sessions |-> {s1}, prs |-> {p1, p2}, versions |-> 0, faults |-> 1]]

Fair == {"lasting", "pair"}

MCInit ==
  /\ slice \in DOMAIN Slices
  /\ Init!1 /\ Init!2 /\ Init!3 /\ Init!4 /\ Init!5 /\ Init!6 /\ Init!7 /\ Init!8 /\ Init!9
  /\ Init!10 /\ Init!11
  /\ faults = MaxFaults - Slices[slice].faults
  /\ Init!13 /\ Init!14 /\ Init!15

MCNext ==
  /\ Next
  /\ up' \subseteq Slices[slice].daemons
  /\ \A s \in Session : subs'[s] \subseteq IF s \in Slices[slice].sessions THEN Slices[slice].prs ELSE {}
  /\ \A p \in Pr : remote'[p].version <= IF p \in Slices[slice].prs THEN Slices[slice].versions ELSE 0
  /\ slice = "moving" => ~disabled' /\ limited' = "none" /\ subs[s1] \subseteq subs'[s1]
  /\ UNCHANGED slice

(* Fairness of the process both instances for liveness have *)
MCFairness ==
  /\ WF_mcVars(Boot(d1) /\ UNCHANGED slice) /\ WF_mcVars(TickStart(d1) /\ UNCHANGED slice)
  /\ WF_mcVars(Fetch(d1) /\ UNCHANGED slice)
  /\ WF_mcVars((Respond(d1) \/ FetchFails(d1)) /\ UNCHANGED slice)
  /\ WF_mcVars(Apply(d1) /\ UNCHANGED slice)
  /\ \A p \in Pr : WF_mcVars(Elapse(p) /\ UNCHANGED slice)
  /\ WF_mcVars(Reset /\ UNCHANGED slice)

MCSpec == MCInit /\ [][MCNext]_mcVars /\ (slice \in Fair => MCFairness)

WatchedIsPolledWhenFair == slice \in Fair => WatchedIsPolled
=============================================================================
