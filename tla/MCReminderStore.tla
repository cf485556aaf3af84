-------------------------- MODULE MCReminderStore --------------------------
(***************************************************************************)
(* A small instance of ReminderStore for TLC.  One run explores three      *)
(* slices of it, each complete within its bounds: a session that hosts of  *)
(* every kind serve, from its registration to its pruning; bundles of two  *)
(* pull requests with a longer log; and automatic subscriptions, with      *)
(* restarts of the daemon and the startup steps that follow them.          *)
(***************************************************************************)
EXTENDS ReminderStore, TLC

CONSTANTS s1, s2, p1, p2

VARIABLE slice  \* chosen at the start, kept ever after

mcVars == <<vars, slice>>

Active == [NoSession EXCEPT !.status = "active"]

MCInit ==
  /\ Init!1 /\ Init!3 /\ Init!4 /\ Init!5 /\ Init!6 /\ Init!7 /\ Init!8 /\ Init!10
  /\ \/ slice = "hosts" /\ Init!2 /\ coordinator = "serving"
     \/ slice = "bundles" /\ sess = [Init!2!2 EXCEPT ![s1] = Active] /\ coordinator = "serving"
     \/ slice = "attach" /\ sess = [Init!2!2 EXCEPT ![s1] = Active] /\ coordinator = "down"

Settle == {"confirmed", "failed"}

Hosts(s, P) ==
  \/ HostNext!(s)
  \/ RegisterSession(s) \/ Revive(s) \/ Detach(s) \/ Close(s) \/ PruneClosedSession(s)
  \/ \E pause \in BOOLEAN : SetSessionPaused(s, pause)
  \/ PrunePause(s)
  \/ \E q \in P \cup {NoPR}, pause \in BOOLEAN : EnsureSessionControl(s, q, FALSE, pause)
  \/ \E p \in P : PruneSubscription(s, p)
  \/ ExpireStaleHandoffs

Bundles(s) == \/ ClaimReminderBundle(s)
              \/ \E h \in Handoff, o \in Settle : AckReminderBundle(s, h, o)

Following(s, P) == \E p \in P : Subscribe(s, p) \/ Unsubscribe(s, p)

Polling(s, P, most) ==
  \E p \in P, n \in 0..most, changed \in BOOLEAN, B \in SUBSET {s} : Poll(p, n, changed, B)

Attaching(s, P) ==
  \/ \E p \in P : RejectPullRequest(s, p)
  \/ \E D, B \in SUBSET P : ActivateWorktree(s, D, B)
  \/ \E q \in P \cup {NoPR}, changed \in BOOLEAN : EnsureSessionControl(s, q, changed, FALSE)
  \/ \E p \in P, F, S, W \in SUBSET {s}, n \in {0, 1} : DiscoverPullRequest(p, F, S, W, n)
  \/ \E X \in SUBSET {s} : RecoverFromRestart(X) \/ SuspendAutomaticSubscriptions(X)
  \/ \E D, B \in SUBSET P : ResetInferredSubscriptionPolicies([u \in Session |-> IF u = s THEN D ELSE {}],
                                                          [u \in Session |-> IF u = s THEN B ELSE {}])
  \/ Crash

(* The handoff ids and the length of the log a slice goes up to *)
Within(handoffs, events) == nextHandoff' <= handoffs + 1 /\ Len(log') <= events

MCNext ==
  \/ /\ slice = "hosts"
     /\ \/ Hosts(s2, {p1}) \/ Following(s2, {p1}) \/ Polling(s2, {p1}, 1) \/ Tick
     /\ Within(1, 2) /\ UNCHANGED slice
  \/ /\ slice = "bundles"
     /\ \/ Bundles(s1) \/ Following(s1, {p1, p2}) \/ Polling(s1, {p1, p2}, 2)
        \/ ExpireStaleHandoffs \/ Tick
     /\ Within(2, 3) /\ UNCHANGED slice
  \/ /\ slice = "attach"
     /\ \/ Bundles(s1) \/ Following(s1, {p1}) \/ Attaching(s1, {p1})
        \/ Polling(s1, {p1}, 1) \/ Tick
     /\ Within(2, 1) /\ UNCHANGED slice

MCSpec == MCInit /\ [][MCNext]_mcVars
=============================================================================
