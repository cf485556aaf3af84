--------------------------- MODULE ReminderStore ---------------------------
(***************************************************************************)
(* The delivery state of the premind daemon's SQLite store                 *)
(* (src/src/daemon/persistence/store.ts): the event log, the sessions, the *)
(* per-session subscriptions with their delivery cursors, the reminder     *)
(* batches and the handoff ledgers.  Every action is one transaction (or   *)
(* one synchronous handler) of the store; several hosts, daemon instances  *)
(* and pollers interleave between them, and a process can die between two  *)
(* transactions of one handler.                                            *)
(***************************************************************************)
EXTENDS Naturals, FiniteSets, Sequences

CONSTANTS
  Session,      \* session ids
  PR,           \* pull requests (repo, number)
  NoPR,         \* sessions.pr_number IS NULL
  Legacy,       \* the batch slot with subscription_id IS NULL
  BundleHosts,  \* sessions whose host claims bundles (Claude, Pi, OpenCode)
  LeaseHosts,   \* sessions whose host claims one leased batch (Codex)
  PollHosts,    \* sessions whose host fetches and acknowledges one batch (v1)
  MaxEvents,    \* bound: length of the event log
  MaxPerPoll,   \* bound: events one poll appends
  MaxHandoffs,  \* bound: handoff ids (randomUUID calls)
  Limit,        \* events per batch (LIMIT 20)
  Stale,        \* PREMIND_REMINDER_HANDOFF_STALE_MS, in ticks
  ClaimLease    \* PREMIND_REMINDER_CLAIM_LEASE_MS, in ticks

ASSUME NameAssumption == NoPR \notin PR /\ Legacy \notin PR
ASSUME FiniteAssumption == IsFiniteSet(PR)
ASSUME HostAssumption == /\ BundleHosts \subseteq Session
                         /\ LeaseHosts \subseteq Session
                         /\ PollHosts \subseteq Session
ASSUME BoundAssumption ==
  /\ MaxEvents \in Nat /\ MaxPerPoll \in Nat /\ MaxHandoffs \in Nat
  /\ Limit \in Nat \ {0} /\ Stale \in Nat \ {0}
  /\ ClaimLease \in 1..Stale

VARIABLES
  log,          \* pr_events: log[seq] is the pull request of event seq
  sess,         \* sessions: status, pr_number, last_delivered_event_seq
  paused,       \* session_pauses
  sub,          \* session_subscriptions, by session and pull request
  batch,        \* reminder_batches, by session and slot
  settlement,   \* reminder_handoff_settlements
  exec,         \* reminder_handoff_execution_claims
  nextHandoff,  \* the next fresh handoff id
  coordinator,  \* how far the coordinating daemon's startup has got
  asked         \* history: the sessions that were last asked to pause

vars == <<log, sess, paused, asked, sub, batch, settlement, exec, nextHandoff, coordinator>>

-----------------------------------------------------------------------------
Target    == PR \cup {Legacy}
Handoff   == 1..MaxHandoffs
NoHandoff == 0
NoLease   == 0
Ages      == 0..(Stale + 1)

(* One row of reminder_batches.  The age counts ticks since updated_at and  *)
(* saturates one past Stale; it is kept only while the row is handed off.   *)
Batch == [state: {"none", "built", "handed_off", "failed"},
          evs: SUBSET Nat, upto: Nat,
          handoff: Handoff \cup {NoHandoff}, size: Nat,
          lease: {NoLease, ClaimLease, Stale}, age: Ages, canceled: BOOLEAN]

NoBatch == [state |-> "none", evs |-> {}, upto |-> 0, handoff |-> NoHandoff,
            size |-> 0, lease |-> NoLease, age |-> 0, canceled |-> FALSE]

NoSub     == [state |-> "none", source |-> "automatic", cursor |-> 0]
NoSession == [status |-> "none", pr |-> NoPR, cursor |-> 0]
NoSettlement == [state |-> "none", session |-> "none", count |-> 0]
NoExec    == [state |-> "none", age |-> 0]

Exists(s)    == sess[s].status # "none"
(* Mutant: a pause does not hold deliveries back *)
MutDeliverable(s) == sess[s].status = "active"

Deliverable(s) == sess[s].status = "active" /\ ~paused[s]
InFlight(b)  == b.state = "handed_off"
Queued(b)    == b.state \in {"built", "failed"}
ActiveSubs(s) == {p \in PR : sub[s][p].state = "active"}

-----------------------------------------------------------------------------
(* Building batches                                                         *)

Latest(S) == CHOOSE i \in S : \A j \in S : j <= i

(* Mutant: the event at the cursor comes again *)
MutAfter(lg, p, cursor) == {i \in DOMAIN lg : lg[i] = p /\ i >= cursor}

(* SELECT ... WHERE seq > cursor ORDER BY seq *)
After(lg, p, cursor) == {i \in DOMAIN lg : lg[i] = p /\ i > cursor}

(* Mutant: the newest events instead of the oldest *)
MutFirstOf(S) == {i \in S : Cardinality({j \in S : i <= j}) <= Limit}

(* LIMIT 20 *)
FirstOf(S) == {i \in S : Cardinality({j \in S : j <= i}) <= Limit}

HighWater(p) == LET S == After(log, p, 0)
                IN  IF S = {} THEN 0 ELSE Latest(S)

(* createOrReplaceReminder *)
NewBatch(evs) == [NoBatch EXCEPT !.state = "built", !.evs = evs, !.upto = Latest(evs)]

(* buildReminderBatch for one subscription: the row already in its slot, or a new batch *)
BuildCell(lg, s, p, b) ==
  LET evs == FirstOf(After(lg, p, sub[s][p].cursor))
  IN  IF /\ sub[s][p].state = "active" /\ Deliverable(s)
         /\ ~Queued(b) /\ ~InFlight(b) /\ evs # {}
      THEN NewBatch(evs) ELSE b

(* buildReminderBatch for a session no subscription of which is active *)
BuildLegacy(s, b) ==
  LET evs == IF sess[s].pr = NoPR THEN {}
             ELSE FirstOf(After(log, sess[s].pr, sess[s].cursor))
  IN  IF Deliverable(s) /\ ~InFlight(b) /\ evs # {} THEN NewBatch(evs) ELSE b

(* getPendingReminderRecord: the rows a retry may serve again *)
Pending(s, t, b) == /\ Queued(b)
                    /\ IF t = Legacy THEN ~b.canceled ELSE sub[s][t].state = "active"

-----------------------------------------------------------------------------
(* expireStaleHandoffs: abandoned handoffs become failed.  A leased claim    *)
(* loses its handoff id; a bundle keeps it, so a retry can reuse it.         *)

Stalled(b) == InFlight(b) /\ IF b.lease = NoLease THEN b.age > Stale ELSE b.age >= b.lease

Released(b) == [b EXCEPT !.state = "failed", !.handoff = NoHandoff, !.size = 0,
                         !.lease = NoLease, !.age = 0]

Expire(b) == IF ~Stalled(b) THEN b
             ELSE IF b.lease # NoLease THEN Released(b)
             ELSE [b EXCEPT !.state = "failed", !.age = 0]

SweptCell(b) == LET e == Expire(b)
                IN  IF e.state = "failed" /\ e.canceled THEN NoBatch ELSE e

Swept == [s \in Session |-> [t \in Target |-> SweptCell(batch[s][t])]]

ExpireStaleHandoffs ==
  /\ batch' = Swept
  /\ UNCHANGED <<log, sess, paused, asked, sub, settlement, exec, nextHandoff, coordinator>>

-----------------------------------------------------------------------------
(* Bundles: claimReminderBundle and ackReminderBundle                        *)

(* The rows of session s after the claim has built what its subscriptions    *)
(* are owed, from the swept rows w.                                          *)
BundleCells(s, w) ==
  LET c == [t \in Target |-> IF t \in ActiveSubs(s) THEN BuildCell(log, s, t, w[t]) ELSE w[t]]
  IN  IF ActiveSubs(s) = {} /\ ~\E t \in Target : Pending(s, t, c[t])
      THEN [c EXCEPT ![Legacy] = BuildLegacy(s, @)] ELSE c

Members(s, c) == {t \in Target : Pending(s, t, c[t])}

ReusableHandoffs(s, c) ==
  {h \in {c[t].handoff : t \in Members(s, c)} : h # NoHandoff /\ settlement[h].state = "none"}

(* The handoff id of the claim: a lone unsettled one is reused *)
BundleHandoff(s, c) ==
  LET reusable == ReusableHandoffs(s, c)
  IN  IF Cardinality(reusable) = 1 THEN CHOOSE h \in reusable : TRUE ELSE nextHandoff

(* Mutant: a handoff is executed once, however stale the execution *)
MutClaimable(h, sameOwner) == exec[h].state = "none"

(* claimHandoffExecution throws HANDOFF_SETTLED, and HANDOFF_BUSY while the    *)
(* execution of another daemon instance or session generation is running       *)
Claimable(h, sameOwner) ==
  /\ exec[h].state # "settled"
  /\ exec[h].state = "open" /\ exec[h].age < Stale => sameOwner

HandOff(b, h, size, lease) ==
  [b EXCEPT !.state = "handed_off", !.handoff = h, !.size = size, !.lease = lease, !.age = 0]

(* Mutant: rows of subscriptions dropped meanwhile are overlooked *)
MutNothingInFlight(s) ==
  \A t \in Target : InFlight(Swept[s][t]) => t # Legacy /\ sub[s][t].state # "active"

(* hasInFlightHandoff, after the sweep *)
NothingInFlight(s) == \A t \in Target : ~InFlight(Swept[s][t])

ClaimReminderBundle(s) ==
  LET c       == BundleCells(s, Swept[s])
      members == Members(s, c)
      h       == BundleHandoff(s, c)
  IN  /\ s \in BundleHosts /\ Deliverable(s)
      /\ NothingInFlight(s)
      /\ members # {} /\ h \in Handoff /\ \E sameOwner \in BOOLEAN : Claimable(h, sameOwner)
      /\ batch' = [Swept EXCEPT ![s] = [t \in Target |->
                     IF t \in members THEN HandOff(c[t], h, Cardinality(members), NoLease)
                     ELSE c[t]]]
      /\ exec' = [exec EXCEPT ![h] = [state |-> "open", age |-> 0]]
      /\ nextHandoff' = IF h = nextHandoff THEN h + 1 ELSE nextHandoff
      /\ UNCHANGED <<log, sess, paused, asked, sub, settlement, coordinator>>

Records(s, h) == {t \in Target : InFlight(batch[s][t]) /\ batch[s][t].handoff = h}

(* confirmReminderBatch moves the cursor of the batch's subscription, active or not *)
Raised(s, T) ==
  [p \in PR |-> IF p \in T /\ sub[s][p].cursor < batch[s][p].upto
                THEN [sub[s][p] EXCEPT !.cursor = batch[s][p].upto] ELSE sub[s][p]]

(* ... and the legacy session cursor, MAX over the batches confirmed *)
RaisedCursor(s, T) == Latest({sess[s].cursor} \cup {batch[s][t].upto : t \in T})

Confirm(s, T) ==
  /\ sub'  = [sub EXCEPT ![s] = Raised(s, T)]
  /\ sess' = [sess EXCEPT ![s].cursor = RaisedCursor(s, T)]

(* The failed rows a failed acknowledgement deletes *)
Abandoned(s, t, b) == b.state = "failed"
                      /\ IF t = Legacy THEN b.canceled \/ sess[s].pr = NoPR
                         ELSE sub[s][t].state # "active"

(* Mutant: a failed bundle releases only the rows of active subscriptions *)
MutFailedCell(s, t, h, b) ==
  IF InFlight(b) /\ b.handoff = h /\ (t = Legacy \/ sub[s][t].state = "active")
  THEN Released(b) ELSE b

FailedCell(s, t, h, b) ==
  LET r == IF InFlight(b) /\ b.handoff = h THEN Released(b)
           ELSE IF b.handoff = h THEN [b EXCEPT !.handoff = NoHandoff, !.size = 0]
           ELSE b
  IN  IF Abandoned(s, t, r) THEN NoBatch ELSE r

AckReminderBundle(s, h, outcome) ==
  LET records == Records(s, h)
  IN  /\ s \in BundleHosts /\ records # {}
      /\ \A t \in records : batch[s][t].size = Cardinality(records)
      /\ \/ /\ outcome = "confirmed"
            /\ batch' = [batch EXCEPT ![s] = [t \in Target |->
                           IF t \in records THEN NoBatch ELSE batch[s][t]]]
            /\ Confirm(s, records)
         \/ /\ outcome = "failed"
            /\ batch' = [batch EXCEPT ![s] = [t \in Target |-> FailedCell(s, t, h, batch[s][t])]]
            /\ UNCHANGED <<sub, sess>>
      /\ settlement' = IF settlement[h].state # "none" THEN settlement
                       ELSE [settlement EXCEPT ![h] =
                              [state |-> outcome, session |-> s, count |-> Cardinality(records)]]
      /\ exec' = [exec EXCEPT ![h].state = IF @ = "open" THEN "settled" ELSE @]
      /\ UNCHANGED <<log, paused, asked, nextHandoff, coordinator>>

(* What the acknowledgement answers: the batches it settled, or what an      *)
(* earlier one with the same outcome settled; it throws on a partial bundle. *)
Incomplete == Cardinality(Target) + 1  \* a count no bundle has
AckReply(s, h, outcome) ==
  LET records == Records(s, h)
  IN  IF records = {}
      THEN IF settlement[h].state = outcome /\ settlement[h].session = s
           THEN settlement[h].count ELSE 0
      ELSE IF \E t \in records : batch[s][t].size # Cardinality(records) THEN Incomplete
      ELSE Cardinality(records)

-----------------------------------------------------------------------------
(* Single batches: claimReminder, settleReminderClaim, confirmClaudeHandoff, *)
(* and the v1 pair getPendingReminder, ackReminder                           *)

(* The batches getPendingReminderRecord, or else buildReminderBatch, may     *)
(* select: their order by created_at is left open.                           *)
Selectable(s, w) ==
  LET queued == {t \in Target : Pending(s, t, w[t])}
      cell(t) == IF t = Legacy
                 THEN IF ActiveSubs(s) = {} THEN BuildLegacy(s, w[t]) ELSE w[t]
                 ELSE BuildCell(log, s, t, w[t])
      built  == {t \in Target : Pending(s, t, cell(t))}
  IN  IF queued # {} THEN {[target |-> t, row |-> w[t]] : t \in queued}
      ELSE {[target |-> t, row |-> cell(t)] : t \in built}

(* failed -> built clears the handoff *)
Retried(b) == IF b.state = "failed"
              THEN [Released(b) EXCEPT !.state = "built"] ELSE b

(* Whatever the session has in flight under a handoff id keeps others from claiming *)
Contended(s) == \E t \in Target : InFlight(Swept[s][t]) /\ Swept[s][t].handoff # NoHandoff

ClaimReminder(s, lease) ==
  /\ s \in LeaseHosts /\ Exists(s) /\ ~paused[s]
  /\ ~Contended(s)
  /\ \E x \in Selectable(s, Swept[s]) :
       IF sess[s].status = "active"
       THEN /\ nextHandoff \in Handoff
            /\ batch' = [Swept EXCEPT ![s][x.target] =
                           HandOff(Retried(x.row), nextHandoff, 0, lease)]
            /\ nextHandoff' = nextHandoff + 1
       ELSE /\ batch' = [Swept EXCEPT ![s][x.target] = Retried(x.row)]
            /\ UNCHANGED nextHandoff
  /\ UNCHANGED <<log, sess, paused, asked, sub, settlement, exec, coordinator>>

(* settleReminderClaim: only while the lease the claim took is running *)
Settleable(s, t, h) == /\ InFlight(Swept[s][t]) /\ Swept[s][t].handoff = h
                       /\ Swept[s][t].lease # NoLease

SettleReminderClaim(s, t, h, outcome) ==
  /\ s \in LeaseHosts \cup BundleHosts /\ Settleable(s, t, h)
  /\ \/ /\ outcome = "confirmed"
        /\ batch' = [Swept EXCEPT ![s][t] = NoBatch]
        /\ Confirm(s, {t})
     \/ /\ outcome = "failed"
        /\ batch' = [Swept EXCEPT ![s][t] = Released(@)]
        /\ UNCHANGED <<sub, sess>>
  /\ UNCHANGED <<log, paused, asked, settlement, exec, nextHandoff, coordinator>>

(* The handed-off row updated last (a cancellation updates it too) *)
CurrentHandoff(s, t) ==
  /\ InFlight(batch[s][t])
  /\ \A u \in Target : InFlight(batch[s][u]) =>
       batch[s][t].canceled \/ batch[s][t].age <= batch[s][u].age

ConfirmClaudeHandoff(s) ==
  \E t \in Target :
    /\ s \in LeaseHosts \cup BundleHosts /\ CurrentHandoff(s, t)
    /\ IF batch[s][t].handoff # NoHandoff
       THEN SettleReminderClaim(s, t, batch[s][t].handoff, "confirmed")
       ELSE /\ batch' = [batch EXCEPT ![s][t] = NoBatch]
            /\ Confirm(s, {t})
            /\ UNCHANGED <<log, paused, asked, settlement, exec, nextHandoff, coordinator>>

GetPendingReminder(s) ==
  /\ s \in PollHosts /\ Exists(s) /\ ~paused[s]
  /\ \E x \in Selectable(s, Swept[s]) : batch' = [Swept EXCEPT ![s][x.target] = Retried(x.row)]
  /\ UNCHANGED <<log, sess, paused, asked, sub, settlement, exec, nextHandoff, coordinator>>

HandOverAllowed(s, t) == batch[s][t].state = "built" /\ ~paused[s]

AckReminder(s, t, state) ==
  /\ s \in PollHosts
  /\ \/ /\ state = "handed_off" /\ HandOverAllowed(s, t)
        /\ batch' = [batch EXCEPT ![s][t] = HandOff(@, NoHandoff, 0, NoLease)]
        /\ UNCHANGED <<sub, sess>>
     \/ /\ state = "failed" /\ InFlight(batch[s][t])
        /\ batch' = [batch EXCEPT ![s][t] = Released(@)]
        /\ UNCHANGED <<sub, sess>>
     \/ /\ state = "confirmed" /\ InFlight(batch[s][t])
        /\ batch' = [batch EXCEPT ![s][t] = NoBatch]
        /\ Confirm(s, {t})
  /\ UNCHANGED <<log, paused, asked, settlement, exec, nextHandoff, coordinator>>

-----------------------------------------------------------------------------
(* Polling: a pull request's new events are saved and every active           *)
(* subscription of it gets its batch                                         *)

Extended(p, n) == [i \in 1..(Len(log) + n) |-> IF i <= Len(log) THEN log[i] ELSE p]

(* reconcileSubscriptionPolicies deletes the queued rows of the subscribers   *)
Reconciled(s, p, changed) ==
  IF changed /\ sub[s][p].state = "active" /\ Queued(batch[s][p]) THEN NoBatch ELSE batch[s][p]

(* One tick for one pull request after the fetch: n events, policies changed   *)
(* or not, and the subscribers B whose batch is built before another instance  *)
(* gets in between, a build throws or the process dies; the rest is built by a *)
(* step with n = 0, as when a 304 answer changes policies, or by a claim.      *)
Poll(p, n, changed, B) ==
  LET lg       == Extended(p, n)
      watchers == {s \in Session : sub[s][p].state = "active" /\ sess[s].status = "active"}
  IN  /\ coordinator = "serving"
      /\ \E s \in Session : sub[s][p].state # "none"
      /\ Len(log) + n <= MaxEvents /\ B \subseteq watchers
      /\ log' = lg
      /\ batch' = [s \in Session |-> [t \in Target |->
                     IF t # p THEN batch[s][t]
                     ELSE LET b == Reconciled(s, p, changed)
                          IN  IF s \in B THEN BuildCell(lg, s, p, b) ELSE b]]
      /\ UNCHANGED <<sess, paused, asked, sub, settlement, exec, nextHandoff, coordinator>>

-----------------------------------------------------------------------------
(* Subscriptions                                                             *)

(* upsertSubscription, source manual *)
Subscribe(s, p) ==
  /\ Exists(s)
  /\ sub' = [sub EXCEPT ![s][p].state = "active", ![s][p].source = "manual"]
  /\ UNCHANGED <<log, sess, paused, asked, batch, settlement, exec, nextHandoff, coordinator>>

(* Mutant: what was built before stays *)
MutUnsubscribe(s, p) ==
  /\ sub[s][p].state # "none"
  /\ sub' = [sub EXCEPT ![s][p].state = "unsubscribed"]
  /\ UNCHANGED <<log, sess, paused, asked, batch, settlement, exec, nextHandoff, coordinator>>

(* unsubscribe; done again, it drops the row a stale handoff left behind *)
Unsubscribe(s, p) ==
  /\ sub[s][p].state # "none"
  /\ sub' = [sub EXCEPT ![s][p].state = "unsubscribed"]
  /\ batch' = [batch EXCEPT ![s][p] = IF InFlight(@) THEN @ ELSE NoBatch]
  /\ UNCHANGED <<log, sess, paused, asked, settlement, exec, nextHandoff, coordinator>>

(* Mutant: a known subscription is baselined again *)
MutBaselined(s, p, r) ==
  IF r.state # "none" /\ r.source = "manual" THEN r
  ELSE [state |-> "active", source |-> "automatic", cursor |-> HighWater(p)]

(* baselineAutomaticSubscription: a manual subscription stays as it is, a     *)
(* known one keeps its cursor, a new one starts at the high-water mark        *)
Baselined(s, p, r) ==
  IF r.state # "none" /\ r.source = "manual" THEN r
  ELSE [state |-> "active", source |-> "automatic",
        cursor |-> IF r.state = "none" THEN HighWater(p) ELSE r.cursor]

(* deactivateAutomaticSubscriptions *)
Automatic(s, p) == sub[s][p].state # "none" /\ sub[s][p].source = "automatic"

Deactivated(s) ==
  [p \in PR |-> IF Automatic(s, p) THEN [sub[s][p] EXCEPT !.state = "unsubscribed"] ELSE sub[s][p]]

(* Mutant: rows go although they are handed off *)
MutWithoutAutomatic(s) ==
  [t \in Target |-> IF t \in PR /\ Automatic(s, t) THEN NoBatch ELSE batch[s][t]]

WithoutAutomatic(s) ==
  [t \in Target |-> IF t \in PR /\ Automatic(s, t) /\ ~InFlight(batch[s][t])
                    THEN NoBatch ELSE batch[s][t]]

(* recordBranchAssociation: the sessions on the branch are attached to p, past *)
(* what it already logged                                                      *)
Attached(r, p) ==
  [r EXCEPT !.pr = p,
            !.cursor = IF r.pr # p /\ HighWater(p) > 0 THEN HighWater(p) ELSE @]

(* Branch discovery found p open: it attaches the sessions on the branch, gives  *)
(* every follower its subscription (a switching one drops the others first) and *)
(* then logs pr.discovered unless it is logged already.                          *)
DiscoverPullRequest(p, onBranch, followers, switching, n) ==
  /\ coordinator = "serving" /\ n \in {0, 1} /\ Len(log) + n <= MaxEvents
  /\ onBranch \cup followers # {} /\ switching \subseteq followers
  /\ \A s \in onBranch : Exists(s)
  /\ \A s \in followers : Exists(s) /\ (s \in onBranch \/ sess[s].status = "active")
  /\ sess' = [s \in Session |-> IF s \in onBranch THEN Attached(sess[s], p) ELSE sess[s]]
  /\ sub' = [s \in Session |->
               LET r == IF s \in switching THEN Deactivated(s) ELSE sub[s]
               IN  IF s \in followers THEN [r EXCEPT ![p] = Baselined(s, p, @)] ELSE r]
  /\ batch' = [s \in Session |-> IF s \in switching THEN WithoutAutomatic(s) ELSE batch[s]]
  /\ log' = Extended(p, n)
  /\ UNCHANGED <<paused, asked, settlement, exec, nextHandoff, coordinator>>

(* The legacy row of rejectAutomaticPullRequest: canceled in flight, else deleted *)
RejectedLegacy(b) ==
  IF InFlight(b) THEN [b EXCEPT !.canceled = TRUE, !.age = IF b.lease = NoLease THEN 0 ELSE @]
  ELSE NoBatch

(* rejectAutomaticPullRequest, for the subscriptions of the sessions X *)
Reject(X, P) ==
  /\ sess' = [s \in Session |-> IF s \in X /\ sess[s].pr \in P[s]
                                THEN [sess[s] EXCEPT !.pr = NoPR, !.cursor = 0] ELSE sess[s]]
  /\ sub' = [s \in Session |-> IF s \in X THEN Deactivated(s) ELSE sub[s]]
  /\ batch' = [s \in Session |-> IF s \in X
                 THEN [WithoutAutomatic(s) EXCEPT ![Legacy] = RejectedLegacy(@)] ELSE batch[s]]

(* Discovery found p open but authored by somebody else *)
RejectPullRequest(s, p) ==
  /\ coordinator = "serving" /\ sess[s].status = "active"
  /\ Reject({s}, [u \in Session |-> {p}])
  /\ UNCHANGED <<log, paused, asked, settlement, exec, nextHandoff, coordinator>>

(* suspendAutomaticSubscriptions: in one transaction at startup; one by one    *)
(* when discovery does not know the viewer, and it has got to the sessions X   *)
SuspendAutomaticSubscriptions(X) ==
  LET P   == [s \in Session |-> {p \in PR : Automatic(s, p) /\ sub[s][p].state = "active"}]
      all == {s \in Session : P[s] # {}}
  IN  /\ \/ coordinator = "recovered" /\ X = all /\ coordinator' = "suspended"
         \/ coordinator = "serving" /\ X \subseteq all /\ UNCHANGED coordinator
      /\ Reject(X, P)
      /\ UNCHANGED <<log, paused, asked, settlement, exec, nextHandoff>>

(* resetInferredSubscriptionPolicies drops the queued rows of the subscriptions *)
(* D[s] whose authority it resets and then rebuilds those of B[s].              *)
ResetRows(s, rows, D, B) ==
  [t \in Target |-> IF t \notin D THEN rows[t]
                    ELSE LET b == IF InFlight(rows[t]) THEN rows[t] ELSE NoBatch
                         IN  IF t \in B THEN BuildCell(log, s, t, b) ELSE b]

ResetInferredSubscriptionPolicies(D, B) ==
  /\ coordinator = "suspended"
  /\ \A s \in Session : D[s] \subseteq ActiveSubs(s) /\ B[s] \subseteq D[s]
  /\ batch' = [s \in Session |-> ResetRows(s, batch[s], D[s], B[s])]
  /\ coordinator' = IF B = D THEN "serving" ELSE coordinator
  /\ UNCHANGED <<log, sess, paused, asked, sub, settlement, exec, nextHandoff>>

(* activateWorktree: one transaction drops the automatic subscriptions and     *)
(* resets inferred authority; the rows are rebuilt after it.                   *)
ActivateWorktree(s, D, B) ==
  /\ Exists(s)
  /\ D \subseteq {p \in ActiveSubs(s) : ~Automatic(s, p)} /\ B \subseteq D
  /\ sub' = [sub EXCEPT ![s] = Deactivated(s)]
  /\ batch' = [batch EXCEPT ![s] = ResetRows(s, WithoutAutomatic(s), D, B)]
  /\ UNCHANGED <<log, sess, paused, asked, settlement, exec, nextHandoff, coordinator>>

(* pruneExpiredPrStreams: retention, far longer than Stale, drops an         *)
(* unsubscribed row and its batch                                            *)
PruneSubscription(s, p) ==
  /\ sub[s][p].state = "unsubscribed" /\ (InFlight(batch[s][p]) => Stalled(batch[s][p]))
  /\ sub' = [sub EXCEPT ![s][p] = NoSub]
  /\ batch' = [batch EXCEPT ![s][p] = NoBatch]
  /\ UNCHANGED <<log, sess, paused, asked, settlement, exec, nextHandoff, coordinator>>

-----------------------------------------------------------------------------
(* Sessions                                                                  *)

(* Mutant: a session that registers starts without a pause *)
MutRegisterSession(s) ==
  /\ sess' = [sess EXCEPT ![s] = IF Exists(s) THEN [@ EXCEPT !.status = "active"]
                                 ELSE [NoSession EXCEPT !.status = "active"]]
  /\ paused' = [paused EXCEPT ![s] = FALSE]
  /\ UNCHANGED <<log, asked, sub, batch, settlement, exec, nextHandoff, coordinator>>

(* registerSession: a new row has no pull request, a known one keeps its own *)
RegisterSession(s) ==
  /\ sess' = [sess EXCEPT ![s] = IF Exists(s) THEN [@ EXCEPT !.status = "active"]
                                 ELSE [NoSession EXCEPT !.status = "active"]]
  /\ UNCHANGED <<log, paused, asked, sub, batch, settlement, exec, nextHandoff, coordinator>>

(* ensureSessionControl, the branch's watcher knowing pull request q.  A new  *)
(* context drops every row of the session, in flight or not.                  *)
EnsureSessionControl(s, q, changed, pause) ==
  LET fresh == ~Exists(s) \/ changed
  IN  /\ paused' = [paused EXCEPT ![s] = pause] /\ asked' = [asked EXCEPT ![s] = pause]
      /\ sess' = [sess EXCEPT ![s] =
           IF fresh THEN [status |-> "active", pr |-> q,
                          cursor |-> IF q = NoPR THEN 0 ELSE HighWater(q)]
           ELSE [@ EXCEPT !.status = "active"]]
      /\ batch' = IF changed THEN [batch EXCEPT ![s] = [t \in Target |-> NoBatch]] ELSE batch
      /\ sub' = IF changed THEN [sub EXCEPT ![s] = Deactivated(s)] ELSE sub
      /\ changed => Exists(s)
      /\ UNCHANGED <<log, settlement, exec, nextHandoff, coordinator>>

(* updateSessionState with a busy state *)
Revive(s) ==
  /\ Exists(s) /\ sess[s].status # "active"
  /\ sess' = [sess EXCEPT ![s].status = "active"]
  /\ UNCHANGED <<log, paused, asked, sub, batch, settlement, exec, nextHandoff, coordinator>>

(* reapStaleSessions, unregisterSession, releaseSessionOwner *)
Detach(s) ==
  /\ sess[s].status = "active"
  /\ sess' = [sess EXCEPT ![s].status = "detached"]
  /\ UNCHANGED <<log, paused, asked, sub, batch, settlement, exec, nextHandoff, coordinator>>

(* deleteSession, suspendClaudeSession *)
Close(s) ==
  /\ sess[s].status \in {"active", "detached"}
  /\ sess' = [sess EXCEPT ![s].status = "closed"]
  /\ UNCHANGED <<log, paused, asked, sub, batch, settlement, exec, nextHandoff, coordinator>>

(* pruneClosedSessions: the row and, by cascade, its subscriptions and batches *)
PruneClosedSession(s) ==
  /\ sess[s].status = "closed"
  /\ \A t \in Target : InFlight(batch[s][t]) => Stalled(batch[s][t])
  /\ sess' = [sess EXCEPT ![s] = NoSession]
  /\ sub' = [sub EXCEPT ![s] = [p \in PR |-> NoSub]]
  /\ batch' = [batch EXCEPT ![s] = [t \in Target |-> NoBatch]]
  /\ UNCHANGED <<log, paused, asked, settlement, exec, nextHandoff, coordinator>>

(* setSessionPaused *)
SetSessionPaused(s, pause) ==
  /\ Exists(s)
  /\ paused' = [paused EXCEPT ![s] = pause] /\ asked' = [asked EXCEPT ![s] = pause]
  /\ UNCHANGED <<log, sess, sub, batch, settlement, exec, nextHandoff, coordinator>>

(* pruneClosedSessions also drops a pause whose session did not come back *)
PrunePause(s) ==
  /\ paused[s] /\ ~Exists(s)
  /\ paused' = [paused EXCEPT ![s] = FALSE] /\ asked' = [asked EXCEPT ![s] = Exists(s) /\ @]
  /\ UNCHANGED <<log, sess, sub, batch, settlement, exec, nextHandoff, coordinator>>

-----------------------------------------------------------------------------
(* Time, crash and restart                                                   *)

Older(a) == IF a > Stale THEN a ELSE a + 1

Tick ==
  /\ batch' = [s \in Session |-> [t \in Target |->
                 IF InFlight(batch[s][t]) THEN [batch[s][t] EXCEPT !.age = Older(@)]
                 ELSE batch[s][t]]]
  /\ exec' = [h \in Handoff |->
                IF exec[h].state = "open" THEN [exec[h] EXCEPT !.age = Older(@)] ELSE exec[h]]
  /\ UNCHANGED <<log, sess, paused, asked, sub, settlement, nextHandoff, coordinator>>

Crash ==
  /\ coordinator' = "down"
  /\ UNCHANGED <<log, sess, paused, asked, sub, batch, settlement, exec, nextHandoff>>

(* recoverFromRestart: what was handed off is uncertain and will be retried;   *)
(* OpenCode and Pi sessions (X) wait for their owner to come back              *)
RecoverFromRestart(X) ==
  /\ coordinator = "down"
  /\ coordinator' = "recovered"
  /\ batch' = [s \in Session |-> [t \in Target |->
                 IF InFlight(batch[s][t]) THEN Released(batch[s][t]) ELSE batch[s][t]]]
  /\ sess' = [s \in Session |->
                IF s \in X /\ sess[s].status = "active"
                THEN [sess[s] EXCEPT !.status = "detached"] ELSE sess[s]]
  /\ UNCHANGED <<log, paused, asked, sub, settlement, exec, nextHandoff>>

-----------------------------------------------------------------------------
Init ==
  /\ log = << >>
  /\ sess = [s \in Session |-> NoSession]
  /\ paused = [s \in Session |-> FALSE]
  /\ sub = [s \in Session |-> [p \in PR |-> NoSub]]
  /\ batch = [s \in Session |-> [t \in Target |-> NoBatch]]
  /\ settlement = [h \in Handoff |-> NoSettlement]
  /\ exec = [h \in Handoff |-> NoExec]
  /\ nextHandoff = 1
  /\ coordinator = "down"
  /\ asked = [s \in Session |-> FALSE]

(* What hosts call *)
HostNext ==
  \E s \in Session :
    \/ ClaimReminderBundle(s)
    \/ \E h \in Handoff, o \in {"confirmed", "failed"} : AckReminderBundle(s, h, o)
    \/ \E lease \in {ClaimLease, Stale} : ClaimReminder(s, lease)
    \/ \E t \in Target, h \in Handoff, o \in {"confirmed", "failed"} :
         SettleReminderClaim(s, t, h, o)
    \/ ConfirmClaudeHandoff(s)
    \/ GetPendingReminder(s)
    \/ \E t \in Target, o \in {"handed_off", "confirmed", "failed"} : AckReminder(s, t, o)

SessionNext ==
  \E s \in Session :
    \/ RegisterSession(s)
    \/ \E q \in PR \cup {NoPR}, changed, pause \in BOOLEAN :
         EnsureSessionControl(s, q, changed, pause)
    \/ Revive(s)
    \/ Detach(s)
    \/ Close(s)
    \/ PruneClosedSession(s)
    \/ \E pause \in BOOLEAN : SetSessionPaused(s, pause)
    \/ PrunePause(s)

SubscriptionNext ==
  \/ \E s \in Session, p \in PR : \/ Subscribe(s, p)
                                  \/ Unsubscribe(s, p)
                                  \/ PruneSubscription(s, p)
                                  \/ RejectPullRequest(s, p)
  \/ \E s \in Session, D, B \in SUBSET PR : ActivateWorktree(s, D, B)
  \/ \E p \in PR, F, S, W \in SUBSET Session, n \in {0, 1} : DiscoverPullRequest(p, F, S, W, n)

DaemonNext ==
  \/ \E p \in PR, n \in 0..MaxPerPoll, changed \in BOOLEAN, B \in SUBSET Session :
       Poll(p, n, changed, B)
  \/ \E X \in SUBSET Session : SuspendAutomaticSubscriptions(X)
  \/ \E D, B \in [Session -> SUBSET PR] : ResetInferredSubscriptionPolicies(D, B)
  \/ \E X \in SUBSET Session : RecoverFromRestart(X)
  \/ ExpireStaleHandoffs
  \/ Tick
  \/ Crash

Next == HostNext \/ SessionNext \/ SubscriptionNext \/ DaemonNext

Spec == Init /\ [][Next]_vars

-----------------------------------------------------------------------------
(* Properties                                                                *)

Sub == [state: {"none", "active", "unsubscribed"}, source: {"manual", "automatic"}, cursor: Nat]
Sess == [status: {"none", "active", "detached", "closed"}, pr: PR \cup {NoPR}, cursor: Nat]

(* Every table holds rows of its type. *)
TypeOK ==
  /\ log \in Seq(PR)
  /\ sess \in [Session -> Sess]
  /\ paused \in [Session -> BOOLEAN]
  /\ sub \in [Session -> [PR -> Sub]]
  /\ batch \in [Session -> [Target -> Batch]]
  /\ settlement \in [Handoff -> [state: {"none", "confirmed", "failed"},
                                 session: Session \cup {"none"}, count: Nat]]
  /\ exec \in [Handoff -> [state: {"none", "open", "settled"}, age: Ages]]
  /\ nextHandoff \in Nat \ {0}
  /\ coordinator \in {"down", "recovered", "suspended", "serving"}

(* A subscription's batch holds exactly the events of its pull request from   *)
(* the delivery cursor up to the batch's max_event_seq: nothing is skipped    *)
(* when it is confirmed and nothing is delivered twice.  Rebuilds, retries,   *)
(* re-subscriptions and re-baselining all have to keep it so.                 *)
BatchIsPendingPrefix ==
  \A s \in Session, p \in PR :
    LET b == batch[s][p]
    IN  b.state # "none" =>
          /\ sub[s][p].state # "none" /\ b.upto \in b.evs
          /\ b.evs = {i \in After(log, p, sub[s][p].cursor) : i <= b.upto}

(* The claims of one session exclude each other: whatever hooks, plugins and  *)
(* daemon instances serve it, everything in flight under a handoff id is in   *)
(* flight under the same one.                                                 *)
OneHandoffInFlight ==
  \A s \in Session : \A t, u \in Target :
    /\ InFlight(batch[s][t]) /\ batch[s][t].handoff # NoHandoff
    /\ InFlight(batch[s][u]) /\ batch[s][u].handoff # NoHandoff
    => batch[s][t].handoff = batch[s][u].handoff

(* Until it is overdue, a bundle in flight is complete: its acknowledgement   *)
(* is not refused as "Incomplete reminder handoff", although subscriptions    *)
(* are dropped, rejected, re-attached and rebuilt while it is out.            *)
BundleWhole ==
  \A s \in BundleHosts \ (LeaseHosts \cup PollHosts) : \A t \in Target :
    LET b == batch[s][t]
    IN  InFlight(b) /\ b.handoff # NoHandoff /\ exec[b.handoff].age <= Stale
        => b.size = Cardinality(Records(s, b.handoff))

(* A settled handoff id is never in flight again. *)
SettledHandoffIdle ==
  \A s \in Session, h \in Handoff : settlement[h].state # "none" => Records(s, h) = {}

(* docs/protocol.md: "A repeated confirmation returns the original result."   *)
(* Whatever happens from the acknowledgement that settles a handoff on,        *)
(* repeating it gets the answer the first one got.                             *)
AckIsRepeatable ==
  [][\A s \in Session, h \in Handoff, o \in {"confirmed", "failed"} :
       (settlement[h].state = o /\ settlement[h].session = s)' =>
         AckReply(s, h, o)' = AckReply(s, h, o)]_vars

(* A session that was asked to pause is handed nothing, not even what was built, *)
(* fetched or claimed before, until it is asked to go on: the pause survives     *)
(* registering, reviving, reaping, closing and pruning the session and restarts  *)
(* of the daemon.  Only a pause whose session is gone is pruned.                 *)
PausedGetsNothing ==
  [][\A s \in Session : asked[s] =>
       \A t \in Target : ~InFlight(batch[s][t]) => ~InFlight(batch'[s][t])]_vars

(* Nothing of a subscription is handed over while it is dropped.  The v1        *)
(* acknowledgement does not look at the subscription, so whatever drops one has *)
(* to take its queued batch along, and whatever a late answer, the sweep or a   *)
(* restart makes of a batch that was out must not be built again.               *)
DroppedGetsNothing ==
  [][\A s \in Session, p \in PR :
       sub[s][p].state # "active" /\ ~InFlight(batch[s][p]) => ~InFlight(batch'[s][p])]_vars

(* The store implements the delivery queues of ReminderDelivery.             *)
Queue(s, p) == [followed |-> sub[s][p].state # "none", cursor |-> sub[s][p].cursor,
                offered  |-> IF InFlight(batch[s][p]) THEN batch[s][p].evs ELSE {}]

Delivery == INSTANCE ReminderDelivery WITH
              published <- log,
              queue <- [s \in Session |-> [p \in PR |-> Queue(s, p)]]

(* Every step of the store is a delivery step: a cursor moves only to the end *)
(* of what was handed over and confirmed, whatever claim, retry, restart or   *)
(* re-subscription happened around it.                                        *)
ImplementsDelivery == Delivery!DeliverySpec
=============================================================================
