----------------------------- MODULE PrWatcher -----------------------------
(***************************************************************************)
(* The watchers of pull requests (src/src/daemon/watchers/pr-watcher*.ts): *)
(* one state machine for each pull request, kept in memory and as a row of *)
(* the store, the tick that polls the ones that are due, and the answers   *)
(* of GitHub, the rate limit among them.                                   *)
(* A pull request is the number of its version, and a change of version    *)
(* stands for the events that diffSnapshot finds in it.  A deadline is none,*)
(* in the future or past; it passes in a step of its own.  Reminders are   *)
(* built from the events in ReminderStore, policies are left out.          *)
(***************************************************************************)
EXTENDS Integers, FiniteSets

CONSTANTS
  Daemon,      \* processes that may poll; more than one while a lease moves
  Session, Pr,
  None,
  MaxVersion,  \* bound: the last version of a pull request
  MaxFailures, \* bound: where the count of failures stops
  MaxFaults    \* bound: kills, failures, throttled answers, switching off

ASSUME NoneAssumption == None \notin Daemon \cup Pr /\ None \notin Nat
ASSUME SessionAssumption == IsFiniteSet(Session)
ASSUME BoundAssumption == {MaxVersion, MaxFailures, MaxFaults} \subseteq Nat /\ MaxFailures > 0

VARIABLES
  subs,      \* the pull requests each session is subscribed to
  row,       \* pr_watchers
  snapshot, etag, events,  \* what is stored of each pull request
  disabled,  \* the global switch
  up,        \* the processes that run
  actor,     \* the machines of each process
  tick,      \* where the tick of each process is
  remote,    \* the pull requests as GitHub has them
  limited,   \* when GitHub's throttling ends
  faults,
  base,      \* history: the version each pull request was first stored in
  late,      \* history: the versions a first poll stored over another's first poll
  alone      \* history: no two processes have run at once

stored == <<row, snapshot, etag, events, base, late>>
process == <<up, alone, actor, tick>>
vars == <<subs, stored, disabled, process, remote, limited, faults>>

-----------------------------------------------------------------------------
(* The machine                                                               *)

NoActor == [state |-> "none"]

Stopped == [state |-> "stopped", count |-> 0, idle |-> "none", next |-> "none", failures |-> 0]

SubscribersChanged(w, n, deadline) ==
  LET active == [w EXCEPT !.count = n, !.idle = "none"]
  IN  CASE w.state = "terminal" -> w
        [] w.state \in {"stopped", "idle_grace"} ->
             IF n > 0 THEN [active EXCEPT !.state = "warming_up"] ELSE [w EXCEPT !.count = n]
        [] OTHER ->
             IF n > 0 THEN active
             ELSE [w EXCEPT !.count = n, !.state = "idle_grace", !.idle = deadline, !.next = "none"]

(* Mutant: a throttled watcher is not looked at *)
MutTimeElapsed(w) ==
  CASE w.state = "idle_grace" /\ w.idle = "past" ->
         [w EXCEPT !.state = "stopped", !.idle = "none", !.next = "none"]
    [] w.state = "backing_off" /\ w.next = "past" -> [w EXCEPT !.state = "polling"]
    [] OTHER -> w

TimeElapsed(w) ==
  CASE w.state = "idle_grace" /\ w.idle = "past" ->
         [w EXCEPT !.state = "stopped", !.idle = "none", !.next = "none"]
    [] w.state \in {"backing_off", "rate_limited"} /\ w.next = "past" -> [w EXCEPT !.state = "polling"]
    [] OTHER -> w

WarmedUp(w) == IF w.state = "warming_up" THEN [w EXCEPT !.state = "polling"] ELSE w

PollSucceeded(w, deadline) ==
  IF w.state = "polling" THEN [w EXCEPT !.next = deadline, !.failures = 0] ELSE w

PollFailed(w, deadline) ==
  IF w.state = "polling"
  THEN [w EXCEPT !.state = "backing_off", !.next = deadline,
                 !.failures = IF @ < MaxFailures THEN @ + 1 ELSE @]
  ELSE w

RateLimited(w, deadline) ==
  IF w.state \in {"warming_up", "polling", "backing_off"}
  THEN [w EXCEPT !.state = "rate_limited", !.next = deadline] ELSE w

Terminal(w) == [w EXCEPT !.state = "terminal", !.idle = "none", !.next = "none", !.failures = 0]

(* Mutant: the failure that is played again is counted twice *)
MutRestored(r, n) ==
  LET w == SubscribersChanged([r EXCEPT !.state = "stopped", !.count = n], IF n > 0 THEN n ELSE 1, r.idle)
  IN  CASE r.state = "stopped"      -> [r EXCEPT !.count = n]
        [] r.state = "terminal"     -> Terminal([r EXCEPT !.count = n])
        [] r.state = "warming_up"   -> w
        [] r.state = "polling"      -> WarmedUp(w)
        [] r.state = "idle_grace"   -> SubscribersChanged(WarmedUp(w), 0, r.idle)
        [] r.state = "backing_off"  -> PollFailed(WarmedUp(w), r.next)
        [] r.state = "rate_limited" -> RateLimited(WarmedUp(w), r.next)

(* createPrWatcherActor: the machine is driven to the state of the row *)
Restored(r, n) ==
  LET fresh == [r EXCEPT !.state = "stopped", !.count = n,
                         !.failures = IF r.state = "backing_off" /\ @ > 0 THEN @ - 1 ELSE @]
      w == SubscribersChanged(fresh, IF n > 0 THEN n ELSE 1, r.idle)
  IN  CASE r.state = "stopped"      -> fresh
        [] r.state = "terminal"     -> Terminal(fresh)
        [] r.state = "warming_up"   -> w
        [] r.state = "polling"      -> WarmedUp(w)
        [] r.state = "idle_grace"   -> SubscribersChanged(WarmedUp(w), 0, r.idle)
        [] r.state = "backing_off"  -> PollFailed(WarmedUp(w), r.next)
        [] r.state = "rate_limited" -> RateLimited(WarmedUp(w), r.next)

-----------------------------------------------------------------------------
(* The registry                                                              *)

Count(p) == Cardinality({s \in Session : p \in subs[s]})

Watched == {p \in Pr : row[p] # NoActor}

(* reconcile, of one watcher: the state it is left in.  Every change is persisted. *)
Reconciled(d, p) ==
  LET w == IF actor[d][p] = NoActor THEN Restored(row[p], Count(p)) ELSE actor[d][p]
      v == IF w.state # "terminal" /\ (w.count # Count(p) \/ (w.state = "stopped" /\ Count(p) > 0))
           THEN SubscribersChanged(w, Count(p), "future") ELSE w
  IN  WarmedUp(TimeElapsed(v))

(* persistPrWatcherLifecycle; the count is computed whenever the row is read *)
Row(w) == [w EXCEPT !.count = 0]

(* A machine that did not change leaves its row alone, whoever wrote it *)
Persisted(d, p, w) ==
  LET before == IF actor[d][p] = NoActor THEN Restored(row[p], Count(p)) ELSE actor[d][p]
  IN  IF w = before THEN row[p] ELSE Row(w)

Due(w) == w.state = "polling" /\ w.next # "future"

Idle == [phase |-> "idle", todo |-> {}, pr |-> None, prev |-> None, tag |-> None,
         answer |-> [kind |-> "none"]]

NextTarget(d) ==
  [Idle EXCEPT !.todo = tick[d].todo, !.phase = IF tick[d].todo = {} THEN "idle" ELSE "fetch"]

Fault == faults < MaxFaults /\ faults' = faults + 1

-----------------------------------------------------------------------------
(* The tick                                                                  *)

(* The scheduler's timer, the switch, pollingTargets *)
TickStart(d) ==
  LET after == [p \in Pr |-> IF p \in Watched THEN Reconciled(d, p) ELSE NoActor]
      targets == {p \in Watched : Due(after[p])}
  IN  /\ d \in up /\ tick[d].phase = "idle" /\ ~disabled
      /\ actor' = [actor EXCEPT ![d] = after]
      /\ row' = [p \in Pr |-> IF p \in Watched THEN Persisted(d, p, after[p]) ELSE row[p]]
      /\ tick' = [tick EXCEPT ![d] = [Idle EXCEPT !.todo = targets,
                                                  !.phase = IF targets = {} THEN "idle" ELSE "fetch"]]
      /\ UNCHANGED <<subs, snapshot, etag, events, base, late, disabled, up, alone, remote, limited, faults>>

(* A row cannot be written: its machine is dropped, and the others are not looked at *)
ReconcileBreaks(d) ==
  \E p \in Watched, done \in SUBSET Watched :
    /\ p \notin done
    /\ Persisted(d, p, Reconciled(d, p)) # row[p]
    /\ actor' = [actor EXCEPT ![d] = [q \in Pr |-> IF q = p THEN NoActor
                                                  ELSE IF q \in done THEN Reconciled(d, q) ELSE @[q]]]
    /\ row' = [q \in Pr |-> IF q \in done THEN Persisted(d, q, Reconciled(d, q)) ELSE row[q]]

(* The tick ends with it *)
ReconcileFails(d) ==
  /\ d \in up /\ tick[d].phase = "idle" /\ ~disabled
  /\ Fault
  /\ ReconcileBreaks(d)
  /\ UNCHANGED <<subs, snapshot, etag, events, base, late, disabled, up, alone, tick, remote, limited>>

(* The stored snapshot and its ETag are read, and the request is sent *)
Fetch(d) ==
  /\ d \in up /\ tick[d].phase = "fetch"
  /\ \E p \in tick[d].todo :
       tick' = [tick EXCEPT ![d] = [@ EXCEPT !.phase = "fetching", !.pr = p,
                                            !.todo = tick[d].todo \ {p},
                                            !.prev = snapshot[p], !.tag = etag[p]]]
  /\ UNCHANGED <<subs, stored, disabled, up, alone, actor, remote, limited, faults>>

Answered(d, answer) ==
  tick' = [tick EXCEPT ![d] = [@ EXCEPT !.phase = "answered", !.answer = answer]]

Respond(d) ==
  LET p == tick[d].pr IN
  /\ d \in up /\ tick[d].phase = "fetching"
  /\ IF tick[d].tag = remote[p].version
     THEN Answered(d, [kind |-> "not_modified"])
     ELSE \E tag \in {remote[p].version, None} :
            Answered(d, [kind |-> "ok", version |-> remote[p].version, closed |-> remote[p].closed,
                         etag |-> tag])
  /\ UNCHANGED <<subs, stored, disabled, up, alone, actor, remote, limited, faults>>

(* An error, a timeout, or a pull request that cannot be seen *)
FetchFails(d) ==
  /\ d \in up /\ tick[d].phase = "fetching"
  /\ Fault
  /\ \E kind \in {"failed", "not_found"} : Answered(d, [kind |-> kind])
  /\ UNCHANGED <<subs, stored, disabled, up, alone, actor, remote, limited>>

(* Every machine is reconciled and persisted, and then limited and persisted: all of *)
(* them, or those before one whose row cannot be written                            *)
Limit(d, done, lost) ==
  LET before(q) == IF q \in Watched THEN Reconciled(d, q) ELSE NoActor
      after(q)  == RateLimited(before(q), "future")
      limits    == {q \in Watched : after(q).state = "rate_limited"}
  IN  /\ done \subseteq limits /\ lost \subseteq limits \ done
      /\ lost = {} => done = limits
      /\ actor' = [actor EXCEPT ![d] = [q \in Pr |-> CASE q \in lost -> NoActor
                                                     [] q \in done -> after(q)
                                                     [] OTHER     -> before(q)]]
      /\ row' = [q \in Pr |-> IF q \in done THEN Row(after(q))
                             ELSE IF q \in Watched THEN Persisted(d, q, before(q)) ELSE row[q]]

(* The headers of an answer say that the bucket is nearly empty: rateLimit.  What it *)
(* throws is caught by the tracker.                                                 *)
Throttle(d) ==
  /\ d \in up /\ tick[d].phase = "fetching"
  /\ Fault
  /\ limited' = "future"
  /\ \/ \E done, lost \in SUBSET Watched : Cardinality(lost) <= 1 /\ Limit(d, done, lost)
     \/ ReconcileBreaks(d)
  /\ UNCHANGED <<subs, snapshot, etag, events, base, late, disabled, up, alone, tick, remote>>

Abort(d) == tick' = [tick EXCEPT ![d] = Idle]
Continue(d) == tick' = [tick EXCEPT ![d] = NextTarget(d)]

(* The machine takes an event and its row is written; without a machine the error *)
(* leaves the tick, recordPollFailure having thrown as well.                      *)
Record(d, p, w) ==
  IF actor[d][p] = NoActor
  THEN Abort(d) /\ UNCHANGED <<row, actor>>
  ELSE /\ actor' = [actor EXCEPT ![d][p] = w]
       /\ row' = [row EXCEPT ![p] = Row(w)]
       /\ Continue(d)

Succeed(d, p) == \E deadline \in {"past", "future"} : Record(d, p, PollSucceeded(actor[d][p], deadline))
Fail(d, p) == Record(d, p, PollFailed(actor[d][p], "future"))

(* The row cannot be written: persistActor drops the machine, and the error leaves the tick *)
Drop(d, p) ==
  /\ actor' = [actor EXCEPT ![d][p] = NoActor]
  /\ Abort(d)

(* A write before the outcome is recorded fails, or the row's own *)
Breaks(d, p) == Fault /\ (Fail(d, p) \/ (Drop(d, p) /\ UNCHANGED row))

(* Everything is written, and a batch of reminders cannot be built *)
BatchFails(d, p) ==
  /\ Fault
  /\ \E deadline \in {"past", "future"} :
       LET w == PollSucceeded(actor[d][p], deadline) IN
       \/ Record(d, p, PollFailed(w, "future"))
       \/ actor[d][p] # NoActor /\ Drop(d, p) /\ row' = [row EXCEPT ![p] = Row(w)]

(* The answer is applied, without another await *)
Applying(d, kind) == d \in up /\ tick[d].phase = "answered" /\ tick[d].answer.kind = kind

Unchanged(d) ==
  /\ Applying(d, "not_modified") \/ Applying(d, "not_found")
  /\ \/ Succeed(d, tick[d].pr) /\ UNCHANGED faults
     \/ Breaks(d, tick[d].pr)
  /\ UNCHANGED <<subs, snapshot, etag, events, base, late, disabled, up, alone, remote, limited>>

Failed(d) ==
  /\ Applying(d, "failed")
  /\ \/ Fail(d, tick[d].pr) /\ UNCHANGED faults
     \/ Fault /\ Drop(d, tick[d].pr) /\ UNCHANGED row
  /\ UNCHANGED <<subs, snapshot, etag, events, base, late, disabled, up, alone, remote, limited>>

(* saveSnapshotAndEvents.  Without a previous snapshot nothing is said of the changes *)
(* since the one another process stored meanwhile.                                    *)
SaveSnapshot(d, p) ==
  LET prev == tick[d].prev  version == tick[d].answer.version
  IN  /\ snapshot' = [snapshot EXCEPT ![p] = version]
      /\ events' = [events EXCEPT ![p] = @ \cup (IF prev = None THEN {} ELSE (prev + 1)..version)]
      /\ base' = [base EXCEPT ![p] = IF @ = None THEN version ELSE @]
      /\ late' = [late EXCEPT ![p] = @ \cup IF prev = None /\ snapshot[p] # None
                                           THEN (snapshot[p] + 1)..version ELSE {}]

SaveEtag(d, p) == etag' = [etag EXCEPT ![p] = tick[d].answer.etag]

(* Mutant: the ETag first *)
MutSave(d, p) ==
  /\ Applying(d, "ok") /\ ~tick[d].answer.closed /\ tick[d].pr = p
  /\ \/ SaveSnapshot(d, p) /\ SaveEtag(d, p) /\ Succeed(d, p) /\ UNCHANGED faults
     \/ Fault /\ Fail(d, p) /\ SaveEtag(d, p) /\ UNCHANGED <<snapshot, events, base, late>>
  /\ UNCHANGED <<subs, disabled, up, alone, remote, limited>>

(* The snapshot with its events, the ETag and the watcher are three writes, and *)
(* each may fail, as may the batches of reminders after them                   *)
Save(d, p) ==
  /\ Applying(d, "ok") /\ ~tick[d].answer.closed /\ tick[d].pr = p
  /\ \/ SaveSnapshot(d, p) /\ SaveEtag(d, p) /\ Succeed(d, p) /\ UNCHANGED faults
     \/ SaveSnapshot(d, p) /\ SaveEtag(d, p) /\ BatchFails(d, p)
     \/ SaveSnapshot(d, p) /\ SaveEtag(d, p) /\ Fault /\ Drop(d, p) /\ UNCHANGED row
     \/ SaveSnapshot(d, p) /\ Breaks(d, p) /\ UNCHANGED etag
     \/ Breaks(d, p) /\ UNCHANGED <<snapshot, etag, events, base, late>>
  /\ UNCHANGED <<subs, disabled, up, alone, remote, limited>>

(* saveTerminalSnapshotAndEvents is one transaction.  When a batch cannot be built the *)
(* terminal row is written once more.                                                  *)
SaveTerminal(d, p) ==
  /\ Applying(d, "ok") /\ tick[d].answer.closed /\ tick[d].pr = p
  /\ \/ /\ SaveSnapshot(d, p) /\ SaveEtag(d, p)
        /\ row' = [row EXCEPT ![p] = Terminal(@)]
        /\ \/ actor[d][p] = NoActor /\ Abort(d) /\ UNCHANGED <<actor, faults>>
           \/ /\ actor[d][p] # NoActor
              /\ \/ Continue(d) /\ actor' = [actor EXCEPT ![d][p] = Terminal(@)] /\ UNCHANGED faults
                 \/ Fault /\ Drop(d, p)
     \/ Breaks(d, p) /\ UNCHANGED <<snapshot, etag, events, base, late>>
  /\ UNCHANGED <<subs, disabled, up, alone, remote, limited>>

(* The process dies, in the middle of an answer too *)
Crash(d) ==
  /\ d \in up
  /\ Fault
  /\ up' = up \ {d}
  /\ actor' = [actor EXCEPT ![d] = [p \in Pr |-> NoActor]]
  /\ Abort(d)
  /\ LET p == tick[d].pr IN
     \/ UNCHANGED <<snapshot, etag, events, base, late>>
     \/ Applying(d, "ok") /\ ~tick[d].answer.closed /\ SaveSnapshot(d, p) /\ UNCHANGED etag
     \/ Applying(d, "ok") /\ ~tick[d].answer.closed /\ SaveSnapshot(d, p) /\ SaveEtag(d, p)
  /\ UNCHANGED <<subs, row, disabled, alone, remote, limited>>

(* The registry's constructor: reconstruct *)
Boot(d) ==
  /\ d \notin up
  /\ up' = up \cup {d}
  /\ alone' = (alone /\ up = {})
  /\ actor' = [actor EXCEPT ![d] = [p \in Pr |-> IF p \in Watched THEN Restored(row[p], Count(p)) ELSE NoActor]]
  /\ UNCHANGED <<subs, stored, disabled, tick, remote, limited, faults>>

-----------------------------------------------------------------------------
(* Sessions, the user, GitHub and time                                       *)

(* touchPrWatcher *)
Subscribe(s, p) ==
  /\ up # {} /\ p \notin subs[s]
  /\ subs' = [subs EXCEPT ![s] = @ \cup {p}]
  /\ row' = [row EXCEPT ![p] = IF @ = NoActor THEN Stopped ELSE @]
  /\ UNCHANGED <<snapshot, etag, events, base, late, disabled, process, remote, limited, faults>>

Unsubscribe(s, p) ==
  /\ up # {} /\ p \in subs[s]
  /\ subs' = [subs EXCEPT ![s] = @ \ {p}]
  /\ UNCHANGED <<stored, disabled, process, remote, limited, faults>>

Switch ==
  /\ up # {}
  /\ disabled' = ~disabled
  /\ IF disabled THEN UNCHANGED faults ELSE Fault
  /\ UNCHANGED <<subs, stored, process, remote, limited>>

(* A change, a merge, a close or a reopening *)
Change(p) ==
  /\ remote[p].version < MaxVersion
  /\ \E closed \in BOOLEAN : remote' = [remote EXCEPT ![p] = [version |-> @.version + 1, closed |-> closed]]
  /\ UNCHANGED <<subs, stored, disabled, process, limited, faults>>

Passed(w, states) ==
  IF w = NoActor \/ w.state \notin states THEN w
  ELSE [w EXCEPT !.idle = IF @ = "future" THEN "past" ELSE @, !.next = IF @ = "future" THEN "past" ELSE @]

Pass(P, states) ==
  /\ row' = [p \in Pr |-> IF p \in P THEN Passed(row[p], states) ELSE row[p]]
  /\ actor' = [d \in Daemon |-> [p \in Pr |-> IF p \in P THEN Passed(actor[d][p], states) ELSE actor[d][p]]]

Elapse(p) ==
  /\ Pass({p}, {"idle_grace", "polling", "backing_off"})
  /\ UNCHANGED <<subs, snapshot, etag, events, base, late, disabled, up, alone, tick, remote, limited, faults>>

(* Throttled watchers wait for the same moment *)
Reset ==
  /\ limited = "future" /\ limited' = "none"
  /\ Pass(Pr, {"rate_limited"})
  /\ UNCHANGED <<subs, snapshot, etag, events, base, late, disabled, up, alone, tick, remote, faults>>

-----------------------------------------------------------------------------
Init ==
  /\ subs = [s \in Session |-> {}]
  /\ row = [p \in Pr |-> NoActor]
  /\ snapshot = [p \in Pr |-> None]
  /\ etag = [p \in Pr |-> None]
  /\ events = [p \in Pr |-> {}]
  /\ disabled = FALSE
  /\ up = {}
  /\ actor = [d \in Daemon |-> [p \in Pr |-> NoActor]]
  /\ tick = [d \in Daemon |-> Idle]
  /\ remote = [p \in Pr |-> [version |-> 0, closed |-> FALSE]]
  /\ limited = "none"
  /\ faults = 0
  /\ base = [p \in Pr |-> None]
  /\ late = [p \in Pr |-> {}]
  /\ alone = TRUE

Apply(d) == Unchanged(d) \/ Failed(d) \/ \E p \in Pr : Save(d, p) \/ SaveTerminal(d, p)

Next ==
  \/ \E d \in Daemon :
       TickStart(d) \/ ReconcileFails(d) \/ Fetch(d) \/ Respond(d) \/ FetchFails(d) \/ Throttle(d)
       \/ Apply(d) \/ Crash(d) \/ Boot(d)
  \/ \E s \in Session, p \in Pr : Subscribe(s, p) \/ Unsubscribe(s, p)
  \/ \E p \in Pr : Change(p) \/ Elapse(p)
  \/ Switch
  \/ Reset

Spec == Init /\ [][Next]_vars

(* The scheduler sets its timer again after every tick, requests have a timeout, *)
(* deadlines pass, and a daemon that died is started again                       *)
Fairness ==
  /\ \A d \in Daemon :
       /\ WF_vars(Boot(d)) /\ WF_vars(TickStart(d)) /\ WF_vars(Fetch(d))
       /\ WF_vars(Respond(d) \/ FetchFails(d)) /\ WF_vars(Apply(d))
  /\ \A p \in Pr : WF_vars(Elapse(p))
  /\ WF_vars(Reset)

FairSpec == Spec /\ Fairness

-----------------------------------------------------------------------------

Durable(w) == <<w.state, w.idle, w.next, w.failures>>

(* pr-watcher-registry.ts, "SQLite remains authoritative: actors are restored from *)
(* durable lifecycle rows": what a restart makes of a row is what the row says, and *)
(* while one process runs at a time, its machines are never ahead of their rows,    *)
(* whichever write failed.                                                          *)
RowsAreAuthoritative ==
  \A p \in Pr : row[p] # NoActor =>
    /\ Durable(Restored(row[p], Count(p))) = Durable(row[p])
    /\ alone => \A d \in Daemon : actor[d][p] # NoActor => Durable(actor[d][p]) = Durable(row[p])

(* "Not modified" is only asked of a version whose changes are stored: every change    *)
(* between the version first stored and the stored ETag or snapshot has left its event, *)
(* though the previous snapshot was read before the request and another daemon polls as *)
(* well.  The exception is a first poll that ends after another's: what changed between *)
(* the two has no event, and that takes two processes at once.                          *)
NothingSkipped ==
  \A p \in Pr :
    /\ \A v \in {snapshot[p], etag[p]} \ {None} :
         base[p] # None /\ ((base[p] + 1)..v) \ late[p] \subseteq events[p]
    /\ alone => late[p] = {}

Fetching(p) == \E d \in Daemon : tick[d].phase = "fetching" /\ tick[d].pr = p

(* docs/plans/issue-23-delivery-reliability-harness.md: "A watcher in `backing_off` or *)
(* `rate_limited` resumes polling": whatever failed, and however often the daemon was  *)
(* restarted, a pull request that stays subscribed is polled until it is terminal.     *)
WatchedIsPolled ==
  \A p \in Pr : []<>(Count(p) > 0 /\ ~disabled /\ row[p].state # "terminal" => Fetching(p))
=============================================================================
