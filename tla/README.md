# Verification of premind

premind watches the pull requests that coding-agent sessions work on and hands
each session, at the end of a turn, a reminder of what happened to them: review
comments, failing checks, merges. This directory holds TLA+ models of the parts
where that can go wrong, the runs that check them with TLC, and proofs that
tlapm checks.

The one promise everything else serves is in `README.md:70` and
`docs/protocol.md:53` of the repository: a reminder may be shown twice, it may
not be lost. It passes through a chain, and the models follow it: a branch's
pull request is found (`BranchDiscovery`, `WorktreeBinding`), it is polled
(`PrWatcher`), the difference between two snapshots becomes events
(`SnapshotDiff`), events become reminders that are claimed and confirmed
(`ReminderStore`), and a hook shows them (`ClaudeDelivery`). All of it is done by
daemons that replace each other (`DaemonElection`, `CoordinatorLease`,
`StorageBridge`) for clients that hold leases (`SessionLease`).

## The system

Paths are relative to `src/src/` unless they start with `plugin-`.

| Component | State it keeps | Operations | What is hard about it | What makes it correct |
|---|---|---|---|---|
| **Reminder store**, `daemon/persistence/store.ts` | tables `pr_events`, `sessions`, `session_pauses`, `session_subscriptions`, `reminder_batches`, `reminder_handoff_settlements`, `reminder_handoff_execution_claims`, leases, snapshots, bindings | build, claim, acknowledge, settle, expire, recover, subscribe, reject, prune, ... | transactions of many processes interleave; a handler of several transactions can die between any two; time-outs race late answers | a batch is the next piece of its queue; claims exclude each other; a settled handoff stays settled; a pause holds; a cursor moves only over what was confirmed |
| **Handoff registry and machine**, `daemon/reminders/` | one XState actor per batch, a cache of its row | get, acknowledge, claim | the cache and the row disagree after another process wrote | the row decides (the actor is rebuilt when they disagree) |
| **Claude Code hooks**, `plugin-claude/bin/lib.mjs` | the handoff file of a session | Stop, UserPromptSubmit, SessionEnd | each hook is a process with a 2 s deadline, killed anywhere; `stop_hook_active` is also set by other plugins' hooks | nothing is confirmed that was not shown; everything is shown in the end |
| **Session leases**, `store.ts:624-803`, `client/daemon-client.ts`, `ipc/router.ts`, `shared/protocol/legacy-v1-proxy.ts` | generation, owner, token, expiry; the token each client and the proxy keep | claim, validate, renew, transfer, release, detach, re-attach | requests of an old generation still under way; answers that are lost; a daemon that is replaced | a generation has one holder; superseded work does not take effect; a client is re-attached |
| **Daemon and coordinator leases**, `store.ts:353-560`, `daemon/index.ts` | instance leases, the coordinator's lease, the daemon lock | claim, renew, fence, demote, release | a daemon suspended anywhere; GitHub awaited between check and write | fenced work never overlaps; one daemon serves again |
| **Pull request watcher**, `daemon/watchers/pr-watcher*.ts` | an XState machine per pull request, kept as a row | tick, rate limit, failure, terminal, idle grace | snapshot read before an await and used after it; rows, snapshots and ETags written one after the other | events neither lost nor doubled; a watched open pull request keeps being polled |
| **GitHub client and diff**, `daemon/github/` | ETags, snapshots, events | fetch, diff | events have keys: a key that says too little drops news, one that says too much repeats it | each change is reported once; a failing check is never played down |
| **Branch discovery**, `daemon/watchers/branch-discovery.ts` | the association of each branch, an ETag, who is authenticated | ask, associate, tell, reject, defer | a tick of many awaits, during which sessions move; re-association waits for the old pull request's end | a session never leaves a pull request before its end is stored; the branch's pull request is followed |
| **Worktree bindings**, `daemon/worktrees/` | a machine per session, rows, opt-outs | activate, opt out, resolve, restore | Git is awaited between two lease checks; actors are pieced together from rows | one pull request followed by itself; an opt-out holds |
| **Poll scheduling**, `poll-scheduler`, `disable-gate` | interval, running flag | schedule, skip, disable | a slow tick and its timer | one tick at a time; polling resumes |
| **Daemon process and lifecycle**, `daemon/index.ts`, `daemon/lifecycle/` | lifecycle machine, timers | start, serve, grace, stop | the idle timer races a new client | no shutdown with a client attached |
| **IPC router and server**, `daemon/ipc/` | connections | every request | lease checked before, transaction after | a request is applied under the lease it was checked against |
| **Daemon startup and election**, `shared/daemon-startup.ts` | two lock files, sockets | acquire, reclaim, bind, hand over | a stale lock reclaimed while its owner comes back | a daemon serves again; its socket is its own; builds only rise |
| **Daemon client and launcher**, `client/` | connection, lease token | connect, retry, re-attach, launch | a request whose answer was lost is sent again | repeating is harmless |
| **Protocol migration**, `shared/protocol/` | marker on disk and in the database, the old database, its tombstone | reconcile, bridge, guard, proxy v1 | a crash between the two markers, or between two files | neither marker is lowered; one authority; nothing recorded is lost |
| **Codex host**, `codex/` | receipts on disk | claim, receipt, settle | a hook dies between receipt, output and settlement | as for Claude |
| **OpenCode and Pi hosts**, `plugin-opencode/`, `extension/` | an in-memory delivery loop | claim, send, acknowledge | idle events race deliveries | as for Claude |
| **Rendering, detail files**, `daemon/reminders/` | files | render | none that affects delivery | - |
| **Commands, configuration, status, logs** | files | - | none that affects delivery | - |

A poll (or branch discovery) appends events to `pr_events` and builds batches
for the subscribers. A host's hook or plugin asks the daemon, over a Unix
socket, for what its session is owed; the daemon hands rows of
`reminder_batches` over under a *handoff id*; the host shows them and
acknowledges the id; the store deletes the rows and moves the delivery cursors.
Whatever is not acknowledged goes stale and is offered again. Everything goes
through the database, so processes meet only there: `ReminderStore` therefore
has the tables as its variables and the transactions as its actions. The other
modules are cut where their state ends: each keeps the tables, files and process
memory its component alone writes, and leaves what another module models to that
module, as an action that may happen at any time.

## The modules

| Module | Models | Depends on |
|---|---|---|
| `ReminderStore` | the delivery state of the store, every transaction that changes it | - |
| `ReminderDelivery` | what the store promises: per session and pull request, a queue with a cursor | - |
| `ClaudeDelivery` | the Claude hooks against the store | `ReminderStore` |
| `SessionLease` | the lease of a session, its clients of either protocol, the daemon being replaced | - |
| `CoordinatorLease` | which daemon may write | - |
| `DaemonElection` | how one daemon comes to serve a state directory | - |
| `StorageBridge` | the compatibility marker and the move of the database | - |
| `PrWatcher` | the watchers, their rows, the poll tick and GitHub's answers | - |
| `SnapshotDiff` | what a change of a pull request is reported as | - |
| `WorktreeBinding` | which pull request a session follows by itself | - |
| `BranchDiscovery` | how discovery finds it; implements the discovery part of `WorktreeBinding` | `WorktreeBinding` |
| `MC...` | small instances for TLC | the above |
| `ReminderProofs` | proofs about the store: types and batches, handoffs and pauses, the refinement, bundles and acknowledgements; and about the hooks: no reminder is lost, none confirmed is shown again | `ReminderStore`, `ClaudeDelivery` |
| `CoordinatorLeaseProofs` | proofs: types, order of fenced work, authority of a daemon that runs | `CoordinatorLease` |
| `SessionLeaseProofs` | proofs: generations, order of work, detachment, the proxy | `SessionLease` |
| `BranchDiscoveryProofs` | proofs: one pull request is followed, opt-outs; discovery's types, the refinement, the prior pull request's end | `WorktreeBinding`, `BranchDiscovery` |
| `DaemonElectionProofs` | proofs: sockets, the order of builds | `DaemonElection` |
| `StorageBridgeProofs` | proofs: markers, the floor, one authority, reminders kept | `StorageBridge` |
| `PrWatcherProofs` | proofs: rows and machines, no change is skipped | `PrWatcher` |
| `SnapshotDiffProofs` | proofs: comments and failures are told, runs and comments are news, conflicts need evidence | `SnapshotDiff` |

### ReminderStore

| Variable | In the code |
|---|---|
| `log` | `pr_events`: `log[seq]` is the pull request of event `seq`; what an event says is left out |
| `sess` | `sessions`: `status`, `pr_number`, `last_delivered_event_seq` |
| `paused` | `session_pauses` |
| `sub` | `session_subscriptions`: state, source, delivery cursor |
| `batch` | `reminder_batches`. A session has at most one row per subscription and one with `subscription_id IS NULL` (the legacy slot): `createOrReplaceReminder` and the UNIQUE index see to it |
| `settlement` | `reminder_handoff_settlements` |
| `exec` | `reminder_handoff_execution_claims` |
| `nextHandoff` | `randomUUID()`: ids are numbers in the order they are drawn |
| `coordinator` | how far `daemon/index.ts` has got: down, recovered, automatic subscriptions suspended, serving |
| `asked` | a history: the sessions that were last asked to pause |

Each action is one transaction, or one synchronous handler, with every write it
makes (the sweep of stale handoffs at the start of a claim, the build of missing
batches, the execution claim, ...). The actions bear the names of the store's
methods. Three decisions deserve a word:

- **Handlers of several transactions.** `Poll`, `DiscoverPullRequest`,
  `ActivateWorktree` and `ResetInferredSubscriptionPolicies` save first and then
  build batches one session at a time. They take the set of sessions they reached
  as a parameter, so that every point where they can stop (the process dies, a
  build throws, another instance gets in between) is a step of the model, and
  the rest is done, as in the code, by later polls and claims.
- **Time.** Ages count ticks since `updated_at` and saturate one past `Stale`,
  where nothing compares them any more. The code's two boundaries are kept apart:
  `<=` for leased claims, `<` for bundles.
- **Order.** Rows are listed by `created_at`; the model leaves the order open
  where a single batch is selected, which covers every clock.

Whoever executes a claim is identified in the code by daemon instance and
session generation; the model draws nondeterministically whether a claim comes
from the owner of a running execution (`sameOwner`). Rendering, write policies
and ownership levels appear only as the flag *changed* where they force a
rebuild. Host requests are not gated on `coordinator`: another daemon instance
can serve them during a handover.

### ReminderDelivery

The abstract specification: `published` events, and per session and pull request
a queue that is followed or not, has a cursor and an offer. A step may follow
(starting anywhere), offer the events right after the cursor, withdraw the offer,
confirm it (the cursor moves exactly to its end) or forget the queue. Nothing
else moves a cursor and an offer never changes while it is out. `ReminderStore`
implements it under the mapping `Queue` (offered: the events of a handed-off
row), checked as property `ImplementsDelivery` and proved.

### ClaudeDelivery

One Stop hook per session runs at a time; its phases are the points between which
it can be killed: session touched, batch claimed, handoff stored in the file,
output written; on a continued turn: confirmed, entry forgotten. The daemon's
answer can miss the hook after the daemon did its part (`ClaimAnswerLost`).
`shown` is the history of events whose reminder reached the session. `others`,
chosen by the first state and kept, are the sessions whose turns other plugins'
Stop hooks continue as well: what they have installed is not the plugin's to say.
`NothingLost` is about the sessions outside it, in the same world; for the ones
inside it fails (`NothingLostWhoever`, run `claude_lost`), while what was
confirmed is still not shown twice to any of them.

### SessionLease

`lease` is the row of `session_daemon_leases` (owner, generation, nonce, token,
time left), `cached`, `known` and `attached` what a client keeps
(`sessionLeases`, `daemonInstanceId`, `attachedSessions`), `proxy` the row of
`legacy_proxy_session_leases`, `call` the requests under way and `late` those the
client gave up on while the daemon may still serve them. A request goes through
`Begin` (which re-attaches first where the client's table says so), `Send`,
`ServeClaim`/`LearnLease`, `ServeRequest` and `Answered` or `Failed`; an
activation is checked, awaits Git and is checked again (`ServeActivation`). A
daemon is replaced in one step, `Restart`, that detaches and clears leases as
`recoverFromRestart` does; the requests of clients that have not noticed go to
the new one. `ReapStaleSession` detaches an idle session without a look at its
lease, as the maintenance of the coordinator does. An old client's registration
may be refused by the router after the proxy has claimed
(`ProxyRegisterRefused`). Leases of different sessions share nothing, so one session is
modelled. `holder` and `lastGen` are histories.

### CoordinatorLease

`coordinator` and `instance` are the two lease tables, `lock` the owner in
`daemon.lock`, `phase` where each process is in `main()`, between the awaits of
its startup, `mine` the generation of its token. A process may be killed or
suspended between any two steps, which is how a poll that awaited GitHub comes
to write late. `Tick` lets time pass only when no timer that a running process
has set is due, so that a lease is lost for one of the reasons the code can meet
(suspension, GitHub hanging in the first discovery, death), not by a renewal that
is forgotten. The sweep at startup is three fenced
transactions, between which the lease may move. Writes under
`withCoordinatorLease` enter `fencedGen`, the others (polls, discovery, the reset
at startup) `writeGen`.

### DaemonElection

Both lock files are taken system call by system call: create exclusively, write
the owner, read it to judge, probe the process, read again, unlink. `st` is where
each launcher and daemon is, `acq` where it is in taking a lock. The launchers
of all hosts are one machine with two constants (`Build`, `Killing`); a package
from before `requestHandover` is a build that cannot be asked, asks nobody to go,
and counts as older than any that can (its release is unknown, which is rank 0:
`shared/daemon-startup.ts:691`). A probe or a
handshake is `Answered`, or `Unanswered`: nobody is there, or whoever is there is
too busy, which is a fault. A daemon whose handshake is not answered is of
`UNKNOWN_BUILD`, like one from before `requestHandover`, and the owner of the
daemon lock is sent SIGTERM (`Plan`, `Signal`). The guard's shutdown looks whether
the socket is still its own, closes the server and removes the path once more
(`CloseGuard`, `RemovePath` twice): only the first of these looks. The history
`rivals` has who was between them when the socket was last bound.

Other time-outs are a choice as well: `Ends(gone)` lets a wait end when what it
waits for is gone, and otherwise only as a fault. Faults are *minor*, those that
cost time only (a launcher dies that has no start lock, a launcher does not hear of
the daemon that serves, a lock is taken for old though its owner lives and has
written it), or *major*; there are `MaxFaults` of both together.

### StorageBridge

`marker` is the file copy of the compatibility marker, the row copy is inside
the database that is at `legacy` or `modern`; `archive` is where the old database
is moved before the tombstone takes its place. A start goes from `Boot` through
reconciling, mirroring, checking, publishing, archiving and quarantining to
serving; kills and failures may come between any two. The daemon from before the
bridge may start whenever the old path holds a database, between any two steps of
a bridge that was killed too. `acked` (what a daemon that served has recorded),
`late` (what the old one recorded when its database had been copied) and `floor`
are histories. The lifetime lock is taken for granted (that is `DaemonElection`).

### PrWatcher

`row` is `pr_watchers`, `actor` the machines in each process, `snapshot`, `etag`
and `events` what is stored of each pull request (a version stands for its
content), `tick` where a process's tick is: the list of what is due, the pull
request being fetched, the version the previous snapshot had when it was read.
`Apply` takes GitHub's answer through the writes of the tick, each of which may
fail, those of a 304 answer and of the rate limit too, as may the batches that are
built when all is written. `Elapse` lets a deadline pass, `Throttle` and `Reset`
are GitHub's rate limit. Three variables are histories: `base`, the version a pull
request was first stored in; `late`, the versions between two first polls that
overlapped, of which the second stores its own without an event; and `alone` (no
two processes have run at once).

### SnapshotDiff

`DiffSnapshot(prev, next)` is the diff, by topic: initialization, head and draft,
merge state, reviews, comments, check runs with shards, gates and reruns, and the
grouping of what remains; an event is its kind and its dedupe key, as what the
key holds. A poll reads the stored snapshot, awaits the answer, and saves;
GitHub's side (`Github`) changes one thing at a time, `MaxChanges` times. `told`
adds up, as a history, what a reader of the events believes.

An answer is cut as `graphql.ts` cuts it: the last `Window` issue comments, the
first `PerThread` comments of the last `Threads` review threads; and a check in
`Dropped` may be left out (only the first hundred contexts are asked for, and a
rollup leaves shards out). Runs of one name may be of several workflows; what is
reported of them goes by the newest. `WindowSuffices` says that no comment ever
had to leave an answer for newer ones. Where that is not so, two things are not
promised, because the keys of comments do not tell enough: that a comment which
comes back is new, and that an edit made meanwhile is reported. Nor is anything
promised of `Unsteady` checks: commit statuses, which have no id in GitHub's answer
and so no identity, and checks an answer left out, which are new when they are
back.

### WorktreeBinding and BranchDiscovery

`WorktreeBinding` has the machine (`Activated`, `PrFound`, `PrNotOwned`,
`PrNotFound`, `UnsubscribeAutomatic`), the registry's actors, the rows, and the
requests: register, subscribe, unsubscribe, activate (`resolved` holds what Git
answered to activations that have not gone on), close; `Discard` and `Reset` are
the loss of actors and the reset at startup. What discovery says is left open:
anything that is true of authors and branches, at any time.

`BranchDiscovery` extends it with the tick: targets listed first, then the login,
then a branch at a time GitHub's list, its ETag, the association in
`branch_watchers`, the deferral while the prior pull request's end is not stored
(`seen`), and the sessions told one by one. After GitHub's answer no request can
come in between, but the process may die, or a transaction fail, after any of
them: the association is stored before the sessions are attached, and a session
that is suspended, or told of a pull request that is not the user's, has its
subscriptions, its row and its machine changed one after the other (`Suspend`,
`TellForeign`, `Tell`, `Break`). `Control` is `ensureSessionControl`: a session that
comes back on another branch loses its automatic subscriptions, while binding and
actor stay. An ETag is what the list held when it was saved: GitHub answers "not
modified" when it holds the same. Every step is one of `WorktreeBinding` or
leaves its variables alone (property `BindingSpec`), which is why the invariants
of the bindings are checked there, over all that discovery might say.

## The runs

Each passing run explores several *slices* of one module at once: a variable of
the MC module, chosen by the first state and kept, says which, and cuts down what
the slice need not have. A slice only takes behaviours away, so what holds in it
is no more than what the bounds allow; the combinations it leaves out are the
ones said below not to meet in the code.

| Run | Slices | What it asks | Bounds |
|---|---|---|---|
| `store_all` | *hosts*: a session that hosts of all three kinds serve, from registration to pruning; *bundles*: bundles of two subscriptions; *attach*: automatic subscriptions through discovery, rejection, worktree changes, crashes and startup | batches are prefixes, claims exclude each other, settled ids stay settled, bundles whole, a session that was asked to pause and a subscription that was dropped are handed nothing, repeated acknowledgements agree, the store implements the queues | 1 session, 1 or 2 pull requests, 1 to 3 events, 1 or 2 ids |
| `claude_all` | chosen by `others`: nobody else, or other plugins, continue the session's turns | a cursor passes only what was shown and everything is shown in the end (without others); what was confirmed is not shown again (either way) | 2 pull requests, 3 events (2 with others), 3 ids |
| `lease_all` | *alone*: one client, an old client behind the proxy, everything that can happen; *competing*: two clients and time; *lasting*: a session whose lease is renewed, for liveness | a generation has one holder, work is done in its order, nobody ends another's session but the reaper of idle ones, the proxy is not locked out by its own lease, re-attachment | 3 tokens, 2 daemon instances |
| `coord_all` | - | fenced work is in generation order, only absence loses authority, a daemon serves again | 2 names of daemons, 3 faults, 6 generations, leases of 2 ticks |
| `elect_all` | *fair*: two builds, one fault, liveness; *builds*: three builds, one of them from before `requestHandover`, one minor fault and no major one; *faults*: one launcher, three faults | the socket is cut off in the window of the guard's shutdown only, builds are not downgraded short of a major fault, a daemon serves again | 2 names of daemons |
| `bridge_all` | - | markers are not lowered, versions below the floor are kept out, one authority, nothing recorded is lost but what the old daemon adds between copy and tombstone | 2 versions and the daemon from before, 2 reminders, 2 faults |
| `watch_all` | *shared*: one pull request, two sessions; *moving*: two processes that poll while the lease moves; *lasting*, *pair*: one and two pull requests for liveness | rows say what the machines of a process that was never accompanied do, no change is skipped but between two first polls that overlap, what is watched is polled | 2 versions, 2 failures, 1 or 2 faults |
| `diff_all` | *checks*: two shards and a gate; *dropped*: a shard and a gate of two workflows, and a shard that answers leave out; *status*: a commit status; *comments*: groups of issue and review comments; *window*: more of them than an answer holds; *core*: the rest | what was written is told, a failed run is told as failed, changes are new, conflicts have evidence | 3 to 6 changes |
| `discover_all` | *two*, *foreign*: the tick with two pull requests of the user, and one of somebody else, an ETag in every answer; *lasting*: one pull request, sessions that close and users that subscribe by hand; *branches*, *trees*, *others*: the bindings under anything discovery may say, over two branches, two worktrees, a foreign pull request | discovery implements the bindings' view of it, one pull request followed as bound, opt-outs hold, the prior pull request ends first, a pull request the branch's list comes to show is followed | 1 session, 2 pull requests, 1 activation waiting for Git, 1 fault |
| `claude_lost` | as `claude_all` | *violated*: with other Stop hooks a reminder can be lost | the same |
| `coord_writes` | - | *violated*: a poll's writes are in generation order | leases of 1 tick, 2 faults |
| `discover_etag` | *tagged*: an ETag in every answer | *violated*: the branch's pull request is followed again and again | as `discover_all`, no faults |

**Bounds.** `MaxEvents`, `MaxPerPoll`, `MaxHandoffs`, `MaxTokens`, `MaxGen`,
`MaxVersion`, `MaxChanges` and `MaxFaults` cut unbounded counters. `Limit = 1`
stands for `LIMIT 20` so that batches fill up and a second one is waiting behind
the first; *bundles* polls two events at once, so that more wait than fit.
`Stale = 1` and `ClaimLease = 1` make both boundaries and the age beyond them
reachable. A handoff needs an id, so two ids are enough for a claim whose
predecessor was settled or is stale; `claude_all` can do with as many ids as
events because an unsettled id is used again. Leases of one or two ticks make a
lease that is about to end, and one that was renewed in time, different states.
Two names of daemons are enough for more than two daemons one after the other: a
name is used again when no file and no lease remembers it. `MaxFaults` counts
kills, suspensions, failed writes and requests, corrupt files and time-outs that
come early; what happens after the last of them is explored to the end. `Window
= 2`, `Threads = 1` and `PerThread = 1` stand for the last 100 comments, the last
100 threads and the first 50 comments of each; only *window* has more of one of
them. `MaxEdit = 2`, two shards and one gate make groups of every size up to three.
None of the runs replaces the theorems, which have no bounds.

**What the slices leave out.** *moving* has no rate limit and no switch. In it
`RowsAreAuthoritative` says that rows are well formed, and nothing of machines once
`alone` is false: of two processes that poll at the same time, one has a machine
that is behind, until the lease it lost keeps it from ticking. The checks, comments
and the rest of a snapshot are compared without each other in `diffSnapshot`; they
meet when changes are merged into a group, and a group names one kind of thing.
Sessions close and users subscribe by hand in *lasting* and *others*, the others
have automatic subscriptions alone. The three instances of `elect_all` share the
code but not the question: a downgrade needs builds and no fault that counts, being
served again needs faults.

**Deadlock** is checked for the store and the hooks. The other systems may stop:
in their instances a counter, the faults or the generations can run out, or, as
in `DaemonElection` and `PrWatcher`, everybody may have left.

**Fairness.** Weak fairness of the steps a running process takes by itself: timers
that the scheduler sets again after every tick (`watchers/poll-scheduler.ts`),
requests with a time-out (`daemon/github/http.ts`), answers of GitHub or their
failure, intervals, a daemon that is launched again. Strong fairness is assumed in
two places only, and faults are never fair: each may stay away for ever.

- `claude_all`: the claim and the steps of a hook *in time*: a hook is not killed
  at the same place for ever. Now and then a continued turn ends before the user
  prompts again and before the handoff is stale, which the code does not
  ensure. If every continued turn took longer than
  `PREMIND_REMINDER_HANDOFF_STALE_MS` (five minutes) the same reminder would be
  shown for ever and what is behind it never.
- `coord_all`: time. It does not stop for launchers that try again and again.

In `discover_all` only the tick itself is fair. `NewPrIsFollowed` asks nothing of
users or of GitHub: once faults are over and the branch's list shows a pull
request the ETag does not stand for, the session comes to follow it, or it is not
wanted any more.

Fairness is stated for a slice only where nothing the slice forbids is fair: a
fair step that could never be taken would make every liveness property true.

## What the runs found

Three claims of the repository are kept as runs that TLC refutes.

- `claude_lost`: a reminder that was never shown can be confirmed
  (`plugin-claude/bin/lib.mjs:213`). A Stop hook dies after storing the handoff
  and before its output arrives; another plugin's Stop hook continues the turn;
  the next Stop event has `stop_hook_active` and confirms the stored handoff.
  `README.md:70` and `docs/protocol.md:53` promise the opposite.
- `coord_writes`: the schedulers check the coordinator lease and then await the
  whole tick (`daemon/index.ts:263`), and neither what a tick saves nor
  `resetInferredSubscriptionPolicies` at startup (`index.ts:175`) looks at it
  again. A daemon suspended in between writes after its successor, which
  `docs/plans/issue-40-protocol-migrations.md:326` rules out.
- `discover_etag`: an ETag says that an answer was saved, not that the sessions
  were told (`daemon/watchers/branch-discovery.ts:59`). A session that is
  activated again, which deactivates its automatic subscription, is skipped by
  every "not modified" until the branch's list changes at GitHub. What remains
  of the promise, that a pull request which the list comes to show is followed, is
  checked with ETags and a second pull request (`NewPrIsFollowedWhenFair` in
  `discover_all`).

### Divergences

Other places where the code does something else than a comment, a document or a
test says came up while the modules were written. They are part of the models,
and the properties are stated so that they do not hide them; they have no run of
their own. (Paths below `src/src/`; documents at the root of the repository.)

*Reminders.* When the last subscription of a session is gone, a claim falls back
to `sessions.pr_number`, which unsubscribing leaves set, and hands over events
of what was unsubscribed from (`daemon/persistence/store.ts:2587`;
`docs/plans/initial-implementation.md:1283`). A row swept to *failed* while its
subscription was dropped keeps its handoff id; if the rest of the bundle is
claimed again under it, the daemon restarts and the subscription comes back, the
next claim throws `HANDOFF_BUSY` until the old lease ends (`store.ts:2687`,
comment at 843). A pause survives its session, until the session is pruned: one
that comes back after that with the same id goes on (`store.ts:1803`).

*Leases.* The client's cache takes whichever of two claims' answers arrives last,
and nothing but a release or a new daemon removes it
(`client/daemon-client.ts:507`): after a transfer it may send an older token, and
get `SESSION_MOVED` for it, for ever, where `docs/protocol.md:43` says it claims
again. The first discovery is awaited before the interval exists that renews the
daemon's leases (`daemon/index.ts:307`): GitHub may take as long as they last,
and the daemon then demotes itself, and the one launched next as well.

*Starting.* `compatibility-v1.lock` names no owner and is never stale
(`shared/protocol/compatibility-marker-file.ts:28`): a daemon killed with it
makes every later start fail, where `docs/protocol.md:64` says the next launch
tries again; `Manual` in the model removes it by hand. A death between archiving
the old database and its tombstone (`storage-bridge.ts:132`) leaves every later
start `LEGACY_STORAGE_MISSING`. A modern database that exists is kept
(`storage-bridge.ts:105`): when an old daemon is started after a bridge that got
no further than this, what it records is archived by the bridge that ends the
move, and not copied (`late` in the model; decision 3 of
`docs/plans/issue-40-protocol-migrations.md` has it otherwise). A guard that shuts
down looks whether the socket is its own, waits for its server to close and then
removes the path without another look
(`shared/protocol/legacy-v1-guard-server.ts:71`): a daemon that has bound it in
between serves on a path that is gone, where the comment says it is left alone. A
daemon that is too busy to answer the handshake is taken for one of an unknown
build, and whoever has a known one sends SIGTERM to the owner of the lock, be it
newer (`shared/daemon-startup.ts:690`), where `docs/protocol.md:57` has a daemon
replaced only by a strictly newer build. A daemon accepts a handover
before it listens for one (`daemon/index.ts:411`) and goes on starting. A
launcher that waits for the daemon holding the daemon lock does so with the start
lock that this daemon needs for the bridge (`client/daemon-launcher.ts:168`). The
last read of a lock's owner and its unlink are two steps
(`shared/daemon-startup.ts:229`), so that a lock made in between is removed.

*Watching.* Of two daemons that poll a pull request for the first time at once, the
second stores its answer over the first one's without an event for what changed in
between (`watchers/pr-watcher.ts:61`). `terminal` has no way out
(`watchers/pr-watcher-machine.ts:183`): a reopened pull request is not polled. The
wait for a rate limit is cut to `maxIntervalMs` and holds back the watchers that
were active alone (`poll-scheduler.ts:53`).

*Differences.* Keys of conflicts, drafts, decisions and requests name the head
only: what comes a second time on one head is dropped (`github/diff.ts:220`). A
conflict that GitHub works out after the first poll is not reported (line 215);
any state followed by `CLEAN` is reported as a conflict cleared (229); a
cancelled shard counts into "N/N succeeded" (564); a commit status that fails
again on one head is not reported (593); two processes with one previous snapshot
may report a comment alone and in a group (631); a check that an answer left out is
reported anew when it is back; of more than 100 comments the
oldest is reported deleted when one is added (`graphql.ts:58`), and when it comes
back its key is known and what was edited meanwhile is dropped; the dismissal of
a review that was reported is not (301); the first event lists failures that have
a newer run (118).

*Following.* The ETag of a branch is stored before the sessions are told: what is
deferred then, or left by a process that dies, is not taken up again until the list
changes (`branch-discovery.ts:63`). An activation leaves the opt-outs of its branch
in the table, and an actor that is restored is then *unsubscribed* where one that
lived on waits (`worktrees/worktree-binding-registry.ts:303`). A host that goes idle
on another branch updates the session and not the binding discovery goes by
(`store.ts:1082`). Two activations that await Git are applied in the order of its
answers (`ipc/router.ts:508`). The wait for the prior pull request's end has no end
when nobody follows it any more (`branch-discovery.ts:95`); a tick tells sessions
that have moved since it listed them (129); `pr.discovered` is stored once, so a
session that begins to follow later never sees it (139).

## What is proved

The theorems hold for every set of sessions, clients, daemons, worktrees and
branches, every finite set of pull requests and every value of the limits and
time-outs the named `ASSUME`s of the modules allow (`ClaimLease <= Stale`, as the
defaults have it; `Limit`, `Stale`, the leases positive; distinct names). TLC
evaluates the assumptions in every run.

| Module | Theorem | Says |
|---|---|---|
| `ReminderProofs` | `TypeCorrect` | `Spec => []TypeOK` |
| | `BatchesArePrefixes` | a batch holds exactly the events between the cursor and its own end |
| | `ClaimsExclude` | what a session has in flight under a handoff id is in flight under one id |
| | `SettledIsFinal` | a settled id is never in flight again |
| | `PauseHolds` | no step hands anything to a session that was last asked to pause |
| | `DropsHold` | no step hands over a batch of a dropped subscription |
| | `DeliveryImplemented` | the store implements `ReminderDelivery` |
| | `BundlesStayWhole` | what a host that only claims bundles has in flight under an id is, until it is overdue, all of what it was handed |
| | `AcknowledgedAlike` | an acknowledgement of a settled id changes nothing |
| | `NothingIsLost` | in a session whose turns no other plugin continues, a cursor passes only what was shown |
| | `ConfirmedIsOver` | a hook about to write a reminder writes nothing that was confirmed |
| `CoordinatorLeaseProofs` | `TypeCorrect` | `Spec => []TypeOK` |
| | `FencedWorkIsOrdered` | fenced work is done in the order of the generations |
| | `RunningKeepsAuthority` | if a lease lasts longer than a renewal interval (`TTL > 1`), a daemon that runs and serves keeps it |
| `SessionLeaseProofs` | `GenerationHasOneHolder` | a generation is never claimed for a second holder |
| | `WorkIsOrdered` | no request takes effect under an earlier generation than one before |
| | `OwnersStayAttached` | an attached session is detached or closed only as its lease ends, or detached by the reaper of idle sessions |
| | `ProxyIsNotLockedOut` | while the proxy's lease is active the proxy has its token and the mapping is alive |
| `BranchDiscoveryProofs` | `OneIsFollowed` | a bound session follows at most one pull request by itself, and none unless its machine is *following* or *unsubscribed* |
| | `OptOutHolds` | what was opted out of is not followed by itself on that branch |
| | `DiscoveryTypeCorrect` | `DiscoverySpec => []DiscoveryTypeOK` |
| | `BindingImplemented` | discovery implements what the bindings leave open: `DiscoverySpec => BindingSpec` |
| | `PriorIsStored` | a branch is associated anew only after the end of the pull request before is stored |
| `PrWatcherProofs` | `NoChangeIsSkipped` | every version between the one first stored and the stored one has its events, but for what changed between two first polls that overlapped |
| | `RowsStayAuthoritative` | a row says what a restart must know, and the machines of a process never accompanied agree with it |
| `StorageBridgeProofs` | `BridgeInvariant` | where each process is and which files and databases there can be then |
| | `BelowTheFloorIsKeptOut` | a daemon below a minimum version both copies had does not serve |
| | `NeitherCopyIsLowered` | a copy of the marker is replaced only by one that admits no more |
| | `OneAuthorityServes` | a daemon that knows the bridge serves only with the tombstone in place and the old daemon gone |
| | `NoReminderIsLost` | what was recorded is in the database that is opened next, but for what an old daemon records between copy and tombstone |
| `DaemonElectionProofs` | `CutOffInTheWindowOnly` | a daemon that listens or serves is cut off only by one that was closing the path already when it was bound, and has lost its daemon lock |
| | `BuildsOnlyRise` | short of a major fault, no daemon is followed by one of an older build |
| `SnapshotDiffProofs` | `RecordedIsSettled` | with one poller, stored snapshot and pending answer lag behind GitHub, and what was recorded is settled in them |
| | `FoundIsNew` | with one poller, no event about a run of a steady check, a comment or an edit is taken for an older one |
| | `NewsTold` | with one poller, each comment of the snapshot was told as it is stored |
| | `FailuresTold` | with one poller, a check that no answer left out and whose newest run failed was last told as failed (a gate: or cancelled) |
| | `ConflictsHaveEvidence` | with one poller, events about conflicts come only as the known merge state changes |

**Batches.** `PrefixInv`, that is `TypeOK` and `BatchIsPendingPrefix` with the
fact that only legacy rows are ever canceled, is inductive. A row is
touched in two ways: it keeps its events while its cursor stays (`PrefixKept`
carries the invariant over, `ExtendedExtends` past a poll), or it is built
anew, and then `FirstOfPrefix` says that the first `Limit` events after a cursor
are all those up to the last of them. Confirmation removes the row and moves the
cursor; a cursor below a row left behind cannot arise because the one row of a
subscription is the one confirmed.

**Handoffs.** `OneHandoffInFlight` and `SettledHandoffIdle` are not inductive:
a fresh id must not be in a row already, a row left *failed* by the sweep keeps
an id which must not be another session's, and an id must not be settled while
its bundle is out. `HandoffInv` adds `HandoffsIssued` (every id in a row is below
`nextHandoff`), `UnissuedUnsettled` (an id not yet drawn is not settled) and
`HandoffsOwned` (an id is found in the rows of one session only). The
proof divides the steps not by action but by what they do to rows: `Kept(b, c)`
relates a row to one that is not newly in flight and has no new id, is
transitive, and holds of every operator the actions are built from. Only three
actions hand over (`BundleHandsOver`, `ReminderHandsOver`, `AckHandsOver`), and
the invariant is proved once for steps that keep and once for those three.
`PauseHolds` and `DropsHold` follow from the same division and one more invariant
each: a session that was asked to pause is paused (`PauseAsAsked`), so that nothing
but a request, or the pruning of a pause whose session is gone, changes either; and
a dropped subscription has no batch that waits (`NoneWaiting`), since whatever drops
it deletes its row unless that is in flight, and a row that was in flight becomes
*failed*, which only a claim for an active subscription builds again.

**Refinement.** The invariant is `PrefixInv` with `CursorsLogged` (no cursor is
beyond the log; a follower starts in what is published). A step is of one of
three kinds: it confirms rows of one session, which are in flight; it claims, and
leaves all subscriptions alone; or it keeps all rows in the sense of `Kept`, and
each subscription keeps its cursor, starts, or is forgotten (`SubStep`). For each
kind one lemma on a single queue shows a step of `ReminderDelivery`
(`ConfirmedQueue`, `OfferedQueue`, `KeptQueue`). Two facts carry the argument: a
batch ends at an event beyond the cursor, so confirming moves the cursor to
exactly the last event offered, and a row swept and claimed again in one
transaction keeps its events, so that the offer does not change while it is out.

**Bundles.** `BundleWhole` compares a row's `size`, written when the bundle was
handed out, with the rows that are in flight now. `WholeInv` says of the sessions
that only bundle hosts serve (`BundleOnly`) that a row in flight has no lease of its
own, that its id's execution is open and not younger than it, and that until the
execution is overdue the row's size is the number of rows under its id. The steps
are divided as before: those that carry rows over one by one (`Carries`), those
that leave a session nothing in flight (`Clears`), time, and the claim of a
bundle. A sweep takes overdue rows only, and by the invariant no row is overdue
before its execution is: that is what keeps it from taking part of a bundle.
`AckIsRepeatable` needs only that settled ids are not in flight.

**The coordinator.** `LeaseInv` is `TypeOK` with `GenerationsGiven`: no process
has a token, and no fenced work was done, of a generation that was not given out.
A fenced transaction compares its token with the row, so that its generation is
the row's, and a row is only ever replaced by one of no earlier generation
(`Later`). `RunningKeepsAuthority` adds `Tick`: time passes only when no running
process is due, so that a lease renewed to `TTL` is above zero when its owner
runs again, provided `TTL > 1`; that is the assumption of the theorem, and the
defaults satisfy it (30 s and 10 s).

**Session leases.** `GenerationsInv`: the current generation was drawn, its
holder is on record, later ones have none, and work was done in none later than
it. The steps are divided into those that leave the row or shorten it
(`Passive`), and those that take it under a token just drawn (`Taken`), because
no action that is a request, an answer or a loss does anything else. That the
proxy is not locked out needs more (`LockInv`): whatever token a client keeps,
sends or has on its way carries the nonce of a client, never of the proxy
(`TokensInv`), so that nobody but the proxy renews the proxy's lease, and
each renewal extends the mapping at least as far (`ProxyInv`).

**Bindings.** `BindingInv` has three parts: types, `Recollected` (what users
unsubscribed from is in the table of opt-outs) and `Sound(s)`, that relates the
binding's row, the actor and the subscriptions of a session. It is about both
sources of truth at once, since an actor may be lost in any state and pieced
together from the rows: a restored actor must be one that a living one could be. The
proof goes by what a step does to the subscriptions followed by themselves,
`AutoPrs(row)`: steps that leave or shrink it (`LessKeepsInv`) and the three
(activation, discovery and a user's own unsubscription) that run the machine. A
machine that is *unsubscribed* may still follow what it followed before, which is
why `Fits` says only that it is not the pull request that was opted out of.

**Discovery.** A tick works on a list it took at its start, and anything may
happen to sessions while it awaits the login. `TickOK` says what remains true of
the list: a target holds what its branch was associated with, unless the branch
had its turn. Then the steps of the tick are steps of `WorktreeBinding`, as what
is told is true of branch and author, and a branch's association changes only
from what is stored (`PriorIsStored`). The list of GitHub is not empty when it is
used, and has a newest pull request as it is finite (`FiniteHasLast`, from the
library's well-founded induction).

**The hooks.** `ClaudeInv` is the types of the hooks' state, the invariant of the
refinement's proof (`PrefixInv`, `CursorsLogged`) and, for every session,
`HookInv(s)`. A hook that has claimed and not yet written holds what it was
handed: whatever is in flight under its handoff is among its events, and none of
them is behind a cursor. For `s \notin others`, a continued turn has
an entry in its file, and what is in flight under that entry was shown; and a
cursor passes only what was shown. So confirming the file's entry, the one way a
hook moves a cursor, moves it over shown events. A row is never claimed again under
an old id, so that the facts about a held handoff only get weaker as the sweep
and other claims take rows from it: `QuietFor(s)` says what a step leaves alone,
and holds of every background step, of every other session's hook, and of the steps
that neither claim nor confirm. For such a session the fallback
`confirmClaudeHandoff` is never reached, as a continued turn has its entry; in the
others it only moves cursors of rows in flight. The theorem says nothing of the
sessions in `others`, and cannot: run `claude_lost` is the counterexample.

**The watchers.** `WatchInv` has the types of rows and machines with what belongs to
each state (`Sound`: deadlines, failure counts), `ActorsHaveRows` (a machine is in a
process that runs, and has a row) and `RowsOfTheOne` (and agrees with it in what is
`Durable`). It is about one process at a time because the code is: `alone` becomes
false, for good, when a process starts while another runs, and from then on the two
overwrite each other's rows. What a tick may do after it awaited GitHub depends on
its list, hence `Targets`. `NothingSkipped` is separate and asks no such thing:
`SkipInv` says of a stored snapshot, and of the version every tick of every process
has under way, that all versions since the one first stored have their events or are
in `late` (`Seen`); events are only ever added and never before the snapshot that
makes them old news, so that a late save, by whatever process, can lower the
snapshot but not make a hole. `Sole` says when `late` is empty: a process that was
alone all the time has the only tick, so that the snapshot is still missing when a
first poll stores its own. The number of sessions is finite (`SessionAssumption`),
as followers are counted.

**The bridge.** `BridgeInv` has the types, `OneStarts` (the lifetime lock), what
socket and old daemon imply of each other and of the database, that the tombstone
comes after the copy, `RowHasFloor` and, for each daemon, `Stage(p)`: what is
true of files, databases, locks and markers when it has come so far. The floor
(the largest minimum that both copies ever had) is in the row copy from then on,
as no step lowers the row and a move takes it along; a daemon compares its version
with the merged marker, which is no lower than the row (`MergeRaises`). For
`ReminderKept` the invariant adds `Recorded`, which follows each reminder: into the
copy when it was recorded before, and past the move when a daemon that knows the
bridge recorded it. What is in `late` was recorded after the copy by the old daemon
(`LateIsAfter`); without that exception the promise is false (see *Starting* above,
under *Divergences*).

**Elections.** `SocketNotCutOff` rests on `Window`: a daemon that is about to remove
a path which another has bound looked when it was its own, so that it was closing
when the other bound it (`rivals`); and the other listens only if it owned the
daemon lock after it had bound, so that the one that closes does not, and cannot get
it any more. This holds under any number of faults of either kind; without the
second look at the lock (`Listen`) it would not. For `NeverDowngraded` the invariant
`Calm` is true as long as `faults.major = 0`, and is what one would draw on a board:
the start lock is the one launcher's that is past it, and never old (`StartHeld`);
at most one daemon lives (`OneLives`); one that is about to serve is the child of
the launcher that holds the lock, owns the daemon lock, or takes it from a dead
owner in one attempt, and is not older than what served last (`DaemonCalm`); a
launcher that asks has a newer build than the one it asks, and one that drains or
spawns is not older than what served (`LauncherCalm`); and what served is alive, or
is being replaced (`Succeeded`). Builds are compared by release and then by time,
which is not an order when a time is missing; `NewerOrder` states the two facts
about it that are true and enough. They hold because a package from before
`requestHandover`, whose release is unknown, is never the newer one
(`BuildAssumption`). Minor faults are harmless because nobody acts on them without
the start lock. With one major fault the statement is false: a launcher that gives
up on a build that drains slowly, or dies, lets go of the lock, and a daemon too
busy for the handshake is replaced by whatever build asks.

**The diff.** `diffSnapshot` is a function of two snapshots, but whether what it
finds is news, and is not dropped by `INSERT OR IGNORE` under a key that was
recorded polls ago, depends on the whole history. `DiffInv` is that history in two
parts. `Views`: whoever holds a snapshot (the store, a poll that has read it, an
answer on its way) is behind GitHub, in the sense of `Ahead`: of one head, each
run of the earlier one is in the later one, in the same state or a later stage
(`Follows`: queued, in progress, ended); under a later head all ids are greater;
edits only count up; and a comment is missing from the later one only if it was
deleted, as long as `WindowSuffices`. `GithubStep` derives from GitHub's side what
this needs (`CommentsMove`, `RunsMove`), `StaysBehind` and `AnswerIsAhead` carry it
over. `Recorded`: what an event was about is settled. A run that was reported is
in the snapshot, no earlier than its kind says, or its head is left (`RunKept`);
a comment that was reported was told in some form and nobody will show an
earlier one (`AtLeast`), and one reported deleted is gone for good (`Gone`).
Grouping does not matter to it, since a group has the members of its events and
no others (`GroupedFrom`, `GroupedTo`), so that the theorems hold for groups of
any size. `FoundIsNew` follows: an event found again would be about a run whose
stage the snapshot has already passed, or an edit it already holds. For
`FailuresTold`, `RepresentativeIsNewest` says that the newest run exists (by the
library's well-founded induction, since ids are bounded), and a failed one is
never `Quiet`.

The hypothesis `OnePoller` is what the code sees to in one process:
`PrWatcherRegistry` keeps one actor for a pull request
(`watchers/pr-watcher-registry.ts:36`) and the scheduler does not start a tick while
one is under way. Two daemons may poll at once after one was suspended (run
`coord_writes`). Then a poll may save an answer older than the snapshot, and none of
the four holds. The exceptions in the properties themselves are the code's:
`WindowSuffices`, and `Unsteady` checks (*Differences* above).

**Only model-checked.** The liveness properties: fairness and `ENABLED` are beyond
the prover, so that `EventuallyShown`, `ReattachedWhileLasting`, `ServedAgain`,
`ServedAgainWhenFair`, `WatchedIsPolledWhenFair` and `NewPrIsFollowedWhenFair` are TLC's
alone. Every other property of a passing run is a theorem.

## What is not modelled

- *The delivery loops of OpenCode and Pi, the receipts of Codex and MCP server.* The store
  lets any host make any claim and any acknowledgement at any time, which covers
  what they ask of it; whether they show what they acknowledge is only asked of
  the Claude hooks.
- *The grace timer of an idle shutdown.* A daemon that serves may stop at any
  moment in the models, which covers the timer at any time but does not tell
  whether a client could be attached.
- *Schema migrations, the wire formats and their translation, connections.*
- *Rendering, detail files, commands, configuration, status, logging.* They
  change nothing that delivery depends on.
- *Sessions paused through `status = 'paused'`*, from before `session_pauses`,
  and null claims, which add nothing to the sweep.

## The plan

Done: `ReminderStore`, `ReminderDelivery` and the refinement, `ClaudeDelivery`;
`SessionLease`, `CoordinatorLease`, `DaemonElection`, `StorageBridge`;
`PrWatcher`, `SnapshotDiff`; `WorktreeBinding`, `BranchDiscovery` and the
refinement; theorems for every safety property the passing runs check. What
would come next, most important first:

1. `AdapterDelivery`, the loops of OpenCode and Pi against the store, composed as
   `ClaudeDelivery` is; `CodexDelivery`, with the receipts on disk.
2. `DaemonLifecycle`: the grace timer against new clients.
3. A composition of `SessionLease` and `ReminderStore`: claims under the lease
   they were checked against.
