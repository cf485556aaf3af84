---------------------------- MODULE SnapshotDiff ----------------------------
(***************************************************************************)
(* What a watcher reports of a pull request: diffSnapshot (src/src/daemon/ *)
(* github/diff.ts) applied to the stored snapshot and to GitHub's answer,  *)
(* poll after poll, and the dedupe keys under which the store keeps its    *)
(* events.                                                                 *)
(* An event is its kind and its dedupe key: the head it names, if any, and *)
(* the things it is about.  Wording, priorities and links are left out.    *)
(* Check runs of one name have different ids, as in every answer of        *)
(* graphql.ts; only commit statuses, which have none, share theirs.  They  *)
(* may be of different workflows.                                          *)
(***************************************************************************)
EXTENDS Integers, FiniteSets

CONSTANTS
  Poller, None,
  Merge,         \* merge states a change may lead to
  Decision, Login, Review,
  MaxComment, MaxEdit,  \* bounds: comments ever made, edits of each
  Thread,        \* the review thread of each comment, 0 for an issue comment
  Window, Threads, PerThread,  \* how many issue comments, threads and comments of a thread an answer holds
  Name,          \* of checks
  Workflow, Job, \* the workflows a check's runs are of, and its name without the shard
  Gate,          \* checks named like an aggregate gate
  Status,        \* checks that are commit statuses
  Dropped,       \* checks that an answer may leave out
  Result,        \* what check runs end with
  Changing,      \* what changes besides: subset of {"head", "draft", "end"}
  MaxChanges     \* bound: changes of the pull request

ASSUME WindowAssumption == {MaxComment, MaxEdit, Window, Threads, PerThread, MaxChanges} \subseteq Nat
ASSUME ThreadAssumption == Thread \in [1 .. MaxChanges -> Nat]
ASSUME CheckAssumption == /\ Gate \cup Status \cup Dropped \subseteq Name
                          /\ Name \subseteq DOMAIN Workflow /\ Name \subseteq DOMAIN Job
ASSUME ResultAssumption ==
  Result \subseteq {"SUCCESS", "FAILURE", "ERROR", "TIMED_OUT", "STARTUP_FAILURE", "CANCELLED", "SKIPPED",
                   "NEUTRAL", "ACTION_REQUIRED", "STALE"}

(* The states of checks on GitHub and, from "pass" on, in a snapshot *)
CheckState ==
  {"QUEUED", "IN_PROGRESS"} \cup Result
  \cup {"pass", "fail", "cancelled", "skipping", "neutral", "action_required", "stale", "in_progress", "pending"}

Workflows == UNION {Workflow[n] : n \in Name}

(* What is known of a pull request; comments are their last edit *)
PullRequest ==
  [state : {"OPEN", "MERGED", "CLOSED"}, draft : BOOLEAN, head : Nat, merge : Merge \cup {"UNKNOWN"},
   stable : Merge \cup {None}, decision : Decision \cup {None}, requests : SUBSET Login,
   reviews : UNION {[R -> {"APPROVED", "DISMISSED"}] : R \in SUBSET Review},
   comments : UNION {[C -> Nat] : C \in SUBSET (1 .. MaxChanges)},
   checks : SUBSET [name : Name, workflow : Workflows, id : Nat, state : CheckState]]

ASSUME NoneAssumption == None \notin PullRequest

VARIABLES
  remote,    \* the pull request as GitHub has it
  changes,   \* how often it has changed, which names new comments and runs
  snapshot,  \* pr_snapshots
  recorded,  \* pr_events
  poll,      \* what each poller has read and been answered
  told,      \* history: what the events so far add up to
  deleted    \* comments deleted on GitHub

vars == <<remote, changes, snapshot, recorded, poll, told, deleted>>

-----------------------------------------------------------------------------
(* Events                                                                    *)

Thing(name, id, at) == [name |-> name, id |-> id, at |-> at]

Event(kind, head, thing) == [kind |-> kind, head |-> head, of |-> {[thing |-> thing, head |-> head]}]

Plain(kind, head) == Event(kind, head, Thing(None, None, None))

On(condition, events) == IF condition THEN events ELSE {}

(* stableMergeStateStatus *)
StableMergeState(s) == IF s = "UNKNOWN" THEN None ELSE s

(* mapCheckRunState and mapStatusContextState *)
MapState(s) ==
  CASE s = "SUCCESS"                          -> "pass"
    [] s \in {"FAILURE", "ERROR", "TIMED_OUT", "STARTUP_FAILURE"} -> "fail"
    [] s = "CANCELLED"                        -> "cancelled"
    [] s = "SKIPPED"                          -> "skipping"
    [] s = "NEUTRAL"                          -> "neutral"
    [] s = "ACTION_REQUIRED"                  -> "action_required"
    [] s = "STALE"                            -> "stale"
    [] s = "IN_PROGRESS"                      -> "in_progress"
    [] OTHER                                  -> "pending"

ToCheck(c) == [c EXCEPT !.state = MapState(@)]

(* checkKind, for the states of graphql.ts *)
CheckKind(s) ==
  CASE s = "pass"        -> "check.succeeded"
    [] s = "fail"        -> "check.failed"
    [] s = "cancelled"   -> "check.cancelled"
    [] s = "pending"     -> "check.queued"
    [] s = "in_progress" -> "check.in_progress"
    [] OTHER             -> "check.created"

(* The first snapshot: one event, which names the blockers that are there, and the merge *)
Initialized(next) ==
  {[kind |-> "pr.snapshot.initialized", head |-> next.head,
    of |-> {[thing |-> Thing(c.name, None, None), head |-> next.head] :
              c \in {x \in next.checks : CheckKind(x.state) = "check.failed"}}
           \cup On(next.merge = "DIRTY", {[thing |-> Thing(None, "conflict", None), head |-> next.head]})]}
  \cup On(next.state = "MERGED", {Plain("pr.merged", None)})

LifecycleEvents(prev, next) ==
  On(prev.state # "MERGED" /\ next.state = "MERGED", {Plain("pr.merged", None)})
  \cup On(prev.state = "OPEN" /\ next.state = "CLOSED", {Plain("pr.closed", None)})
  \cup On(prev.draft /\ ~next.draft, {Plain("pr.ready_for_review", next.head)})
  \cup On(~prev.draft /\ next.draft, {Plain("pr.converted_to_draft", next.head)})
  \cup On(prev.head # next.head, {Plain("pr.synchronized", next.head)})

(* Mutant: the last known merge state is forgotten *)
MutMergeEvents(prev, next) ==
  On(prev.merge # next.merge /\ next.merge = "DIRTY", {Plain("merge_conflict.detected", next.head)})
  \cup On(prev.merge # next.merge /\ next.merge = "CLEAN", {Plain("merge_conflict.cleared", next.head)})

MergeEvents(prev, next) ==
  LET now == StableMergeState(next.merge)
      changed == prev.stable # None /\ now # None /\ prev.stable # now
  IN  On(changed /\ now = "DIRTY", {Plain("merge_conflict.detected", next.head)})
      \cup On(changed /\ now = "CLEAN", {Plain("merge_conflict.cleared", next.head)})

DecisionEvents(prev, next) ==
  On(prev.decision # next.decision /\ next.decision # None,
     {Event("pr.review_decision", next.head, Thing(next.decision, None, None))})

ReviewerEvents(prev, next) ==
  {Event("reviewer.requested", next.head, Thing(l, None, None)) : l \in next.requests \ prev.requests}
  \cup {Event("reviewer.removed", next.head, Thing(l, None, None)) : l \in prev.requests \ next.requests}

(* A review that was there before is not looked at again *)
ReviewEvents(prev, next) ==
  {Event("review", None, Thing(next.reviews[r], r, None)) : r \in DOMAIN next.reviews \ DOMAIN prev.reviews}

Created == {"issue_comment.created", "review_comment.created"}
Edited == {"issue_comment.edited", "review_comment.edited"}
Deleted == {"issue_comment.deleted", "review_comment.deleted"}

OfKind(c, issue, review) == IF Thread[c] = 0 THEN issue ELSE review

(* Mutant: an edit is known by its comment alone *)
MutCommentEvents(prev, next) ==
  LET new == DOMAIN next.comments  old == DOMAIN prev.comments IN
  {Event(OfKind(c, "issue_comment.created", "review_comment.created"), None, Thing(None, c, None)) : c \in new \ old}
  \cup {Event(OfKind(c, "issue_comment.edited", "review_comment.edited"), None, Thing(None, c, None)) :
          c \in {d \in new \cap old : prev.comments[d] # next.comments[d]}}
  \cup {Event(OfKind(c, "issue_comment.deleted", "review_comment.deleted"), next.head, Thing(None, c, None)) :
          c \in old \ new}

CommentEvents(prev, next) ==
  LET new == DOMAIN next.comments  old == DOMAIN prev.comments IN
  {Event(OfKind(c, "issue_comment.created", "review_comment.created"), None, Thing(None, c, None)) : c \in new \ old}
  \cup {Event(OfKind(c, "issue_comment.edited", "review_comment.edited"), None, Thing(None, c, next.comments[c])) :
          c \in {d \in new \cap old : prev.comments[d] # next.comments[d]}}
  \cup {Event(OfKind(c, "issue_comment.deleted", "review_comment.deleted"), next.head, Thing(None, c, None)) :
          c \in old \ new}

-----------------------------------------------------------------------------
(* Checks                                                                    *)

Named(checks, n) == {c \in checks : c.name = n}

(* representativeCheck: the newest run *)
Representative(checks, n) == CHOOSE c \in Named(checks, n) : \A o \in Named(checks, n) : o.id <= c.id

Names(checks) == {c.name : c \in checks}

Terminal == {"check.succeeded", "check.failed", "check.cancelled"}

(* The shards of a job, each by its newest run *)
MatrixGroup(checks, n) ==
  {m \in Names(checks) : /\ Job[m] = Job[n]
                         /\ Representative(checks, m).workflow = Representative(checks, n).workflow}

GroupKinds(checks, n) == {CheckKind(Representative(checks, m).state) : m \in MatrixGroup(checks, n)}

Shard(checks, n) == Cardinality(MatrixGroup(checks, n)) > 1

(* A shard's success waits for its siblings, its start is not news *)
Quiet(checks, n) ==
  LET kind == CheckKind(Representative(checks, n).state) IN
  /\ Shard(checks, n)
  /\ \/ kind \in {"check.in_progress", "check.queued", "check.created"}
     \/ /\ kind = "check.succeeded"
        /\ ~(GroupKinds(checks, n) \subseteq Terminal \ {"check.failed"})

(* A gate that fails where something was cancelled *)
CancelledGate(checks, n) ==
  LET workflow == Representative(checks, n).workflow IN
  /\ ~Shard(checks, n) /\ n \in Gate /\ workflow # None
  /\ \E c \in checks : c.state = "cancelled" /\ c.workflow = workflow

(* Mutant: whatever fails beside a cancelled check counts as cancelled *)
MutReportedKind(checks, n) ==
  LET r == Representative(checks, n)  kind == CheckKind(r.state) IN
  IF kind = "check.failed" /\ \E c \in checks : c.state = "cancelled" /\ c.workflow = r.workflow
  THEN "check.cancelled" ELSE kind

ReportedKind(checks, n) ==
  LET kind == CheckKind(Representative(checks, n).state) IN
  IF kind = "check.failed" /\ CancelledGate(checks, n) THEN "check.cancelled" ELSE kind

Same(prev, next, n) ==
  /\ n \in Names(prev)
  /\ LET p == Representative(prev, n)  c == Representative(next, n)
     IN  p.state = c.state /\ (n \in Status \/ p.id = c.id)

CheckEvents(prev, next) ==
  {Event(ReportedKind(next.checks, n), next.head, Thing(n, Representative(next.checks, n).id, None)) :
     n \in {m \in Names(next.checks) : ~Same(prev.checks, next.checks, m) /\ ~Quiet(next.checks, m)}}

-----------------------------------------------------------------------------
(* diffSnapshot                                                              *)

CheckKinds == {"check.created", "check.queued", "check.in_progress", "check.succeeded", "check.failed",
               "check.cancelled"}

CommentKinds == Created \cup Edited \cup Deleted

GroupedKinds == CheckKinds \cup CommentKinds

(* Mutant: a group is known by its size *)
MutGrouped(events, head) ==
  LET of(k) == {e \in events : e.kind = k}
      kinds == {k \in GroupedKinds : Cardinality(of(k)) > 1}
  IN  {e \in events : e.kind \notin kinds}
      \cup {[kind |-> k, head |-> head,
             of |-> {[thing |-> Thing(None, Cardinality(of(k)), None), head |-> None]}] : k \in kinds}

(* Several events of one kind become one, which is known by its members *)
Grouped(events, head) ==
  LET of(k) == {e \in events : e.kind = k}
      kinds == {k \in GroupedKinds : Cardinality(of(k)) > 1}
  IN  {e \in events : e.kind \notin kinds}
      \cup {[kind |-> k, head |-> head, of |-> UNION {e.of : e \in of(k)}] : k \in kinds}

DiffSnapshot(prev, next) ==
  IF prev = None THEN Initialized(next)
  ELSE Grouped(LifecycleEvents(prev, next) \cup MergeEvents(prev, next) \cup DecisionEvents(prev, next)
               \cup ReviewerEvents(prev, next) \cup ReviewEvents(prev, next) \cup CommentEvents(prev, next)
               \cup CheckEvents(prev, next), next.head)

-----------------------------------------------------------------------------
(* A poll                                                                    *)

NoPoll == [phase |-> "idle", prev |-> None, answer |-> None]

(* Until the pull request has ended *)
Read(d) ==
  /\ poll[d].phase = "idle"
  /\ snapshot # None => snapshot.state = "OPEN"
  /\ poll' = [poll EXCEPT ![d] = [NoPoll EXCEPT !.phase = "asking", !.prev = snapshot]]
  /\ UNCHANGED <<remote, changes, snapshot, recorded, told, deleted>>

InThread(comments, t) == {c \in comments : Thread[c] = t}

ThreadsOf(comments) == {Thread[c] : c \in comments} \ {0}

(* The last issue comments, and the first comments of the last threads *)
Visible(comments) ==
  LET D == DOMAIN comments IN
  {c \in InThread(D, 0) : Cardinality({e \in InThread(D, 0) : e > c}) < Window}
  \cup {c \in D \ InThread(D, 0) :
          /\ Cardinality({t \in ThreadsOf(D) : t > Thread[c]}) < Threads
          /\ Cardinality({e \in InThread(D, Thread[c]) : e < c}) < PerThread}

(* The merge state may not be known just now; the rollup may lack checks, as diff.ts says, or *)
(* hold too many for the answer                                                               *)
Answer(d) ==
  /\ poll[d].phase = "asking"
  /\ \E merge \in {remote.merge, "UNKNOWN"}, lacking \in SUBSET Dropped :
       LET prev == poll[d].prev
           stable == IF merge # "UNKNOWN" THEN merge ELSE IF prev = None THEN None ELSE prev.stable
       IN  poll' = [poll EXCEPT ![d] =
             [phase |-> "answered", prev |-> prev,
              answer |-> [remote EXCEPT !.merge = merge, !.stable = stable,
                                        !.checks = {ToCheck(c) : c \in {x \in @ : x.name \notin lacking}},
                                        !.comments = [c \in Visible(remote.comments) |-> remote.comments[c]]]]]
  /\ UNCHANGED <<remote, changes, snapshot, recorded, told, deleted>>

Things(e) == {m.thing : m \in e.of}

(* What a reader knows who was told the new events, and at first the snapshot *)
Told(new, next) ==
  LET kinds == {e.kind : e \in new}
      first == "pr.snapshot.initialized" \in kinds
      about(n) == {e \in new : /\ e.kind \in CheckKinds \cup {"pr.snapshot.initialized"}
                               /\ \E t \in Things(e) : t.name = n}
      known == IF "pr.synchronized" \in kinds THEN [n \in Name |-> None] ELSE told.checks
  IN  [checks |-> [n \in Name |->
                     IF about(n) = {} THEN IF first /\ n \in Names(next.checks)
                                           THEN CheckKind(Representative(next.checks, n).state) ELSE known[n]
                     ELSE IF first THEN "check.failed"
                     ELSE (CHOOSE e \in about(n) : TRUE).kind],
       comments |-> told.comments
                    \cup {<<c, next.comments[c]>> :
                             c \in IF first THEN DOMAIN next.comments
                                   ELSE {t.id : t \in UNION {Things(e) : e \in
                                           {x \in new : x.kind \in Created \cup Edited}}}
                                        \cap DOMAIN next.comments}]

(* The first event's key does not tell what it names *)
Key(e) == IF e.kind = "pr.snapshot.initialized" THEN [kind |-> e.kind, head |-> e.head, of |-> {}] ELSE e

Known(e) == Key(e) \in {Key(r) : r \in recorded}

(* saveSnapshotAndEvents: INSERT OR IGNORE under the dedupe key *)
Save(d) ==
  LET next == poll[d].answer
      new == {e \in DiffSnapshot(poll[d].prev, next) : ~Known(e)}
  IN  /\ poll[d].phase = "answered"
      /\ snapshot' = next
      /\ recorded' = recorded \cup new
      /\ told' = Told(new, next)
      /\ poll' = [poll EXCEPT ![d] = NoPoll]
      /\ UNCHANGED <<remote, changes, deleted>>

-----------------------------------------------------------------------------
(* GitHub                                                                    *)

Changed(r) == changes < MaxChanges /\ changes' = changes + 1 /\ remote' = r

Restate(c, s) == [remote EXCEPT !.checks = (@ \ {c}) \cup {[c EXCEPT !.state = s]}]

Run(n, w) == [name |-> n, workflow |-> w, id |-> IF n \in Status THEN 0 ELSE changes + 1, state |-> "QUEUED"]

ChangeCore ==
  \/ \E m \in Merge \ {remote.merge} : Changed([remote EXCEPT !.merge = m])
  \/ \E m \in Merge : "head" \in Changing /\ Changed([remote EXCEPT !.head = @ + 1, !.checks = {}, !.merge = m])
  \/ "draft" \in Changing /\ Changed([remote EXCEPT !.draft = ~@])
  \/ \E s \in {"MERGED", "CLOSED"} : "end" \in Changing /\ Changed([remote EXCEPT !.state = s])
  \/ \E x \in Decision \ {remote.decision} : Changed([remote EXCEPT !.decision = x])
  \/ \E l \in Login : \/ l \in remote.requests /\ Changed([remote EXCEPT !.requests = @ \ {l}])
                      \/ l \notin remote.requests /\ Changed([remote EXCEPT !.requests = @ \cup {l}])
  \/ \E r \in Review, s \in {"APPROVED", "DISMISSED"} :
       /\ (r \notin DOMAIN remote.reviews) <=> (s = "APPROVED")
       /\ Changed([remote EXCEPT !.reviews = [q \in DOMAIN @ \cup {r} |-> IF q = r THEN s ELSE @[q]]])

ChangeComments ==
  \/ /\ Cardinality(DOMAIN remote.comments) + Cardinality(deleted) < MaxComment
     /\ Changed([remote EXCEPT !.comments = [c \in DOMAIN @ \cup {changes + 1} |->
                                               IF c \in DOMAIN @ THEN @[c] ELSE 0]])
     /\ UNCHANGED deleted
  \/ \E c \in DOMAIN remote.comments :
       \/ /\ remote.comments[c] < MaxEdit
          /\ Changed([remote EXCEPT !.comments[c] = @ + 1])
          /\ UNCHANGED deleted
       \/ /\ Changed([remote EXCEPT !.comments = [e \in DOMAIN @ \ {c} |-> @[e]]])
          /\ deleted' = deleted \cup {c}

ChangeChecks ==
  \/ \E n \in Name : \E w \in Workflow[n] :
       /\ \A c \in Named(remote.checks, n) : n \in Status => c.state # "QUEUED"
       /\ Changed([remote EXCEPT !.checks = (@ \ {c \in @ : c.name = n /\ n \in Status}) \cup {Run(n, w)}])
  \/ \E c \in remote.checks, s \in Result \cup {"IN_PROGRESS"} :
       /\ c.state \in {"QUEUED", "IN_PROGRESS"} /\ c.state # s
       /\ Changed(Restate(c, s))

Github ==
  \/ ChangeCore /\ UNCHANGED deleted
  \/ ChangeComments
  \/ ChangeChecks /\ UNCHANGED deleted

Init ==
  /\ \E m \in Merge :
       remote = [state |-> "OPEN", draft |-> FALSE, head |-> 1, merge |-> m, stable |-> None, decision |-> None,
                 requests |-> {}, reviews |-> [r \in {} |-> None], comments |-> [c \in {} |-> 0], checks |-> {}]
  /\ changes = 0
  /\ snapshot = None
  /\ recorded = {}
  /\ poll = [d \in Poller |-> NoPoll]
  /\ told = [checks |-> [n \in Name |-> None], comments |-> {}]
  /\ deleted = {}

Next ==
  \/ \E d \in Poller : Read(d) \/ Answer(d) \/ Save(d)
  \/ Github /\ UNCHANGED <<snapshot, recorded, poll, told>>

Spec == Init /\ [][Next]_vars

-----------------------------------------------------------------------------

Suffice(made) ==
  /\ Cardinality(InThread(made, 0)) <= Window
  /\ Cardinality(ThreadsOf(made)) <= Threads
  /\ \A t \in ThreadsOf(made) : Cardinality(InThread(made, t)) <= PerThread

(* No more comments were ever made than an answer holds *)
WindowSuffices == Suffice(DOMAIN remote.comments \cup deleted)

(* What an answer has once, later ones have too: not so a status, and a check that is left out *)
Unsteady == Status \cup Dropped

(* What has an identity of its own: a steady check's run; an edit; and a comment, unless it *)
(* left an answer for newer ones and may come back.                                         *)
HasIdentity(e) ==
  \/ e.kind \in CheckKinds /\ \E t \in Things(e) : t.name \notin Unsteady
  \/ e.kind \in Edited
  \/ e.kind \in Created \cup Deleted /\ WindowSuffices

(* With one poller, what a poll finds of runs and comments is news, alone or in a group: its *)
(* events are not taken for ones that were recorded before.                                  *)
(* docs/plans/initial-implementation.md: the dedupe key "should encode the event kind and    *)
(* the concrete change identity".                                                            *)
ChecksAndCommentsAreNew ==
  \A d \in Poller :
    poll[d].phase = "answered" =>
      \A e \in DiffSnapshot(poll[d].prev, poll[d].answer) : HasIdentity(e) => ~Known(e)

(* With one poller, nothing that was written stays unreported: a comment of the snapshot was *)
(* reported in the form it is stored in, new or edited, alone or in a group, or was there at *)
(* the start.  Only one that was edited while newer ones kept it out of the answers may not. *)
NewsIsTold ==
  snapshot # None =>
    \A c \in DOMAIN snapshot.comments :
      \/ <<c, snapshot.comments[c]>> \in told.comments
      \/ ~WindowSuffices /\ snapshot.comments[c] > 0

Newest(n) == CHOOSE c \in Named(snapshot.checks, n) : \A o \in Named(snapshot.checks, n) : o.id <= c.id

(* The comments in diff.ts: "loud on first red", "A real matrix-shard failure must never *)
(* be downgraded", an active rerun supersedes a stale failure.  With one poller, a check *)
(* that no answer left out, and whose newest run failed, was last reported as failed,    *)
(* after any reruns, in any group, whatever its siblings; only a gate may be reported as *)
(* cancelled.                                                                            *)
FailedRunIsTold ==
  snapshot # None =>
    \A n \in Names(snapshot.checks) \ Unsteady :
      Newest(n).state = "fail" =>
        \/ told.checks[n] = "check.failed"
        \/ n \in Gate /\ told.checks[n] = "check.cancelled"

New(kind) == {e \in recorded' \ recorded : e.kind = kind}

(* docs/plans/initial-implementation.md: "do not emit conflict events on unknown alone": *)
(* with one poller, a step that reports about conflicts changes the merge state that is  *)
(* known.                                                                                *)
ConflictNeedsEvidence ==
  [][New("merge_conflict.detected") \cup New("merge_conflict.cleared") # {} =>
       /\ snapshot'.stable # None /\ snapshot.stable # None
       /\ snapshot'.stable # snapshot.stable]_vars
=============================================================================
