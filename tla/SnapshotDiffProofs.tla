------------------------- MODULE SnapshotDiffProofs -------------------------
(***************************************************************************)
(* Proofs about SnapshotDiff, for every number of checks, comments, edits  *)
(* and reruns and every order of changes and polls, with one poller: what  *)
(* is written to the snapshot is told, a failed run is told as failed,     *)
(* runs and comments are news when they are found, and conflicts are       *)
(* reported on evidence.                                                   *)
(***************************************************************************)
EXTENDS SnapshotDiff, FiniteSetTheorems, WellFoundedInduction, TLAPS

(* PrWatcher's registry keeps one watcher, and so one poller, for a pull request *)
OnePoller == \A c, d \in Poller : c = d

-----------------------------------------------------------------------------
(* The newest run of a check                                                 *)

(* Of runs whose ids are bounded, one has the greatest id. *)
LEMMA GreatestId ==
  ASSUME NEW N \in Nat, NEW S, S # {}, \A x \in S : x.id \in 0 .. N
  PROVE  \E x \in S : \A y \in S : y.id <= x.id
<1> DEFINE T == {N - x.id : x \in S}
<1>1. T \subseteq Nat /\ T # {}
  OBVIOUS
<1>2. PICK t \in T : \A u \in T : <<u, t>> \notin OpToRel(<, Nat)
  BY <1>1, NatLessThanWellFounded, WFMin
<1>3. \A u \in T : ~(u < t)
  BY <1>1, <1>2, Zenon DEF OpToRel
<1>4. PICK x \in S : t = N - x.id
  OBVIOUS
<1>5. ASSUME NEW y \in S PROVE y.id <= x.id
  <2>1. ~(N - y.id < N - x.id)
    BY <1>3, <1>4
  <2> QED BY <2>1
<1> QED BY <1>5

(* Representative picks a run of that name with the greatest id. *)
LEMMA RepresentativeIsNewest ==
  ASSUME NEW N \in Nat, NEW checks, \A x \in checks : x.id \in 0 .. N, NEW n \in Names(checks)
  PROVE  /\ Representative(checks, n) \in checks
         /\ Representative(checks, n).name = n
         /\ \A o \in checks : o.name = n => o.id <= Representative(checks, n).id
<1>1. Named(checks, n) # {} /\ \A x \in Named(checks, n) : x.id \in 0 .. N
  BY DEF Names, Named
<1>2. \E x \in Named(checks, n) : \A y \in Named(checks, n) : y.id <= x.id
  BY <1>1, GreatestId
<1>3. /\ Representative(checks, n) \in Named(checks, n)
      /\ \A o \in Named(checks, n) : o.id <= Representative(checks, n).id
  BY <1>2 DEF Representative
<1> QED BY <1>3 DEF Named

-----------------------------------------------------------------------------
(* What diffSnapshot's events are about                                      *)

Found(prev, next) ==
  LifecycleEvents(prev, next) \cup MergeEvents(prev, next) \cup DecisionEvents(prev, next)
  \cup ReviewerEvents(prev, next) \cup ReviewEvents(prev, next) \cup CommentEvents(prev, next)
  \cup CheckEvents(prev, next)

(* After the first snapshot, what is found goes out grouped. *)
LEMMA DiffIsGrouped ==
  ASSUME NEW prev, NEW next, prev # None
  PROVE  DiffSnapshot(prev, next) = Grouped(Found(prev, next), next.head)
BY DEF DiffSnapshot, Found

(* A group has only members of events of its kind, and at least one. *)
LEMMA GroupedFrom ==
  ASSUME NEW E, NEW h, NEW e \in Grouped(E, h), \A f \in E : f.of # {}
  PROVE  /\ e.of # {}
         /\ \E f \in E : f.kind = e.kind
         /\ \A m \in e.of : \E f \in E : f.kind = e.kind /\ m \in f.of
<1> DEFINE of(k) == {f \in E : f.kind = k}
           kinds == {k \in GroupedKinds : Cardinality(of(k)) > 1}
<1>1. CASE e \in E
  BY <1>1
<1>2. ASSUME NEW k \in kinds, e = [kind |-> k, head |-> h, of |-> UNION {f.of : f \in of(k)}]
      PROVE  /\ e.of # {}
             /\ \E f \in E : f.kind = e.kind
             /\ \A m \in e.of : \E f \in E : f.kind = e.kind /\ m \in f.of
  <2>1. of(k) # {}
    <3>1. Cardinality({}) = 0
      BY FS_EmptySet
    <3> QED BY <3>1
  <2>2. PICK f \in of(k) : TRUE
    BY <2>1
  <2>3. e.kind = k /\ e.of = UNION {g.of : g \in of(k)}
    BY <1>2
  <2>4. f \in E /\ f.kind = k
    OBVIOUS
  <2>5. f.of # {} /\ f.of \subseteq e.of
    BY <2>3, <2>4
  <2>6. ASSUME NEW m \in e.of PROVE \E g \in E : g.kind = e.kind /\ m \in g.of
    BY <2>3
  <2> QED BY <2>3, <2>4, <2>5, <2>6
<1>3. e \in E \/ \E k \in kinds : e = [kind |-> k, head |-> h, of |-> UNION {f.of : f \in of(k)}]
  BY DEF Grouped
<1> QED BY <1>1, <1>2, <1>3

(* Every event goes out, alone or in the group of its kind. *)
LEMMA GroupedTo ==
  ASSUME NEW E, NEW h, NEW f \in E
  PROVE  \E e \in Grouped(E, h) : e.kind = f.kind /\ f.of \subseteq e.of
<1> DEFINE of(k) == {g \in E : g.kind = k}
           kinds == {k \in GroupedKinds : Cardinality(of(k)) > 1}
<1>1. CASE f.kind \notin kinds
  <2>1. f \in Grouped(E, h)
    BY <1>1 DEF Grouped
  <2> QED BY <2>1
<1>2. CASE f.kind \in kinds
  <2> DEFINE e == [kind |-> f.kind, head |-> h, of |-> UNION {g.of : g \in of(f.kind)}]
  <2>1. e \in Grouped(E, h)
    BY <1>2 DEF Grouped
  <2>2. e.kind = f.kind /\ e.of = UNION {g.of : g \in of(f.kind)}
    OBVIOUS
  <2>3. f \in of(f.kind)
    OBVIOUS
  <2>4. f.of \subseteq e.of
    BY <2>2, <2>3
  <2> QED BY <2>1, <2>2, <2>4
<1> QED BY <1>1, <1>2

(* The kinds under which checks are reported. *)
LEMMA ReportedIsCheckKind ==
  ASSUME NEW checks, NEW n
  PROVE  ReportedKind(checks, n) \in CheckKinds
BY DEF ReportedKind, CheckKind, CheckKinds

ConflictKinds == {"merge_conflict.detected", "merge_conflict.cleared"}

(* Kinds tell the events of diffSnapshot's sections apart. *)
LEMMA FoundKinds ==
  ASSUME NEW prev, NEW next, NEW f \in Found(prev, next)
  PROVE  /\ f.of # {}
         /\ f.kind # "pr.snapshot.initialized"
         /\ f.kind \in CheckKinds => f \in CheckEvents(prev, next)
         /\ f.kind \in CommentKinds => f \in CommentEvents(prev, next)
         /\ f.kind \in ConflictKinds => f \in MergeEvents(prev, next)
         /\ f.kind = "pr.synchronized" => prev.head # next.head
<1> DEFINE Goal == /\ f.of # {}
                   /\ f.kind # "pr.snapshot.initialized"
                   /\ f.kind \in CheckKinds => f \in CheckEvents(prev, next)
                   /\ f.kind \in CommentKinds => f \in CommentEvents(prev, next)
                   /\ f.kind \in ConflictKinds => f \in MergeEvents(prev, next)
                   /\ f.kind = "pr.synchronized" => prev.head # next.head
           Other == CheckKinds \cup CommentKinds \cup ConflictKinds \cup {"pr.snapshot.initialized", "pr.synchronized"}
<1>0. \A k, h, t : Event(k, h, t).kind = k /\ Event(k, h, t).of # {}
  BY DEF Event
<1>1. CASE f \in LifecycleEvents(prev, next)
  <2>1. CASE f = Plain("pr.synchronized", next.head) /\ prev.head # next.head
    <3>1. f.kind = "pr.synchronized" /\ f.of # {}
      BY <1>0, <2>1 DEF Plain
    <3> QED BY <2>1, <3>1 DEF CheckKinds, CommentKinds, Created, Edited, Deleted, ConflictKinds
  <2>2. CASE \E k \in {"pr.merged", "pr.closed", "pr.ready_for_review", "pr.converted_to_draft"} : \E h : f = Plain(k, h)
    <3>1. PICK k \in {"pr.merged", "pr.closed", "pr.ready_for_review", "pr.converted_to_draft"} : \E h : f = Plain(k, h)
      BY <2>2
    <3>2. f.kind = k /\ f.of # {}
      BY <1>0, <3>1 DEF Plain
    <3>3. k \notin Other
      BY DEF CheckKinds, CommentKinds, Created, Edited, Deleted, ConflictKinds
    <3> QED BY <3>2, <3>3
  <2> QED BY <1>1, <2>1, <2>2 DEF LifecycleEvents, On
<1>2. CASE f \in MergeEvents(prev, next)
  <2>1. PICK k \in ConflictKinds : f = Plain(k, next.head)
    BY <1>2 DEF MergeEvents, On, ConflictKinds
  <2>2. f.kind = k /\ f.of # {}
    BY <1>0, <2>1 DEF Plain
  <2> QED BY <1>2, <2>2 DEF CheckKinds, CommentKinds, Created, Edited, Deleted, ConflictKinds
<1>3. CASE f \in DecisionEvents(prev, next) \cup ReviewerEvents(prev, next) \cup ReviewEvents(prev, next)
  <2>1. PICK k \in {"pr.review_decision", "reviewer.requested", "reviewer.removed", "review"} : \E h, t : f = Event(k, h, t)
    BY <1>3 DEF DecisionEvents, ReviewerEvents, ReviewEvents, On
  <2>2. f.kind = k /\ f.of # {}
    BY <1>0, <2>1
  <2>3. k \notin Other
    BY DEF CheckKinds, CommentKinds, Created, Edited, Deleted, ConflictKinds
  <2> QED BY <2>2, <2>3
<1>4. CASE f \in CommentEvents(prev, next)
  <2>1. PICK k \in CommentKinds : \E h, t : f = Event(k, h, t)
    BY <1>4 DEF CommentEvents, OfKind, CommentKinds, Created, Edited, Deleted
  <2>2. f.kind = k /\ f.of # {}
    BY <1>0, <2>1
  <2> QED BY <1>4, <2>2 DEF CheckKinds, CommentKinds, Created, Edited, Deleted, ConflictKinds
<1>5. CASE f \in CheckEvents(prev, next)
  <2>1. PICK n, h, t : f = Event(ReportedKind(next.checks, n), h, t)
    BY <1>5 DEF CheckEvents
  <2>2. f.kind \in CheckKinds /\ f.of # {}
    BY <1>0, <2>1, ReportedIsCheckKind
  <2> QED BY <1>5, <2>2 DEF CheckKinds, CommentKinds, Created, Edited, Deleted, ConflictKinds
<1> QED BY <1>1, <1>2, <1>3, <1>4, <1>5 DEF Found

(* What a report about comment c of the kind k says. *)
CommentMember(prev, next, k, m) ==
  CASE k \in Created -> m.thing.id \in DOMAIN next.comments \ DOMAIN prev.comments
    [] k \in Edited  -> /\ m.thing.id \in DOMAIN next.comments \cap DOMAIN prev.comments
                                /\ m.thing.at = next.comments[m.thing.id]
                                /\ m.thing.at # prev.comments[m.thing.id]
    [] OTHER                 -> m.thing.id \in DOMAIN prev.comments \ DOMAIN next.comments

RunMember(next, n) == [thing |-> Thing(n, Representative(next.checks, n).id, None), head |-> next.head]

Reported(prev, next) == {n \in Names(next.checks) : ~Same(prev.checks, next.checks, n) /\ ~Quiet(next.checks, n)}

(* What the events of a diff, grouped or not, are about. *)
LEMMA DiffFrom ==
  ASSUME NEW prev, NEW next, prev # None, NEW e \in DiffSnapshot(prev, next)
  PROVE  /\ e.of # {}
         /\ e.kind # "pr.snapshot.initialized"
         /\ e.kind = "pr.synchronized" => prev.head # next.head
         /\ e.kind \in ConflictKinds => \E f \in MergeEvents(prev, next) : TRUE
         /\ e.kind \in CheckKinds =>
              \A m \in e.of : \E n \in Reported(prev, next) :
                e.kind = ReportedKind(next.checks, n) /\ m = RunMember(next, n)
         /\ e.kind \in CommentKinds => \A m \in e.of : CommentMember(prev, next, e.kind, m)
<1>1. \A f \in Found(prev, next) : f.of # {}
  BY FoundKinds
<1>2. /\ e.of # {}
      /\ \E f \in Found(prev, next) : f.kind = e.kind
      /\ \A m \in e.of : \E f \in Found(prev, next) : f.kind = e.kind /\ m \in f.of
  BY <1>1, DiffIsGrouped, GroupedFrom
<1>3. PICK g \in Found(prev, next) : g.kind = e.kind
  BY <1>2
<1>4. ASSUME e.kind \in CheckKinds, NEW m \in e.of
      PROVE  \E n \in Reported(prev, next) : e.kind = ReportedKind(next.checks, n) /\ m = RunMember(next, n)
  <2>1. PICK f \in Found(prev, next) : f.kind = e.kind /\ m \in f.of
    BY <1>2
  <2>2. f \in CheckEvents(prev, next)
    BY <1>4, <2>1, FoundKinds
  <2>3. PICK n \in Reported(prev, next) :
          f = Event(ReportedKind(next.checks, n), next.head, Thing(n, Representative(next.checks, n).id, None))
    BY <2>2 DEF CheckEvents, Reported
  <2> QED BY <2>1, <2>3 DEF Event, RunMember
<1>5. ASSUME e.kind \in CommentKinds, NEW m \in e.of
      PROVE  CommentMember(prev, next, e.kind, m)
  <2>1. PICK f \in Found(prev, next) : f.kind = e.kind /\ m \in f.of
    BY <1>2
  <2>2. f \in CommentEvents(prev, next)
    BY <1>5, <2>1, FoundKinds
  <2>3. CASE \E c \in DOMAIN next.comments \ DOMAIN prev.comments :
               f = Event(OfKind(c, "issue_comment.created", "review_comment.created"), None, Thing(None, c, None))
    BY <2>1, <2>3 DEF Event, Thing, OfKind, CommentMember, Created, Edited, Deleted
  <2>4. CASE \E c \in DOMAIN next.comments \cap DOMAIN prev.comments :
               /\ prev.comments[c] # next.comments[c]
               /\ f = Event(OfKind(c, "issue_comment.edited", "review_comment.edited"), None,
                            Thing(None, c, next.comments[c]))
    BY <2>1, <2>4 DEF Event, Thing, OfKind, CommentMember, Created, Edited, Deleted
  <2>5. CASE \E c \in DOMAIN prev.comments \ DOMAIN next.comments :
               f = Event(OfKind(c, "issue_comment.deleted", "review_comment.deleted"), next.head, Thing(None, c, None))
    BY <2>1, <2>5 DEF Event, Thing, OfKind, CommentMember, Created, Edited, Deleted
  <2> QED BY <2>2, <2>3, <2>4, <2>5 DEF CommentEvents
<1> QED BY <1>2, <1>3, <1>4, <1>5, FoundKinds

(* Whatever diffSnapshot finds of a check goes out, under the kind it is reported as. *)
LEMMA DiffHasRun ==
  ASSUME NEW prev, NEW next, prev # None, NEW n \in Reported(prev, next)
  PROVE  \E e \in DiffSnapshot(prev, next) : e.kind = ReportedKind(next.checks, n) /\ RunMember(next, n) \in e.of
<1> DEFINE f == Event(ReportedKind(next.checks, n), next.head, Thing(n, Representative(next.checks, n).id, None))
<1>1. f \in Found(prev, next)
  BY DEF Found, CheckEvents, Reported
<1>2. f.kind = ReportedKind(next.checks, n) /\ f.of = {RunMember(next, n)}
  BY DEF Event, RunMember
<1>3. PICK e \in DiffSnapshot(prev, next) : e.kind = f.kind /\ f.of \subseteq e.of
  BY <1>1, GroupedTo, DiffIsGrouped
<1> QED BY <1>2, <1>3

(* And so does a comment that is new, or that has changed. *)
LEMMA DiffHasComment ==
  ASSUME NEW prev, NEW next, prev # None, NEW c \in DOMAIN next.comments,
         c \notin DOMAIN prev.comments \/ prev.comments[c] # next.comments[c]
  PROVE  \E e \in DiffSnapshot(prev, next) : \E m \in e.of :
           /\ m.thing.id = c
           /\ IF c \in DOMAIN prev.comments THEN e.kind \in Edited ELSE e.kind \in Created
<1>1. CASE c \notin DOMAIN prev.comments
  <2> DEFINE f == Event(OfKind(c, "issue_comment.created", "review_comment.created"), None, Thing(None, c, None))
  <2>1. f \in Found(prev, next)
    BY <1>1 DEF Found, CommentEvents
  <2>2. f.kind \in Created /\ \E m \in f.of : m.thing.id = c
    BY DEF Event, Thing, OfKind, Created, Edited
  <2>3. PICK e \in DiffSnapshot(prev, next) : e.kind = f.kind /\ f.of \subseteq e.of
    BY <2>1, GroupedTo, DiffIsGrouped
  <2> QED BY <1>1, <2>2, <2>3
<1>2. CASE c \in DOMAIN prev.comments
  <2> DEFINE f == Event(OfKind(c, "issue_comment.edited", "review_comment.edited"), None,
                        Thing(None, c, next.comments[c]))
  <2>1. f \in Found(prev, next)
    BY <1>2 DEF Found, CommentEvents
  <2>2. f.kind \in Edited /\ \E m \in f.of : m.thing.id = c
    BY DEF Event, Thing, OfKind, Created, Edited
  <2>3. PICK e \in DiffSnapshot(prev, next) : e.kind = f.kind /\ f.of \subseteq e.of
    BY <2>1, GroupedTo, DiffIsGrouped
  <2> QED BY <1>2, <2>2, <2>3
<1> QED BY <1>1, <1>2

-----------------------------------------------------------------------------
(* Known events, and what is told                                            *)

(* Below the first snapshot's, a key is the event. *)
LEMMA KnownIsRecorded ==
  ASSUME NEW e, e.kind # "pr.snapshot.initialized", Known(e)
  PROVE  e \in recorded
<1>1. PICK r \in recorded : Key(e) = Key(r)
  BY DEF Known
<1>2. Key(e) = e
  BY DEF Key
<1>3. r.kind # "pr.snapshot.initialized"
  BY <1>1, <1>2 DEF Key
<1>4. Key(r) = r
  BY <1>3 DEF Key
<1> QED BY <1>1, <1>2, <1>4

First(new) == \E e \in new : e.kind = "pr.snapshot.initialized"

About(new, n) ==
  {e \in new : /\ e.kind \in CheckKinds \cup {"pr.snapshot.initialized"}
               /\ \E t \in Things(e) : t.name = n}

(* What was told of comments stays told, and the new comments and edits join it. *)
LEMMA ToldComments ==
  ASSUME NEW new, NEW next
  PROVE  /\ told.comments \subseteq Told(new, next).comments
         /\ First(new) => \A c \in DOMAIN next.comments : <<c, next.comments[c]>> \in Told(new, next).comments
         /\ ~First(new) =>
              \A e \in new : e.kind \in Created \cup Edited =>
                \A m \in e.of : m.thing.id \in DOMAIN next.comments =>
                  <<m.thing.id, next.comments[m.thing.id]>> \in Told(new, next).comments
<1> DEFINE ids == IF "pr.snapshot.initialized" \in {e.kind : e \in new} THEN DOMAIN next.comments
                  ELSE {t.id : t \in UNION {Things(e) : e \in
                          {x \in new : x.kind \in Created \cup Edited}}} \cap DOMAIN next.comments
<1>1. Told(new, next).comments = told.comments \cup {<<c, next.comments[c]>> : c \in ids}
  BY DEF Told
<1>2. First(new) <=> "pr.snapshot.initialized" \in {e.kind : e \in new}
  BY DEF First
<1>3. ASSUME ~First(new), NEW e \in new, e.kind \in Created \cup Edited, NEW m \in e.of,
             m.thing.id \in DOMAIN next.comments
      PROVE  m.thing.id \in ids
  <2>1. m.thing \in Things(e)
    BY DEF Things
  <2>2. m.thing \in UNION {Things(x) : x \in {y \in new : y.kind \in Created \cup Edited}}
    BY <1>3, <2>1
  <2> QED BY <1>2, <1>3, <2>2
<1> QED BY <1>1, <1>2, <1>3

(* What was told of a check is what the last event about it said. *)
LEMMA ToldChecks ==
  ASSUME NEW new, NEW next, NEW n \in Name
  PROVE  /\ First(new) /\ About(new, n) # {} => Told(new, next).checks[n] = "check.failed"
         /\ ~First(new) => \A k : About(new, n) # {} /\ (\A e \in About(new, n) : e.kind = k)
                                    => Told(new, next).checks[n] = k
         /\ ~First(new) /\ About(new, n) = {} /\ (\A e \in new : e.kind # "pr.synchronized")
              => Told(new, next).checks[n] = told.checks[n]
<1> DEFINE kinds == {e.kind : e \in new}
           first == "pr.snapshot.initialized" \in kinds
           known == IF "pr.synchronized" \in kinds THEN [m \in Name |-> None] ELSE told.checks
<1>1. First(new) <=> first
  BY DEF First
<1>2. Told(new, next).checks[n] =
        IF About(new, n) = {} THEN IF first /\ n \in Names(next.checks)
                                   THEN CheckKind(Representative(next.checks, n).state) ELSE known[n]
        ELSE IF first THEN "check.failed"
        ELSE (CHOOSE e \in About(new, n) : TRUE).kind
  BY DEF Told, About
<1>3. ASSUME NEW k, About(new, n) # {}, \A e \in About(new, n) : e.kind = k
      PROVE  (CHOOSE e \in About(new, n) : TRUE).kind = k
  <2>1. (CHOOSE e \in About(new, n) : TRUE) \in About(new, n)
    BY <1>3
  <2> QED BY <1>3, <2>1
<1>4. (\A e \in new : e.kind # "pr.synchronized") => known = told.checks
  OBVIOUS
<1> HIDE DEF first, known
<1> QED BY <1>1, <1>2, <1>3, <1>4

-----------------------------------------------------------------------------
(* The invariant: what the stages of a poll know lags behind GitHub          *)

Polls == [phase : {"idle", "asking", "answered"}, prev : PullRequest \cup {None}, answer : PullRequest \cup {None}]

Running == {"QUEUED", "IN_PROGRESS"}

TypeOK ==
  /\ remote \in PullRequest
  /\ changes \in 0 .. MaxChanges
  /\ snapshot \in PullRequest \cup {None}
  /\ poll \in [Poller -> Polls]
  /\ \A d \in Poller : poll[d].phase = "answered" => poll[d].answer \in PullRequest
  /\ deleted \subseteq (1 .. changes) \ DOMAIN remote.comments
  /\ \A x \in remote.checks : x.state \in Running \cup Result

(* The pull request as an answer gives it, if it leaves nothing out *)
AsAnswer(r) == [r EXCEPT !.checks = {ToCheck(c) : c \in @}]

View == AsAnswer(remote)

(* Where a run is on its way from queued to a result *)
Stage(s) == IF s = "pending" THEN 0 ELSE IF s = "in_progress" THEN 1 ELSE 2

KindStage(k) == IF k = "check.queued" THEN 0 ELSE IF k = "check.in_progress" THEN 1 ELSE 2

(* y is the run x, then or later *)
Follows(x, y) ==
  /\ x.name = y.name /\ x.id = y.id
  /\ x.state = y.state \/ Stage(x.state) < Stage(y.state)

(* b shows the pull request as a does, or later *)
RunsAhead(a, b) ==
  /\ a.head <= b.head
  /\ a.head = b.head => \A x \in a.checks : x.name \notin Unsteady => \E y \in b.checks : Follows(x, y)
  /\ a.head < b.head =>
       \A x \in a.checks, y \in b.checks : x.name \notin Status /\ y.name \notin Status => x.id < y.id

CommentsAhead(a, b) ==
  /\ \A c \in DOMAIN a.comments \cap DOMAIN b.comments : a.comments[c] <= b.comments[c]
  /\ WindowSuffices => DOMAIN a.comments \subseteq DOMAIN b.comments \cup deleted

Ahead(a, b) == RunsAhead(a, b) /\ CommentsAhead(a, b)

(* Ids are given once *)
Sound(a) ==
  /\ DOMAIN a.comments \subseteq 1 .. changes
  /\ \A x \in a.checks : x.id \in 0 .. changes
  /\ \A x, y \in a.checks : x.name \notin Status /\ x.name = y.name /\ x.id = y.id => x = y

Views ==
  /\ Sound(remote)
  /\ snapshot # None => Sound(snapshot) /\ Ahead(snapshot, View)
  /\ \A d \in Poller : poll[d].phase # "idle" => poll[d].prev = snapshot
  /\ \A d \in Poller : poll[d].phase = "answered" =>
       /\ Sound(poll[d].answer) /\ Ahead(poll[d].answer, View)
       /\ snapshot # None => Ahead(snapshot, poll[d].answer)
       /\ poll[d].answer.merge # "UNKNOWN" => poll[d].answer.stable = poll[d].answer.merge

-----------------------------------------------------------------------------
(* What GitHub may do                                                        *)

CommentsMove ==
  /\ DOMAIN remote'.comments \subseteq 1 .. changes + 1
  /\ \A c \in DOMAIN remote'.comments :
       c = changes + 1 \/ (c \in DOMAIN remote.comments /\ remote.comments[c] <= remote'.comments[c])
  /\ DOMAIN remote.comments \subseteq DOMAIN remote'.comments \cup deleted'
  /\ deleted \subseteq deleted'
  /\ deleted' \subseteq (1 .. changes) \ DOMAIN remote'.comments
  /\ WindowSuffices' => WindowSuffices

(* The run x goes on as y *)
GoesOn(x, y) ==
  /\ x.name = y.name /\ x.id = y.id
  /\ \/ x = y
     \/ x.state \in Running /\ y.state \in Result \cup {"IN_PROGRESS"} /\ x.state # y.state

RunsMove ==
  /\ \A y \in remote'.checks : y.id \in 0 .. changes + 1
  /\ \A x, y \in remote'.checks : x.name \notin Status /\ x.name = y.name /\ x.id = y.id => x = y
  /\ \A x \in remote'.checks : x.state \in Running \cup Result
  /\ \/ remote'.head = remote.head + 1 /\ remote'.checks = {}
     \/ /\ remote'.head = remote.head
        /\ \A x \in remote.checks : x.name \notin Status => \E y \in remote'.checks : GoesOn(x, y)
        /\ \A y \in remote'.checks : y.name \notin Status =>
             y.id = changes + 1 \/ \E x \in remote.checks : x.name = y.name /\ x.id = y.id

(* The fields of what is known of a pull request. *)
LEMMA Fields ==
  ASSUME NEW r \in PullRequest
  PROVE  /\ r.state \in {"OPEN", "MERGED", "CLOSED"} /\ r.draft \in BOOLEAN /\ r.head \in Nat
         /\ r.merge \in Merge \cup {"UNKNOWN"} /\ r.stable \in Merge \cup {None}
         /\ r.decision \in Decision \cup {None} /\ r.requests \in SUBSET Login
         /\ r.reviews \in UNION {[R -> {"APPROVED", "DISMISSED"}] : R \in SUBSET Review}
         /\ DOMAIN r.comments \subseteq 1 .. MaxChanges
         /\ r.comments \in [DOMAIN r.comments -> Nat]
         /\ r.checks \in SUBSET [name : Name, workflow : Workflows, id : Nat, state : CheckState]
         /\ r # None
<1> DEFINE Reviews == UNION {[R -> {"APPROVED", "DISMISSED"}] : R \in SUBSET Review}
           Comments == UNION {[C -> Nat] : C \in SUBSET (1 .. MaxChanges)}
<1>1. r \in [state : {"OPEN", "MERGED", "CLOSED"}, draft : BOOLEAN, head : Nat, merge : Merge \cup {"UNKNOWN"},
             stable : Merge \cup {None}, decision : Decision \cup {None}, requests : SUBSET Login,
             reviews : Reviews, comments : Comments,
             checks : SUBSET [name : Name, workflow : Workflows, id : Nat, state : CheckState]]
  BY DEF PullRequest
<1> HIDE DEF Reviews, Comments
<1>2. /\ r.state \in {"OPEN", "MERGED", "CLOSED"} /\ r.draft \in BOOLEAN /\ r.head \in Nat
      /\ r.merge \in Merge \cup {"UNKNOWN"} /\ r.stable \in Merge \cup {None}
      /\ r.decision \in Decision \cup {None} /\ r.requests \in SUBSET Login
      /\ r.reviews \in Reviews
      /\ r.comments \in Comments
      /\ r.checks \in SUBSET [name : Name, workflow : Workflows, id : Nat, state : CheckState]
  BY <1>1
<1>3. PICK C \in SUBSET (1 .. MaxChanges) : r.comments \in [C -> Nat]
  BY <1>2 DEF Comments
<1> QED BY <1>2, <1>3, NoneAssumption DEF Reviews

(* Of the same head, with the same runs and comments *)
Alike(q, r) == q \in PullRequest /\ q.head = r.head /\ q.checks = r.checks /\ q.comments = r.comments

(* A change of one part leaves the others alone. *)
LEMMA Updates ==
  ASSUME NEW r \in PullRequest
  PROVE  /\ \A m \in Merge : Alike([r EXCEPT !.merge = m], r)
         /\ Alike([r EXCEPT !.draft = ~@], r)
         /\ \A s \in {"MERGED", "CLOSED"} : Alike([r EXCEPT !.state = s], r)
         /\ \A x \in Decision : Alike([r EXCEPT !.decision = x], r)
         /\ \A L \in SUBSET Login : Alike([r EXCEPT !.requests = L], r)
         /\ \A v \in UNION {[R -> {"APPROVED", "DISMISSED"}] : R \in SUBSET Review} :
              Alike([r EXCEPT !.reviews = v], r)
<1> DEFINE Reviews == UNION {[R -> {"APPROVED", "DISMISSED"}] : R \in SUBSET Review}
           Comments == UNION {[C -> Nat] : C \in SUBSET (1 .. MaxChanges)}
           Checks == SUBSET [name : Name, workflow : Workflows, id : Nat, state : CheckState]
           Logins == SUBSET Login
           All == [state : {"OPEN", "MERGED", "CLOSED"}, draft : BOOLEAN, head : Nat, merge : Merge \cup {"UNKNOWN"},
                   stable : Merge \cup {None}, decision : Decision \cup {None}, requests : Logins,
                   reviews : Reviews, comments : Comments, checks : Checks]
<1>1. PullRequest = All
  BY DEF PullRequest
<1> HIDE DEF Reviews, Comments, Checks, Logins
<1>3. r \in All
  BY <1>1
<1>4. ASSUME NEW m \in Merge PROVE Alike([r EXCEPT !.merge = m], r)
  BY <1>1, <1>3 DEF Alike
<1>6. Alike([r EXCEPT !.draft = ~@], r)
  BY <1>1, <1>3 DEF Alike
<1>7. ASSUME NEW s \in {"MERGED", "CLOSED"} PROVE Alike([r EXCEPT !.state = s], r)
  BY <1>1, <1>3 DEF Alike
<1>8. ASSUME NEW x \in Decision PROVE Alike([r EXCEPT !.decision = x], r)
  BY <1>1, <1>3 DEF Alike
<1>9. ASSUME NEW L \in Logins PROVE Alike([r EXCEPT !.requests = L], r)
  BY <1>1, <1>3 DEF Alike
<1>10. ASSUME NEW v \in Reviews PROVE Alike([r EXCEPT !.reviews = v], r)
  BY <1>1, <1>3 DEF Alike
<1> QED BY <1>4, <1>6, <1>7, <1>8, <1>9, <1>10, Zenon DEF Reviews, Logins

(* New comments take the place of the old. *)
LEMMA UpdateComments ==
  ASSUME NEW r \in PullRequest, NEW C \in SUBSET (1 .. MaxChanges), NEW v \in [C -> Nat]
  PROVE  /\ [r EXCEPT !.comments = v] \in PullRequest
         /\ [r EXCEPT !.comments = v].head = r.head
         /\ [r EXCEPT !.comments = v].checks = r.checks
         /\ [r EXCEPT !.comments = v].comments = v
<1> DEFINE Reviews == UNION {[R -> {"APPROVED", "DISMISSED"}] : R \in SUBSET Review}
           Comments == UNION {[B -> Nat] : B \in SUBSET (1 .. MaxChanges)}
           Checks == SUBSET [name : Name, workflow : Workflows, id : Nat, state : CheckState]
           Logins == SUBSET Login
           All == [state : {"OPEN", "MERGED", "CLOSED"}, draft : BOOLEAN, head : Nat, merge : Merge \cup {"UNKNOWN"},
                   stable : Merge \cup {None}, decision : Decision \cup {None}, requests : Logins,
                   reviews : Reviews, comments : Comments, checks : Checks]
<1>0. v \in Comments
  OBVIOUS
<1>1. PullRequest = All
  BY DEF PullRequest
<1> HIDE DEF Reviews, Comments, Checks, Logins
<1>2. r \in All
  BY <1>1
<1> QED BY <1>0, <1>1, <1>2

(* So do new runs. *)
LEMMA UpdateRuns ==
  ASSUME NEW r \in PullRequest, NEW v \in SUBSET [name : Name, workflow : Workflows, id : Nat, state : CheckState]
  PROVE  /\ [r EXCEPT !.checks = v] \in PullRequest
         /\ [r EXCEPT !.checks = v].head = r.head
         /\ [r EXCEPT !.checks = v].checks = v
         /\ [r EXCEPT !.checks = v].comments = r.comments
<1> DEFINE Reviews == UNION {[R -> {"APPROVED", "DISMISSED"}] : R \in SUBSET Review}
           Comments == UNION {[C -> Nat] : C \in SUBSET (1 .. MaxChanges)}
           Checks == SUBSET [name : Name, workflow : Workflows, id : Nat, state : CheckState]
           Logins == SUBSET Login
           All == [state : {"OPEN", "MERGED", "CLOSED"}, draft : BOOLEAN, head : Nat, merge : Merge \cup {"UNKNOWN"},
                   stable : Merge \cup {None}, decision : Decision \cup {None}, requests : Logins,
                   reviews : Reviews, comments : Comments, checks : Checks]
<1>0. v \in Checks
  OBVIOUS
<1>1. PullRequest = All
  BY DEF PullRequest
<1> HIDE DEF Reviews, Comments, Checks, Logins
<1>2. r \in All
  BY <1>1
<1> QED BY <1>0, <1>1, <1>2

(* A new head has none. *)
LEMMA UpdateHead ==
  ASSUME NEW r \in PullRequest, NEW m \in Merge
  PROVE  /\ [r EXCEPT !.head = @ + 1, !.checks = {}, !.merge = m] \in PullRequest
         /\ [r EXCEPT !.head = @ + 1, !.checks = {}, !.merge = m].head = r.head + 1
         /\ [r EXCEPT !.head = @ + 1, !.checks = {}, !.merge = m].checks = {}
         /\ [r EXCEPT !.head = @ + 1, !.checks = {}, !.merge = m].comments = r.comments
<1> DEFINE Reviews == UNION {[R -> {"APPROVED", "DISMISSED"}] : R \in SUBSET Review}
           Comments == UNION {[C -> Nat] : C \in SUBSET (1 .. MaxChanges)}
           Checks == SUBSET [name : Name, workflow : Workflows, id : Nat, state : CheckState]
           Logins == SUBSET Login
           All == [state : {"OPEN", "MERGED", "CLOSED"}, draft : BOOLEAN, head : Nat, merge : Merge \cup {"UNKNOWN"},
                   stable : Merge \cup {None}, decision : Decision \cup {None}, requests : Logins,
                   reviews : Reviews, comments : Comments, checks : Checks]
<1>0. {} \in Checks
  OBVIOUS
<1>1. PullRequest = All
  BY DEF PullRequest
<1> HIDE DEF Reviews, Comments, Checks, Logins
<1>2. r \in All
  BY <1>1
<1>3. r.head + 1 \in Nat
  BY <1>2
<1> QED BY <1>0, <1>1, <1>2, <1>3

(* A change beside comments leaves them as they are. *)
LEMMA CommentsStay ==
  ASSUME TypeOK, Sound(remote), remote'.comments = remote.comments, UNCHANGED deleted
  PROVE  CommentsMove
<1>1. WindowSuffices' <=> WindowSuffices
  BY DEF WindowSuffices
<1>2. /\ changes \in Nat /\ DOMAIN remote.comments \subseteq 1 .. changes
      /\ deleted \subseteq (1 .. changes) \ DOMAIN remote.comments
  BY WindowAssumption DEF TypeOK, Sound
<1>3. remote.comments \in [DOMAIN remote.comments -> Nat]
  BY Fields DEF TypeOK
<1> QED BY <1>1, <1>2, <1>3 DEF CommentsMove

(* And one beside runs leaves those. *)
LEMMA RunsStay ==
  ASSUME TypeOK, Sound(remote), remote'.head = remote.head, remote'.checks = remote.checks
  PROVE  RunsMove
<1>1. changes \in Nat
  BY WindowAssumption DEF TypeOK
<1>2. \A y \in remote'.checks : y.id \in 0 .. changes + 1
  BY <1>1 DEF Sound
<1>3. \A x \in remote'.checks : x.state \in Running \cup Result
  BY DEF TypeOK
<1>4. \A x \in remote.checks : \E y \in remote'.checks : GoesOn(x, y)
  BY DEF GoesOn
<1> QED BY <1>2, <1>3, <1>4 DEF RunsMove, Sound

(* A change beside comments and runs; a new head starts without runs. *)
LEMMA CoreStep ==
  ASSUME TypeOK, Sound(remote), ChangeCore, UNCHANGED deleted
  PROVE  /\ changes' = changes + 1 /\ changes < MaxChanges
         /\ remote' \in PullRequest /\ CommentsMove /\ RunsMove
<1>0. remote \in PullRequest
  BY DEF TypeOK
<1>1. ASSUME NEW q, Changed(q), Alike(q, remote)
      PROVE  /\ changes' = changes + 1 /\ changes < MaxChanges
             /\ remote' \in PullRequest /\ CommentsMove /\ RunsMove
  <2>1. /\ changes' = changes + 1 /\ changes < MaxChanges
        /\ remote' \in PullRequest
        /\ remote'.head = remote.head /\ remote'.checks = remote.checks /\ remote'.comments = remote.comments
    BY <1>1 DEF Changed, Alike
  <2> QED BY <2>1, CommentsStay, RunsStay
<1>2. CASE \E m \in Merge : Changed([remote EXCEPT !.merge = m])
  BY <1>0, <1>1, <1>2, Updates
<1>3. CASE \E m \in Merge : Changed([remote EXCEPT !.head = @ + 1, !.checks = {}, !.merge = m])
  <2>1. PICK m \in Merge : Changed([remote EXCEPT !.head = @ + 1, !.checks = {}, !.merge = m])
    BY <1>3
  <2>2. /\ changes' = changes + 1 /\ changes < MaxChanges
        /\ remote' \in PullRequest
        /\ remote'.head = remote.head + 1 /\ remote'.checks = {} /\ remote'.comments = remote.comments
    BY <1>0, <2>1, UpdateHead DEF Changed
  <2> QED BY <2>2, CommentsStay DEF RunsMove
<1>4. CASE Changed([remote EXCEPT !.draft = ~@])
  BY <1>0, <1>1, <1>4, Updates
<1>5. CASE \E s \in {"MERGED", "CLOSED"} : Changed([remote EXCEPT !.state = s])
  BY <1>0, <1>1, <1>5, Updates
<1>6. CASE \E x \in Decision : Changed([remote EXCEPT !.decision = x])
  BY <1>0, <1>1, <1>6, Updates
<1>7. CASE \E L \in SUBSET Login : Changed([remote EXCEPT !.requests = L])
  BY <1>0, <1>1, <1>7, Updates
<1>8. CASE \E v \in UNION {[R -> {"APPROVED", "DISMISSED"}] : R \in SUBSET Review} :
             Changed([remote EXCEPT !.reviews = v])
  BY <1>0, <1>1, <1>8, Updates
<1>9. ASSUME NEW l \in Login,
             \/ l \in remote.requests /\ Changed([remote EXCEPT !.requests = @ \ {l}])
             \/ l \notin remote.requests /\ Changed([remote EXCEPT !.requests = @ \cup {l}])
      PROVE  \E L \in SUBSET Login : Changed([remote EXCEPT !.requests = L])
  <2>1. remote.requests \ {l} \in SUBSET Login /\ remote.requests \cup {l} \in SUBSET Login
    BY <1>0, Fields
  <2> QED BY <1>9, <2>1
<1>10. ASSUME NEW r \in Review, NEW s \in {"APPROVED", "DISMISSED"},
              Changed([remote EXCEPT !.reviews = [q \in DOMAIN @ \cup {r} |-> IF q = r THEN s ELSE @[q]]])
       PROVE  \E v \in UNION {[R -> {"APPROVED", "DISMISSED"}] : R \in SUBSET Review} :
                Changed([remote EXCEPT !.reviews = v])
  <2> DEFINE v == [q \in DOMAIN remote.reviews \cup {r} |-> IF q = r THEN s ELSE remote.reviews[q]]
  <2>1. PICK R \in SUBSET Review : remote.reviews \in [R -> {"APPROVED", "DISMISSED"}]
    BY <1>0, Fields
  <2>2. v \in [R \cup {r} -> {"APPROVED", "DISMISSED"}] /\ R \cup {r} \in SUBSET Review
    BY <2>1
  <2>3. Changed([remote EXCEPT !.reviews = v])
    BY <1>10
  <2> QED BY <2>2, <2>3
<1> QED BY <1>2, <1>3, <1>4, <1>5, <1>6, <1>7, <1>8, <1>9, <1>10 DEF ChangeCore

(* The comments there are and were can be counted. *)
LEMMA IdsAreFinite ==
  ASSUME TypeOK, Sound(remote)
  PROVE  DOMAIN remote.comments \cup deleted \subseteq 1 .. changes /\ IsFiniteSet(DOMAIN remote.comments \cup deleted)
<1>1. changes \in Nat /\ IsFiniteSet(1 .. changes)
  BY FS_Interval, WindowAssumption DEF TypeOK
<1>2. DOMAIN remote.comments \cup deleted \subseteq 1 .. changes
  BY DEF TypeOK, Sound
<1> QED BY <1>1, <1>2, FS_Subset

(* Finitely many comments are in finitely many threads, and fewer are in no more. *)
LEMMA ThreadsAreFinite ==
  ASSUME NEW E, IsFiniteSet(E)
  PROVE  IsFiniteSet(ThreadsOf(E))
<1> DEFINE f == [c \in E |-> Thread[c]]
           T == {Thread[c] : c \in E}
<1>1. f \in Surjection(E, T)
  BY DEF Surjection
<1> HIDE DEF f
<1>2. IsFiniteSet(T)
  BY <1>1, FS_Surjection
<1> QED BY <1>2, FS_Subset DEF ThreadsOf

LEMMA FewerSuffice ==
  ASSUME NEW E, IsFiniteSet(E), NEW C \in SUBSET E, Suffice(E)
  PROVE  Suffice(C)
<1>0. {Window, Threads, PerThread} \subseteq Nat
  BY WindowAssumption
<1>1. \A S, T : IsFiniteSet(T) /\ S \subseteq T =>
        Cardinality(S) <= Cardinality(T) /\ Cardinality(S) \in Nat /\ Cardinality(T) \in Nat
  BY FS_Subset, FS_CardinalityType
<1>2. \A t : InThread(C, t) \subseteq InThread(E, t) /\ IsFiniteSet(InThread(E, t))
  BY FS_Subset DEF InThread
<1>3. ThreadsOf(C) \subseteq ThreadsOf(E) /\ IsFiniteSet(ThreadsOf(E))
  BY ThreadsAreFinite DEF ThreadsOf
<1>4. Cardinality(InThread(C, 0)) <= Window
  <2>1. /\ Cardinality(InThread(C, 0)) <= Cardinality(InThread(E, 0)) /\ Cardinality(InThread(C, 0)) \in Nat
        /\ Cardinality(InThread(E, 0)) \in Nat
    BY <1>1, <1>2
  <2> QED BY <1>0, <2>1 DEF Suffice
<1>5. Cardinality(ThreadsOf(C)) <= Threads
  <2>1. /\ Cardinality(ThreadsOf(C)) <= Cardinality(ThreadsOf(E)) /\ Cardinality(ThreadsOf(C)) \in Nat
        /\ Cardinality(ThreadsOf(E)) \in Nat
    BY <1>1, <1>3
  <2> QED BY <1>0, <2>1 DEF Suffice
<1>6. ASSUME NEW t \in ThreadsOf(C) PROVE Cardinality(InThread(C, t)) <= PerThread
  <2>1. /\ Cardinality(InThread(C, t)) <= Cardinality(InThread(E, t)) /\ Cardinality(InThread(C, t)) \in Nat
        /\ Cardinality(InThread(E, t)) \in Nat
    BY <1>1, <1>2
  <2> QED BY <1>0, <1>3, <2>1 DEF Suffice
<1> QED BY <1>4, <1>5, <1>6 DEF Suffice

(* A comment joins the others, is edited, or goes; how many there ever were never falls. *)
LEMMA CommentsStep ==
  ASSUME TypeOK, Sound(remote), ChangeComments
  PROVE  /\ changes' = changes + 1 /\ changes < MaxChanges
         /\ remote' \in PullRequest /\ CommentsMove /\ RunsMove
<1> DEFINE D == DOMAIN remote.comments
           Goal == /\ changes' = changes + 1 /\ changes < MaxChanges
                   /\ remote' \in PullRequest /\ CommentsMove /\ RunsMove
<1>0. /\ remote \in PullRequest /\ changes \in Nat /\ MaxChanges \in Nat /\ Window \in Nat
      /\ D \subseteq 1 .. changes /\ D \subseteq 1 .. MaxChanges /\ remote.comments \in [D -> Nat]
      /\ deleted \subseteq (1 .. changes) \ D /\ IsFiniteSet(D \cup deleted)
  BY Fields, IdsAreFinite, WindowAssumption DEF TypeOK, Sound
<1>1. ASSUME IsFiniteSet(DOMAIN remote'.comments \cup deleted'),
             D \cup deleted \subseteq DOMAIN remote'.comments \cup deleted'
      PROVE  WindowSuffices' => WindowSuffices
  BY <1>1, FewerSuffice DEF WindowSuffices
<1>2. ASSUME NEW C \in SUBSET (1 .. MaxChanges), NEW v \in [C -> Nat], Changed([remote EXCEPT !.comments = v])
      PROVE  /\ changes' = changes + 1 /\ changes < MaxChanges
             /\ remote' \in PullRequest /\ remote'.comments = v /\ RunsMove
  <2>2. /\ changes' = changes + 1 /\ changes < MaxChanges
        /\ remote' \in PullRequest
        /\ remote'.head = remote.head /\ remote'.checks = remote.checks /\ remote'.comments = v
    <3> DEFINE q == [remote EXCEPT !.comments = v]
    <3>1. q \in PullRequest /\ q.head = remote.head /\ q.checks = remote.checks /\ q.comments = v
      BY <1>0, UpdateComments
    <3>2. changes' = changes + 1 /\ changes < MaxChanges /\ remote' = q
      BY <1>2 DEF Changed
    <3> HIDE DEF q
    <3> QED BY <3>1, <3>2
  <2> QED BY <2>2, RunsStay
<1>3. ASSUME Changed([remote EXCEPT !.comments = [c \in DOMAIN @ \cup {changes + 1} |-> IF c \in DOMAIN @ THEN @[c] ELSE 0]]),
             UNCHANGED deleted
      PROVE  Goal
  <2> DEFINE v == [c \in D \cup {changes + 1} |-> IF c \in D THEN remote.comments[c] ELSE 0]
  <2>1. changes < MaxChanges /\ Changed([remote EXCEPT !.comments = v])
    BY <1>3 DEF Changed
  <2>2. D \cup {changes + 1} \in SUBSET (1 .. MaxChanges) /\ v \in [D \cup {changes + 1} -> Nat]
    BY <1>0, <2>1
  <2>3. /\ changes' = changes + 1 /\ changes < MaxChanges
        /\ remote' \in PullRequest /\ remote'.comments = v /\ RunsMove
    BY <1>2, <2>1, <2>2
  <2>5. DOMAIN remote'.comments = D \cup {changes + 1}
    BY <2>3
  <2>6. WindowSuffices' => WindowSuffices
    <3>1. DOMAIN remote'.comments \cup deleted' = (D \cup deleted) \cup {changes + 1}
      BY <1>3, <2>5
    <3> HIDE DEF D
    <3>2. IsFiniteSet((D \cup deleted) \cup {changes + 1})
      BY <1>0, FS_AddElement
    <3> QED BY <1>1, <3>1, <3>2
  <2>7. \A c \in D : remote'.comments[c] = remote.comments[c] /\ remote.comments[c] \in Nat
    BY <1>0, <2>3
  <2>8. CommentsMove
    BY <1>0, <1>3, <2>5, <2>6, <2>7 DEF CommentsMove
  <2> QED BY <2>3, <2>8
<1>4. ASSUME NEW c \in D, Changed([remote EXCEPT !.comments[c] = @ + 1]), UNCHANGED deleted
      PROVE  Goal
  <2> DEFINE v == [remote.comments EXCEPT ![c] = @ + 1]
  <2>1. Changed([remote EXCEPT !.comments = v])
    BY <1>4
  <2>2. D \in SUBSET (1 .. MaxChanges) /\ v \in [D -> Nat]
    BY <1>0
  <2>3. /\ changes' = changes + 1 /\ changes < MaxChanges
        /\ remote' \in PullRequest /\ remote'.comments = v /\ RunsMove
    BY <1>2, <2>1, <2>2
  <2>4. DOMAIN remote'.comments = D
    BY <2>3
  <2>5. WindowSuffices' => WindowSuffices
    BY <1>0, <1>1, <1>4, <2>4
  <2>6. \A b \in D : remote.comments[b] <= remote'.comments[b]
    BY <1>0, <2>3
  <2>7. CommentsMove
    BY <1>0, <1>4, <2>4, <2>5, <2>6 DEF CommentsMove
  <2> QED BY <2>3, <2>7
<1>5. ASSUME NEW c \in D, Changed([remote EXCEPT !.comments = [e \in DOMAIN @ \ {c} |-> @[e]]]),
             deleted' = deleted \cup {c}
      PROVE  Goal
  <2> DEFINE v == [e \in D \ {c} |-> remote.comments[e]]
  <2>1. Changed([remote EXCEPT !.comments = v])
    BY <1>5
  <2>2. D \ {c} \in SUBSET (1 .. MaxChanges) /\ v \in [D \ {c} -> Nat]
    BY <1>0
  <2>3. /\ changes' = changes + 1 /\ changes < MaxChanges
        /\ remote' \in PullRequest /\ remote'.comments = v /\ RunsMove
    BY <1>2, <2>1, <2>2
  <2>4. DOMAIN remote'.comments = D \ {c}
    BY <2>3
  <2>5. DOMAIN remote'.comments \cup deleted' = D \cup deleted
    BY <1>5, <2>4
  <2>6. WindowSuffices' => WindowSuffices
    BY <1>0, <1>1, <2>5
  <2>7. \A b \in D \ {c} : remote'.comments[b] = remote.comments[b] /\ remote.comments[b] \in Nat
    BY <1>0, <2>3
  <2>8. CommentsMove
    BY <1>0, <1>5, <2>4, <2>6, <2>7 DEF CommentsMove
  <2> QED BY <2>3, <2>8
<1> QED BY <1>3, <1>4, <1>5 DEF ChangeComments

(* A run starts under an id of its own, or goes on; a status takes the place of the last. *)
LEMMA ChecksStep ==
  ASSUME TypeOK, Sound(remote), ChangeChecks, UNCHANGED deleted
  PROVE  /\ changes' = changes + 1 /\ changes < MaxChanges
         /\ remote' \in PullRequest /\ CommentsMove /\ RunsMove
<1> DEFINE K == remote.checks
           Checks == [name : Name, workflow : Workflows, id : Nat, state : CheckState]
           Goal == /\ changes' = changes + 1 /\ changes < MaxChanges
                   /\ remote' \in PullRequest /\ CommentsMove /\ RunsMove
<1>0. /\ remote \in PullRequest /\ changes \in Nat /\ K \in SUBSET Checks
      /\ \A x \in K : x.id \in 0 .. changes /\ x.state \in Running \cup Result
      /\ \A x, y \in K : x.name \notin Status /\ x.name = y.name /\ x.id = y.id => x = y
  BY Fields, WindowAssumption DEF TypeOK, Sound
<1>1. ASSUME NEW v \in SUBSET Checks, Changed([remote EXCEPT !.checks = v])
      PROVE  /\ changes' = changes + 1 /\ changes < MaxChanges
             /\ remote' \in PullRequest /\ remote'.checks = v /\ remote'.head = remote.head /\ CommentsMove
  <2> DEFINE q == [remote EXCEPT !.checks = v]
  <2>1. q \in PullRequest /\ q.head = remote.head /\ q.checks = v /\ q.comments = remote.comments
    BY <1>0, UpdateRuns
  <2>2. changes' = changes + 1 /\ changes < MaxChanges /\ remote' = q
    BY <1>1 DEF Changed
  <2> HIDE DEF q
  <2> QED BY <2>1, <2>2, CommentsStay
<1>2. ASSUME NEW n \in Name, NEW w \in Workflow[n],
             Changed([remote EXCEPT !.checks = (@ \ {c \in @ : c.name = n /\ n \in Status}) \cup {Run(n, w)}])
      PROVE  Goal
  <2> DEFINE v == (K \ {c \in K : c.name = n /\ n \in Status}) \cup {Run(n, w)}
  <2>1. /\ Run(n, w) \in Checks /\ Run(n, w).name = n /\ Run(n, w).state = "QUEUED"
        /\ Run(n, w).id = IF n \in Status THEN 0 ELSE changes + 1
    <3> DEFINE i == IF n \in Status THEN 0 ELSE changes + 1
    <3>1. i \in Nat /\ "QUEUED" \in CheckState /\ w \in Workflows
      BY <1>0 DEF CheckState, Workflows
    <3>2. Run(n, w) = [name |-> n, workflow |-> w, id |-> i, state |-> "QUEUED"]
      BY DEF Run
    <3> HIDE DEF i
    <3>3. Run(n, w) \in Checks /\ Run(n, w).name = n /\ Run(n, w).state = "QUEUED" /\ Run(n, w).id = i
      BY <3>1, <3>2
    <3> QED BY <3>3 DEF i
  <2>2. v \in SUBSET Checks
    <3> HIDE DEF Checks
    <3> QED BY <1>0, <2>1
  <2>3. Changed([remote EXCEPT !.checks = v])
    BY <1>2
  <2>4. /\ changes' = changes + 1 /\ changes < MaxChanges
        /\ remote' \in PullRequest /\ remote'.checks = v /\ remote'.head = remote.head /\ CommentsMove
    BY <1>1, <2>2, <2>3
  <2>5. \A y \in v : y = Run(n, w) \/ y \in K
    OBVIOUS
  <2>6. \A x \in K : x.name \notin Status => x \in v
    OBVIOUS
  <2> HIDE DEF v
  <2>7. \A y \in v : y.id \in 0 .. changes + 1 /\ y.state \in Running \cup Result
    BY <1>0, <2>1, <2>5 DEF Running
  <2>8. \A x, y \in v : x.name \notin Status /\ x.name = y.name /\ x.id = y.id => x = y
    BY <1>0, <2>1, <2>5
  <2>9. \A x \in K : x.name \notin Status => \E y \in v : GoesOn(x, y)
    BY <2>6 DEF GoesOn
  <2>10. \A y \in v : y.name \notin Status => y.id = changes + 1 \/ \E x \in K : x.name = y.name /\ x.id = y.id
    BY <2>1, <2>5
  <2>11. RunsMove
    BY <2>4, <2>7, <2>8, <2>9, <2>10 DEF RunsMove
  <2> QED BY <2>4, <2>11
<1>3. ASSUME NEW c \in K, NEW s \in Result \cup {"IN_PROGRESS"}, c.state \in Running, c.state # s, Changed(Restate(c, s))
      PROVE  Goal
  <2> DEFINE d == [c EXCEPT !.state = s]
             v == (K \ {c}) \cup {d}
  <2>1. s \in CheckState
    BY DEF CheckState
  <2>2. c \in Checks
    <3> HIDE DEF Checks
    <3> QED BY <1>0
  <2>3. d \in Checks /\ d.name = c.name /\ d.id = c.id /\ d.state = s
    <3>1. /\ c.name \in Name /\ c.workflow \in Workflows /\ c.id \in Nat
          /\ d = [name |-> c.name, workflow |-> c.workflow, id |-> c.id, state |-> s]
      BY <2>2
    <3> HIDE DEF d
    <3> QED BY <2>1, <3>1
  <2> HIDE DEF d
  <2>4. v \in SUBSET Checks
    <3> HIDE DEF Checks
    <3> QED BY <1>0, <2>3
  <2>5. Changed([remote EXCEPT !.checks = v])
    BY <1>3 DEF Restate, d
  <2>6. /\ changes' = changes + 1 /\ changes < MaxChanges
        /\ remote' \in PullRequest /\ remote'.checks = v /\ remote'.head = remote.head /\ CommentsMove
    BY <1>1, <2>4, <2>5
  <2>7. d \in v /\ (\A y \in v : y = d \/ y \in K \ {c}) /\ (\A x \in K : x # c => x \in v)
    OBVIOUS
  <2> HIDE DEF v
  <2>8. \A y \in v : y.id \in 0 .. changes + 1 /\ y.state \in Running \cup Result
    BY <1>0, <2>3, <2>7 DEF Running
  <2>9. \A x, y \in v : x.name \notin Status /\ x.name = y.name /\ x.id = y.id => x = y
    BY <1>0, <2>3, <2>7
  <2>10. GoesOn(c, d)
    BY <1>3, <2>3 DEF GoesOn
  <2>11. \A x \in K : x # c => GoesOn(x, x)
    BY DEF GoesOn
  <2>12. \A x \in K : \E y \in v : GoesOn(x, y)
    BY <2>7, <2>10, <2>11
  <2>13. \A y \in v : \E x \in K : x.name = y.name /\ x.id = y.id
    BY <2>3, <2>7
  <2>14. RunsMove
    BY <2>6, <2>8, <2>9, <2>12, <2>13 DEF RunsMove
  <2> QED BY <2>6, <2>14
<1> QED BY <1>2, <1>3 DEF ChangeChecks, Running

(* Whatever happens on GitHub, edits and runs only go forward. *)
LEMMA GithubStep ==
  ASSUME TypeOK, Sound(remote), Github
  PROVE  /\ changes' = changes + 1 /\ changes < MaxChanges
         /\ remote' \in PullRequest /\ CommentsMove /\ RunsMove
BY CoreStep, CommentsStep, ChecksStep DEF Github

-----------------------------------------------------------------------------
(* What that means for those who lag behind                                  *)

(* A check as graphql.ts maps it. *)
LEMMA Mapped ==
  ASSUME NEW c \in [name : Name, workflow : Workflows, id : Nat, state : CheckState]
  PROVE  /\ ToCheck(c) \in [name : Name, workflow : Workflows, id : Nat, state : CheckState]
         /\ ToCheck(c).name = c.name /\ ToCheck(c).id = c.id /\ ToCheck(c).state = MapState(c.state)
<1>1. /\ c.name \in Name /\ c.workflow \in Workflows /\ c.id \in Nat
      /\ ToCheck(c) = [name |-> c.name, workflow |-> c.workflow, id |-> c.id, state |-> MapState(c.state)]
  BY DEF ToCheck
<1>2. MapState(c.state) \in CheckState
  BY DEF MapState, CheckState
<1> QED BY <1>1, <1>2

(* Results are the last stage. *)
LEMMA ResultStage ==
  ASSUME NEW s \in Result
  PROVE  Stage(MapState(s)) = 2
BY ResultAssumption DEF Stage, MapState

(* A run that goes on on GitHub goes on in the answers. *)
LEMMA GoesOnFollows ==
  ASSUME NEW x \in [name : Name, workflow : Workflows, id : Nat, state : CheckState],
         NEW y \in [name : Name, workflow : Workflows, id : Nat, state : CheckState], GoesOn(x, y)
  PROVE  Follows(ToCheck(x), ToCheck(y))
<1>1. /\ ToCheck(x).name = x.name /\ ToCheck(x).id = x.id /\ ToCheck(x).state = MapState(x.state)
      /\ ToCheck(y).name = y.name /\ ToCheck(y).id = y.id /\ ToCheck(y).state = MapState(y.state)
  BY Mapped
<1>2. CASE x = y
  BY <1>1, <1>2 DEF Follows
<1>3. CASE x.state \in Running /\ y.state \in Result \cup {"IN_PROGRESS"} /\ x.state # y.state
  <2>1. Stage(MapState("QUEUED")) = 0 /\ Stage(MapState("IN_PROGRESS")) = 1
    BY DEF Stage, MapState
  <2>2. y.state \in Result => Stage(MapState(y.state)) = 2
    BY ResultStage
  <2>3. Stage(MapState(x.state)) < Stage(MapState(y.state))
    BY <1>3, <2>1, <2>2 DEF Running
  <2> QED BY <1>1, <1>3, <2>3 DEF Follows, GoesOn
<1> QED BY <1>2, <1>3 DEF GoesOn

(* A run that goes on twice has gone on. *)
LEMMA FollowsTrans ==
  ASSUME NEW x, NEW y, NEW z, Follows(x, y), Follows(y, z)
  PROVE  Follows(x, z)
<1>1. Stage(x.state) \in Nat /\ Stage(y.state) \in Nat /\ Stage(z.state) \in Nat
  BY DEF Stage
<1>2. Stage(x.state) <= Stage(y.state) /\ Stage(y.state) <= Stage(z.state)
  BY <1>1 DEF Follows
<1> QED BY <1>1, <1>2 DEF Follows

(* The answer that gives all comments. *)
LEMMA AnswerFields ==
  ASSUME NEW r \in PullRequest
  PROVE  /\ AsAnswer(r) \in PullRequest
         /\ AsAnswer(r).head = r.head /\ AsAnswer(r).comments = r.comments
         /\ AsAnswer(r).checks = {ToCheck(c) : c \in r.checks}
<1>1. {ToCheck(c) : c \in r.checks} \in SUBSET [name : Name, workflow : Workflows, id : Nat, state : CheckState]
  BY Fields, Mapped
<1> QED BY <1>1, UpdateRuns DEF AsAnswer

(* What was ahead of a stays ahead when GitHub moves on. *)
LEMMA StaysBehind ==
  ASSUME TypeOK, Sound(remote), Github, NEW a \in PullRequest, Sound(a), Ahead(a, View)
  PROVE  Sound(a)' /\ Ahead(a, View)'
<1> DEFINE Checks == [name : Name, workflow : Workflows, id : Nat, state : CheckState]
<1>0. /\ remote \in PullRequest /\ remote' \in PullRequest
      /\ changes \in Nat /\ changes' = changes + 1 /\ CommentsMove /\ RunsMove
  BY GithubStep, WindowAssumption DEF TypeOK
<1>1. Sound(a)'
  <2>1. \A x \in a.checks : x.id \in 0 .. changes + 1
    BY <1>0 DEF Sound
  <2>2. DOMAIN a.comments \subseteq 1 .. changes + 1
    BY <1>0 DEF Sound
  <2> QED BY <1>0, <2>1, <2>2 DEF Sound
<1>2. /\ View.head = remote.head /\ View.comments = remote.comments
      /\ View.checks = {ToCheck(c) : c \in remote.checks}
  BY <1>0, AnswerFields DEF View
<1>3. /\ View'.head = remote'.head /\ View'.comments = remote'.comments
      /\ View'.checks = {ToCheck(c) : c \in remote'.checks}
  BY <1>0, AnswerFields DEF View
<1>4. /\ remote.head \in Nat /\ a.head \in Nat /\ remote.checks \in SUBSET Checks /\ remote'.checks \in SUBSET Checks
      /\ a.comments \in [DOMAIN a.comments -> Nat] /\ remote.comments \in [DOMAIN remote.comments -> Nat]
      /\ remote'.comments \in [DOMAIN remote'.comments -> Nat] /\ a.checks \in SUBSET Checks
  BY <1>0, Fields
<1>5. CommentsAhead(a, View)'
  <2>1. ASSUME NEW c \in DOMAIN a.comments, c \in DOMAIN remote'.comments PROVE a.comments[c] <= remote'.comments[c]
    <3>1. c # changes + 1
      BY <1>0 DEF Sound
    <3>2. c \in DOMAIN remote.comments /\ remote.comments[c] <= remote'.comments[c]
      BY <1>0, <2>1, <3>1 DEF CommentsMove
    <3>3. a.comments[c] <= remote.comments[c]
      BY <1>2, <3>2 DEF Ahead, CommentsAhead
    <3>4. a.comments[c] \in Nat /\ remote.comments[c] \in Nat /\ remote'.comments[c] \in Nat
      BY <1>4, <2>1, <3>2
    <3> QED BY <3>2, <3>3, <3>4
  <2>2. WindowSuffices' => DOMAIN a.comments \subseteq DOMAIN remote'.comments \cup deleted'
    BY <1>0, <1>2 DEF CommentsMove, Ahead, CommentsAhead
  <2> QED BY <1>3, <2>1, <2>2 DEF CommentsAhead
<1>6. RunsAhead(a, View)'
  <2>1. CASE remote'.head = remote.head + 1 /\ remote'.checks = {}
    <3>1. a.head < View'.head /\ View'.checks = {} /\ View'.head \in Nat
      BY <1>2, <1>3, <1>4, <2>1 DEF Ahead, RunsAhead
    <3> HIDE DEF View
    <3> QED BY <1>3, <1>4, <3>1 DEF RunsAhead
  <2>2. CASE /\ remote'.head = remote.head
             /\ \A x \in remote.checks : x.name \notin Status => \E y \in remote'.checks : GoesOn(x, y)
             /\ \A y \in remote'.checks : y.name \notin Status =>
                  y.id = changes + 1 \/ \E x \in remote.checks : x.name = y.name /\ x.id = y.id
    <3>1. View'.head = View.head
      BY <1>2, <1>3, <2>2
    <3>2. ASSUME a.head = View.head, NEW x \in a.checks, x.name \notin Unsteady
          PROVE  \E y \in View'.checks : Follows(x, y)
      <4>1. PICK y \in remote.checks : Follows(x, ToCheck(y))
        BY <1>2, <3>2 DEF Ahead, RunsAhead
      <4>2. y \in Checks /\ y.name \notin Status
        BY <1>4, <3>2, <4>1, Mapped DEF Follows, Unsteady
      <4>3. PICK z \in remote'.checks : GoesOn(y, z)
        BY <2>2, <4>2
      <4>4. Follows(ToCheck(y), ToCheck(z))
        BY <1>4, <4>2, <4>3, GoesOnFollows
      <4> QED BY <1>3, <4>1, <4>4, FollowsTrans
    <3>3. ASSUME a.head < View.head, NEW x \in a.checks, NEW y \in View'.checks, x.name \notin Status, y.name \notin Status
          PROVE  x.id < y.id
      <4>1. PICK z \in remote'.checks : y = ToCheck(z)
        BY <1>3
      <4>2. z \in Checks /\ y.name = z.name /\ y.id = z.id
        BY <1>4, <4>1, Mapped
      <4>3. CASE z.id = changes + 1
        <5>1. x.id \in 0 .. changes
          BY DEF Sound
        <5> QED BY <1>0, <4>2, <4>3, <5>1
      <4>4. CASE \E w \in remote.checks : w.name = z.name /\ w.id = z.id
        <5>1. PICK w \in remote.checks : w.name = z.name /\ w.id = z.id
          BY <4>4
        <5>2. ToCheck(w) \in View.checks /\ ToCheck(w).name = w.name /\ ToCheck(w).id = w.id
          BY <1>2, <1>4, Mapped
        <5> QED BY <3>3, <4>2, <5>1, <5>2 DEF Ahead, RunsAhead
      <4> QED BY <2>2, <3>3, <4>2, <4>3, <4>4
    <3> QED BY <3>1, <3>2, <3>3 DEF Ahead, RunsAhead
  <2> QED BY <1>0, <2>1, <2>2 DEF RunsMove
<1> QED BY <1>1, <1>5, <1>6 DEF Ahead

(* So does what was ahead among those who wait. *)
LEMMA StaysAhead ==
  ASSUME CommentsMove, NEW a, NEW b, Ahead(a, b)
  PROVE  Ahead(a, b)'
<1>1. RunsAhead(a, b)'
  BY DEF Ahead, RunsAhead, Follows, Stage
<1>2. CommentsAhead(a, b)'
  BY DEF Ahead, CommentsAhead, CommentsMove
<1> QED BY <1>1, <1>2 DEF Ahead

-----------------------------------------------------------------------------
(* The answer                                                                *)

LEMMA FewerThan ==
  ASSUME NEW E, IsFiniteSet(E), NEW x \in E, NEW N \in Nat, Cardinality(E) <= N, NEW C \in SUBSET (E \ {x})
  PROVE  Cardinality(C) < N
<1>1. IsFiniteSet(E \ {x}) /\ Cardinality(E \ {x}) = Cardinality(E) - 1
  BY FS_RemoveElement
<1>2. Cardinality(C) <= Cardinality(E \ {x}) /\ IsFiniteSet(C)
  BY <1>1, FS_Subset
<1>3. Cardinality(C) \in Nat /\ Cardinality(E) \in Nat
  BY <1>2, FS_CardinalityType
<1> QED BY <1>1, <1>2, <1>3

(* An answer holds all comments as long as there were never more than it holds. *)
LEMMA AllVisible ==
  ASSUME TypeOK, Sound(remote), WindowSuffices
  PROVE  Visible(remote.comments) = DOMAIN remote.comments
<1> DEFINE D == DOMAIN remote.comments
<1>1. IsFiniteSet(D) /\ D \subseteq 1 .. MaxChanges /\ {Window, Threads, PerThread} \subseteq Nat
  BY IdsAreFinite, Fields, FS_Subset, WindowAssumption DEF TypeOK
<1>2. Suffice(D)
  BY IdsAreFinite, FewerSuffice DEF WindowSuffices
<1> HIDE DEF D
<1>3. \A t : IsFiniteSet(InThread(D, t))
  BY <1>1, FS_Subset DEF InThread
<1>4. ASSUME NEW c \in InThread(D, 0) PROVE Cardinality({e \in InThread(D, 0) : e > c}) < Window
  <2>1. {e \in InThread(D, 0) : e > c} \subseteq InThread(D, 0) \ {c}
    BY <1>1 DEF InThread
  <2> QED BY <1>1, <1>2, <1>3, <2>1, FewerThan DEF Suffice
<1>5. ASSUME NEW c \in D, Thread[c] # 0
      PROVE  /\ Cardinality({t \in ThreadsOf(D) : t > Thread[c]}) < Threads
             /\ Cardinality({e \in InThread(D, Thread[c]) : e < c}) < PerThread
  <2>1. Thread[c] \in ThreadsOf(D) /\ c \in InThread(D, Thread[c]) /\ Thread[c] \in Nat
    BY <1>1, <1>5, ThreadAssumption DEF ThreadsOf, InThread
  <2>2. {t \in ThreadsOf(D) : t > Thread[c]} \subseteq ThreadsOf(D) \ {Thread[c]}
    BY <2>1
  <2>3. {e \in InThread(D, Thread[c]) : e < c} \subseteq InThread(D, Thread[c]) \ {c}
    BY <1>1, <2>1 DEF InThread
  <2>4. IsFiniteSet(ThreadsOf(D))
    BY <1>1, ThreadsAreFinite
  <2>5. Cardinality({t \in ThreadsOf(D) : t > Thread[c]}) < Threads
    BY <1>1, <1>2, <2>1, <2>2, <2>4, FewerThan DEF Suffice
  <2>6. Cardinality({e \in InThread(D, Thread[c]) : e < c}) < PerThread
    BY <1>1, <1>2, <1>3, <2>1, <2>3, FewerThan DEF Suffice
  <2> QED BY <2>5, <2>6
<1>6. Visible(remote.comments) = D
  <2>1. \A c \in D : c \in InThread(D, 0) <=> Thread[c] = 0
    BY DEF InThread
  <2>2. InThread(D, 0) \subseteq D
    BY DEF InThread
  <2> QED BY <1>4, <1>5, <2>1, <2>2 DEF Visible, D
<1> QED BY <1>6 DEF D

IsAnswer(A) ==
  /\ A \in PullRequest /\ A.head = remote.head
  /\ A.checks \subseteq View.checks /\ \A x \in View.checks : x.name \notin Dropped => x \in A.checks
  /\ A.comments = [c \in Visible(remote.comments) |-> remote.comments[c]]
  /\ A.merge # "UNKNOWN" => A.stable = A.merge

(* What Answer puts into the poll is an answer. *)
LEMMA AnswerStep ==
  ASSUME TypeOK, NEW d \in Poller, Answer(d)
  PROVE  \E A : /\ IsAnswer(A)
                /\ poll' = [poll EXCEPT ![d] = [phase |-> "answered", prev |-> poll[d].prev, answer |-> A]]
<1>1. /\ remote \in PullRequest /\ poll[d] \in Polls /\ poll[d].prev \in PullRequest \cup {None}
      /\ poll \in [Poller -> Polls]
  BY DEF TypeOK, Polls
<1>2. PICK m \in {remote.merge, "UNKNOWN"}, lacking \in SUBSET Dropped :
        LET prev == poll[d].prev
            stable == IF m # "UNKNOWN" THEN m ELSE IF prev = None THEN None ELSE prev.stable
        IN  poll' = [poll EXCEPT ![d] =
              [phase |-> "answered", prev |-> prev,
               answer |-> [remote EXCEPT !.merge = m, !.stable = stable,
                                         !.checks = {ToCheck(c) : c \in {x \in @ : x.name \notin lacking}},
                                         !.comments = [c \in Visible(remote.comments) |-> remote.comments[c]]]]]
  BY DEF Answer
<1> DEFINE prev == poll[d].prev
           stable == IF m # "UNKNOWN" THEN m ELSE IF prev = None THEN None ELSE prev.stable
           k == {ToCheck(c) : c \in {x \in remote.checks : x.name \notin lacking}}
           v == [c \in Visible(remote.comments) |-> remote.comments[c]]
           A == [remote EXCEPT !.merge = m, !.stable = stable, !.checks = k, !.comments = v]
<1>3. m \in Merge \cup {"UNKNOWN"} /\ stable \in Merge \cup {None} /\ (m # "UNKNOWN" => stable = m)
  BY <1>1, Fields
<1>4. /\ k \in SUBSET [name : Name, workflow : Workflows, id : Nat, state : CheckState]
      /\ k \subseteq View.checks /\ \A x \in View.checks : x.name \notin Dropped => x \in k
  <2>1. View.checks = {ToCheck(c) : c \in remote.checks}
    BY <1>1, AnswerFields DEF View
  <2>2. \A c \in remote.checks : ToCheck(c).name = c.name
    BY DEF ToCheck
  <2>3. View.checks \in SUBSET [name : Name, workflow : Workflows, id : Nat, state : CheckState]
    BY <1>1, Fields, AnswerFields DEF View
  <2> HIDE DEF View
  <2> QED BY <2>1, <2>2, <2>3
<1>5. Visible(remote.comments) \in SUBSET (1 .. MaxChanges) /\ v \in [Visible(remote.comments) -> Nat]
  <2>1. DOMAIN remote.comments \subseteq 1 .. MaxChanges /\ remote.comments \in [DOMAIN remote.comments -> Nat]
    BY <1>1, Fields
  <2> QED BY <2>1 DEF Visible, InThread
<1>6. poll' = [poll EXCEPT ![d] = [phase |-> "answered", prev |-> prev, answer |-> A]]
  BY <1>2
<1> HIDE DEF stable, k, v
<1>9. A \in PullRequest /\ A.head = remote.head /\ A.merge = m /\ A.stable = stable /\ A.checks = k /\ A.comments = v
  <2> DEFINE Reviews == UNION {[R -> {"APPROVED", "DISMISSED"}] : R \in SUBSET Review}
             Comments == UNION {[C -> Nat] : C \in SUBSET (1 .. MaxChanges)}
             Checks == SUBSET [name : Name, workflow : Workflows, id : Nat, state : CheckState]
             Logins == SUBSET Login
             All == [state : {"OPEN", "MERGED", "CLOSED"}, draft : BOOLEAN, head : Nat, merge : Merge \cup {"UNKNOWN"},
                     stable : Merge \cup {None}, decision : Decision \cup {None}, requests : Logins,
                     reviews : Reviews, comments : Comments, checks : Checks]
  <2>1. v \in Comments /\ k \in Checks
    BY <1>4, <1>5
  <2>2. PullRequest = All
    BY DEF PullRequest
  <2> HIDE DEF Reviews, Comments, Checks, Logins
  <2>3. remote \in All
    BY <1>1, <2>2
  <2>4. m \in Merge \cup {"UNKNOWN"} /\ stable \in Merge \cup {None}
    BY <1>3
  <2> QED BY <2>1, <2>2, <2>3, <2>4
<1> HIDE DEF A
<1>10. IsAnswer(A)
  BY <1>3, <1>4, <1>9 DEF IsAnswer, v
<1> QED BY <1>6, <1>10

(* An answer is GitHub's, with every comment as long as the window suffices. *)
LEMMA AnswerIsAhead ==
  ASSUME TypeOK, Sound(remote), NEW A, IsAnswer(A)
  PROVE  /\ Sound(A) /\ Ahead(A, View)
         /\ \A a \in PullRequest : Ahead(a, View) => Ahead(a, A)
<1> DEFINE Checks == [name : Name, workflow : Workflows, id : Nat, state : CheckState]
<1>0. /\ remote \in PullRequest /\ A \in PullRequest /\ changes \in Nat
      /\ View.head = remote.head /\ View.comments = remote.comments
      /\ View.checks = {ToCheck(c) : c \in remote.checks}
  BY AnswerFields, WindowAssumption DEF TypeOK, View, IsAnswer
<1>1. /\ A.head = View.head /\ A.head \in Nat
      /\ A.checks \subseteq View.checks /\ \A x \in View.checks : x.name \notin Dropped => x \in A.checks
      /\ DOMAIN A.comments \subseteq DOMAIN remote.comments
      /\ \A c \in DOMAIN A.comments : A.comments[c] = remote.comments[c]
      /\ WindowSuffices => DOMAIN A.comments = DOMAIN remote.comments
  <2>1. A.comments = [c \in Visible(remote.comments) |-> remote.comments[c]]
    BY DEF IsAnswer
  <2>2. Visible(remote.comments) \subseteq DOMAIN remote.comments
    BY DEF Visible, InThread
  <2> QED BY <1>0, <2>1, <2>2, AllVisible, Fields DEF IsAnswer
<1>2. remote.checks \in SUBSET Checks /\ A.comments \in [DOMAIN A.comments -> Nat]
  BY <1>0, Fields
<1>3. Sound(A)
  <2>1. DOMAIN A.comments \subseteq 1 .. changes
    BY <1>1 DEF Sound
  <2>2. \A x \in A.checks : x.id \in 0 .. changes
    BY <1>0, <1>1, <1>2, Mapped DEF Sound
  <2>3. ASSUME NEW x \in A.checks, NEW y \in A.checks, x.name \notin Status, x.name = y.name, x.id = y.id
        PROVE  x = y
    <3>1. PICK v \in remote.checks, w \in remote.checks : x = ToCheck(v) /\ y = ToCheck(w)
      BY <1>0, <1>1
    <3>2. v.name = x.name /\ w.name = y.name /\ v.id = x.id /\ w.id = y.id
      BY <1>2, <3>1, Mapped
    <3>3. v = w
      BY <2>3, <3>2 DEF Sound
    <3> QED BY <3>1, <3>3
  <2> QED BY <2>1, <2>2, <2>3 DEF Sound
<1>4. Ahead(A, View)
  <2>1. RunsAhead(A, View)
    <3>1. \A x \in A.checks : Follows(x, x)
      BY DEF Follows
    <3> QED BY <1>1, <3>1 DEF RunsAhead
  <2>2. CommentsAhead(A, View)
    BY <1>0, <1>1, <1>2 DEF CommentsAhead
  <2> QED BY <2>1, <2>2 DEF Ahead
<1>5. ASSUME NEW a \in PullRequest, Ahead(a, View)
      PROVE  Ahead(a, A)
  <2>1. RunsAhead(a, A)
    <3>1. ASSUME NEW x \in a.checks, x.name \notin Unsteady, NEW y \in View.checks, Follows(x, y)
          PROVE  y \in A.checks
      BY <1>1, <3>1 DEF Follows, Unsteady
    <3> HIDE DEF View
    <3> QED BY <1>1, <1>5, <3>1 DEF Ahead, RunsAhead
  <2>2. CommentsAhead(a, A)
    BY <1>0, <1>1, <1>5 DEF Ahead, CommentsAhead
  <2> QED BY <2>1, <2>2 DEF Ahead
<1> QED BY <1>3, <1>4, <1>5

-----------------------------------------------------------------------------
(* The views lag behind in every state                                       *)

VInv == TypeOK /\ Views

(* At first nobody has a view that could be ahead. *)
LEMMA ViewsInit == Init => VInv
<1> SUFFICES ASSUME Init PROVE VInv
  OBVIOUS
<1>1. PICK m \in Merge :
        remote = [state |-> "OPEN", draft |-> FALSE, head |-> 1, merge |-> m, stable |-> None, decision |-> None,
                  requests |-> {}, reviews |-> [r \in {} |-> None], comments |-> [c \in {} |-> 0], checks |-> {}]
  BY DEF Init
<1>2. /\ changes = 0 /\ snapshot = None /\ poll = [d \in Poller |-> NoPoll] /\ deleted = {}
  BY DEF Init
<1>3. remote \in PullRequest /\ remote.comments = [c \in {} |-> 0] /\ remote.checks = {}
  <2> DEFINE Reviews == UNION {[R -> {"APPROVED", "DISMISSED"}] : R \in SUBSET Review}
             Comments == UNION {[C -> Nat] : C \in SUBSET (1 .. MaxChanges)}
             Checks == SUBSET [name : Name, workflow : Workflows, id : Nat, state : CheckState]
             Logins == SUBSET Login
             reviews == [r \in {} |-> None]
             comments == [c \in {} |-> 0]
  <2>1. reviews \in Reviews
    <3>1. reviews \in [{} -> {"APPROVED", "DISMISSED"}] /\ {} \in SUBSET Review
      OBVIOUS
    <3> QED BY <3>1
  <2>2. comments \in Comments
    <3>1. comments \in [{} -> Nat] /\ {} \in SUBSET (1 .. MaxChanges)
      OBVIOUS
    <3> QED BY <3>1
  <2>3. {} \in Checks /\ {} \in Logins
    OBVIOUS
  <2>4. PullRequest = [state : {"OPEN", "MERGED", "CLOSED"}, draft : BOOLEAN, head : Nat, merge : Merge \cup {"UNKNOWN"},
                       stable : Merge \cup {None}, decision : Decision \cup {None}, requests : Logins,
                       reviews : Reviews, comments : Comments, checks : Checks]
    BY DEF PullRequest
  <2>5. remote = [state |-> "OPEN", draft |-> FALSE, head |-> 1, merge |-> m, stable |-> None, decision |-> None,
                  requests |-> {}, reviews |-> reviews, comments |-> comments, checks |-> {}]
    BY <1>1
  <2> HIDE DEF Reviews, Comments, Checks, Logins, reviews
  <2>6. comments = [c \in {} |-> 0]
    OBVIOUS
  <2> HIDE DEF comments
  <2> QED BY <2>1, <2>2, <2>3, <2>4, <2>5, <2>6
<1>4. DOMAIN remote.comments = {}
  BY <1>3
<1>5. NoPoll \in Polls /\ NoPoll.phase = "idle"
  BY DEF NoPoll, Polls
<1>6. \A d \in Poller : poll[d] = NoPoll
  BY <1>2
<1>7. TypeOK
  BY <1>2, <1>3, <1>4, <1>5, <1>6, WindowAssumption DEF TypeOK
<1>8. Sound(remote)
  BY <1>3, <1>4 DEF Sound
<1> QED BY <1>2, <1>5, <1>6, <1>7, <1>8 DEF VInv, Views

(* A poll begins with the snapshot. *)
LEMMA ReadKeepsViews ==
  ASSUME VInv, OnePoller, NEW d \in Poller, Read(d)
  PROVE  VInv'
<1> USE DEF VInv
<1> DEFINE q == [NoPoll EXCEPT !.phase = "asking", !.prev = snapshot]
<1>1. /\ q \in Polls /\ q.phase = "asking" /\ q.prev = snapshot
  BY DEF NoPoll, Polls, TypeOK
<1>2. poll' = [poll EXCEPT ![d] = q] /\ UNCHANGED <<remote, changes, snapshot, deleted>>
  BY DEF Read
<1> HIDE DEF q
<1>3. poll' \in [Poller -> Polls] /\ \A c \in Poller : poll'[c].phase = "asking" /\ poll'[c].prev = snapshot
  <2>1. poll \in [Poller -> Polls]
    BY DEF TypeOK
  <2>2. poll' \in [Poller -> Polls]
    BY <1>1, <1>2, <2>1
  <2>3. poll'[d] = q
    BY <1>2, <2>1
  <2>4. \A c \in Poller : poll'[c] = q
    BY <2>3 DEF OnePoller
  <2> QED BY <1>1, <2>2, <2>4
<1>4. TypeOK'
  BY <1>2, <1>3 DEF TypeOK
<1>5. Sound(remote)' /\ (snapshot # None => Sound(snapshot) /\ Ahead(snapshot, View))'
  BY <1>2 DEF Views, Sound, Ahead, RunsAhead, CommentsAhead, View, WindowSuffices
<1> QED BY <1>2, <1>3, <1>4, <1>5 DEF Views

(* An answer is ahead of the snapshot and behind GitHub. *)
LEMMA AnswerKeepsViews ==
  ASSUME VInv, OnePoller, NEW d \in Poller, Answer(d)
  PROVE  VInv'
<1> USE DEF VInv
<1>1. PICK A : /\ IsAnswer(A)
               /\ poll' = [poll EXCEPT ![d] = [phase |-> "answered", prev |-> poll[d].prev, answer |-> A]]
  BY AnswerStep
<1>2. UNCHANGED <<remote, changes, snapshot, deleted>> /\ poll[d].phase = "asking"
  BY DEF Answer
<1>3. poll[d].prev = snapshot /\ snapshot \in PullRequest \cup {None} /\ A \in PullRequest
  BY <1>1, <1>2 DEF Views, TypeOK, IsAnswer
<1>4. Sound(A) /\ Ahead(A, View) /\ (snapshot # None => Ahead(snapshot, A))
  <2>1. Sound(A) /\ Ahead(A, View) /\ \A a \in PullRequest : Ahead(a, View) => Ahead(a, A)
    BY <1>1, AnswerIsAhead DEF Views
  <2>2. snapshot # None => snapshot \in PullRequest /\ Ahead(snapshot, View)
    BY <1>3 DEF Views
  <2> QED BY <2>1, <2>2, Zenon
<1>5. A.merge # "UNKNOWN" => A.stable = A.merge
  BY <1>1 DEF IsAnswer
<1>6. \A c \in Poller : poll'[c] = [phase |-> "answered", prev |-> snapshot, answer |-> A]
  BY <1>1, <1>3 DEF TypeOK, OnePoller
<1>7. [phase |-> "answered", prev |-> snapshot, answer |-> A] \in Polls
  BY <1>3 DEF Polls
<1>8. poll' \in [Poller -> Polls]
  BY <1>1, <1>3, <1>7 DEF TypeOK
<1>9. \A c \in Poller : poll'[c].phase = "answered" /\ poll'[c].prev = snapshot /\ poll'[c].answer = A
  BY <1>6
<1>10. TypeOK'
  BY <1>2, <1>3, <1>8, <1>9 DEF TypeOK
<1>11. /\ Sound(remote)' /\ (snapshot # None => Sound(snapshot) /\ Ahead(snapshot, View))'
       /\ Sound(A)' /\ Ahead(A, View)' /\ (snapshot # None => Ahead(snapshot, A))'
  BY <1>2, <1>4 DEF Views, Sound, Ahead, RunsAhead, CommentsAhead, View, WindowSuffices
<1> QED BY <1>2, <1>5, <1>9, <1>10, <1>11 DEF Views

(* The answer becomes the snapshot. *)
LEMMA SaveKeepsViews ==
  ASSUME VInv, OnePoller, NEW d \in Poller, Save(d)
  PROVE  VInv'
<1> USE DEF VInv
<1>1. /\ poll[d].phase = "answered" /\ snapshot' = poll[d].answer
      /\ poll' = [poll EXCEPT ![d] = NoPoll] /\ UNCHANGED <<remote, changes, deleted>>
  BY DEF Save
<1>2. PICK A \in PullRequest : A = poll[d].answer
  BY <1>1 DEF TypeOK
<1>3. Sound(A) /\ Ahead(A, View)
  BY <1>1, <1>2 DEF Views
<1>4. NoPoll \in Polls /\ NoPoll.phase = "idle"
  BY DEF NoPoll, Polls
<1>5. poll' \in [Poller -> Polls] /\ \A c \in Poller : poll'[c].phase = "idle"
  BY <1>1, <1>4 DEF TypeOK, OnePoller
<1>6. TypeOK'
  BY <1>1, <1>2, <1>5 DEF TypeOK
<1>7. Sound(remote)' /\ Sound(A)' /\ Ahead(A, View)'
  BY <1>1, <1>3 DEF Views, Sound, Ahead, RunsAhead, CommentsAhead, View, WindowSuffices
<1> QED BY <1>1, <1>2, <1>5, <1>6, <1>7 DEF Views

(* GitHub only gets further ahead. *)
LEMMA GithubKeepsViews ==
  ASSUME VInv, Github, UNCHANGED <<snapshot, recorded, poll, told>>
  PROVE  VInv'
<1> USE DEF VInv
<1>1. /\ changes' = changes + 1 /\ changes < MaxChanges /\ changes \in Nat /\ MaxChanges \in Nat
      /\ remote' \in PullRequest /\ CommentsMove /\ RunsMove
  BY GithubStep, WindowAssumption DEF TypeOK, Views
<1>2. TypeOK'
  <2>1. changes' \in 0 .. MaxChanges
    BY <1>1
  <2>2. deleted' \subseteq (1 .. changes') \ DOMAIN remote'.comments
    BY <1>1 DEF CommentsMove
  <2>3. \A x \in remote'.checks : x.state \in Running \cup Result
    BY <1>1 DEF RunsMove
  <2> QED BY <1>1, <2>1, <2>2, <2>3 DEF TypeOK
<1>3. Sound(remote)'
  BY <1>1 DEF Sound, RunsMove, CommentsMove
<1>4. (snapshot # None => Sound(snapshot) /\ Ahead(snapshot, View))'
  <2> SUFFICES ASSUME snapshot # None PROVE (Sound(snapshot) /\ Ahead(snapshot, View))'
    OBVIOUS
  <2>1. PICK a \in PullRequest : a = snapshot
    BY DEF TypeOK
  <2>2. Sound(a)' /\ Ahead(a, View)'
    BY <2>1, StaysBehind DEF Views
  <2> QED BY <2>1, <2>2
<1>5. ASSUME NEW d \in Poller, poll[d].phase = "answered"
      PROVE  (/\ Sound(poll[d].answer) /\ Ahead(poll[d].answer, View)
              /\ snapshot # None => Ahead(snapshot, poll[d].answer)
              /\ poll[d].answer.merge # "UNKNOWN" => poll[d].answer.stable = poll[d].answer.merge)'
  <2>1. PICK A \in PullRequest : A = poll[d].answer
    BY <1>5 DEF TypeOK
  <2>2. Sound(A)' /\ Ahead(A, View)'
    BY <1>5, <2>1, StaysBehind DEF Views
  <2>3. A.merge # "UNKNOWN" => A.stable = A.merge
    BY <1>5, <2>1 DEF Views
  <2>4. (snapshot # None => Ahead(snapshot, A))'
    <3>1. PICK a : a = snapshot
      OBVIOUS
    <3>2. a # None => Ahead(a, A)
      BY <1>5, <2>1, <3>1 DEF Views
    <3>3. a # None => Ahead(a, A)'
      BY <1>1, <3>2, StaysAhead
    <3> QED BY <3>1, <3>3
  <2> QED BY <2>1, <2>2, <2>3, <2>4
<1>6. \A d \in Poller : poll'[d].phase # "idle" => poll'[d].prev = snapshot'
  BY DEF Views
<1> QED BY <1>2, <1>3, <1>4, <1>5, <1>6 DEF Views

(* No step gets ahead of what it read. *)
LEMMA ViewsStep ==
  ASSUME OnePoller
  PROVE  VInv /\ [Next]_vars => VInv'
<1> SUFFICES ASSUME VInv, [Next]_vars PROVE VInv'
  OBVIOUS
<1>1. ASSUME NEW d \in Poller, Read(d) \/ Answer(d) \/ Save(d) PROVE VInv'
  BY <1>1, ReadKeepsViews, AnswerKeepsViews, SaveKeepsViews
<1>2. CASE Github /\ UNCHANGED <<snapshot, recorded, poll, told>>
  BY <1>2, GithubKeepsViews
<1>3. CASE UNCHANGED vars
  BY <1>3 DEF vars, VInv, TypeOK, Views, Sound, Ahead, RunsAhead, CommentsAhead, View, WindowSuffices
<1> QED BY <1>1, <1>2, <1>3 DEF Next

(* With one poller, what is stored or answered lags behind GitHub, whatever happens there between polls. *)
THEOREM ViewsLagBehind ==
  ASSUME OnePoller
  PROVE  Spec => []VInv
<1> USE OnePoller
<1>1. Init => VInv
  BY ViewsInit
<1>2. VInv /\ [Next]_vars => VInv'
  BY ViewsStep
<1> QED BY <1>1, <1>2, PTL DEF Spec

-----------------------------------------------------------------------------
(* The invariant: what was recorded is settled                               *)

(* The edit k of comment c was seen: nobody will show an earlier one. *)
AtLeast(c, k) ==
  /\ c \in 1 .. changes /\ k \in Nat
  /\ c \in DOMAIN remote.comments => k <= remote.comments[c]
  /\ snapshot # None /\ c \in DOMAIN snapshot.comments => k <= snapshot.comments[c]
  /\ \A d \in Poller :
       poll[d].phase = "answered" /\ c \in DOMAIN poll[d].answer.comments => k <= poll[d].answer.comments[c]

(* Comment c has left for good. *)
Gone(c) ==
  /\ c \in deleted
  /\ c \notin DOMAIN snapshot.comments
  /\ \A d \in Poller : poll[d].phase = "answered" => c \notin DOMAIN poll[d].answer.comments

(* A run that was reported is in the snapshot, at least as far as it was then, or its head is left. *)
RunKept(k, m) ==
  m.thing.name \notin Unsteady =>
    /\ m.head \in 0 .. snapshot.head
    /\ m.head = snapshot.head =>
         \E x \in snapshot.checks : x.name = m.thing.name /\ x.id = m.thing.id /\ KindStage(k) <= Stage(x.state)

(* A comment that was reported was told as it is or was, and stays known until it is deleted. *)
CommentKept(k, m) ==
  /\ k \in Created =>
       /\ \E i \in Nat : <<m.thing.id, i>> \in told.comments /\ AtLeast(m.thing.id, i)
       /\ WindowSuffices => m.thing.id \in DOMAIN snapshot.comments \/ Gone(m.thing.id)
  /\ k \in Edited => <<m.thing.id, m.thing.at>> \in told.comments /\ AtLeast(m.thing.id, m.thing.at)
  /\ k \in Deleted => (WindowSuffices => Gone(m.thing.id))

Kept(k, m) ==
  /\ k \in CheckKinds => RunKept(k, m)
  /\ k \in CommentKinds => CommentKept(k, m)

Recorded ==
  /\ snapshot = None => recorded = {}
  /\ \A e \in recorded : \A m \in e.of : Kept(e.kind, m)

(* The kind under which a run is reported tells how far it is. *)
LEMMA ReportedStage ==
  ASSUME NEW checks, NEW n
  PROVE  KindStage(ReportedKind(checks, n)) = Stage(Representative(checks, n).state)
<1> DEFINE s == Representative(checks, n).state
<1>1. KindStage(CheckKind(s)) = Stage(s)
  BY DEF KindStage, CheckKind, Stage
<1>2. CheckKind(s) = "check.failed" => KindStage("check.cancelled") = Stage(s)
  BY DEF KindStage, CheckKind, Stage
<1>3. ReportedKind(checks, n) = CheckKind(s) \/ (CheckKind(s) = "check.failed" /\ ReportedKind(checks, n) = "check.cancelled")
  BY DEF ReportedKind
<1> HIDE DEF s
<1>4. KindStage(ReportedKind(checks, n)) = Stage(s)
  BY <1>1, <1>2, <1>3
<1> QED BY <1>4 DEF s

(* What keeps its runs, its edits and its deletions keeps what was recorded. *)
LEMMA StaysKept ==
  ASSUME NEW k, NEW m, Kept(k, m),
         RunKept(k, m) => RunKept(k, m)',
         \A c, i : AtLeast(c, i) => AtLeast(c, i)',
         \A c : Gone(c) => Gone(c)',
         told.comments \subseteq told'.comments,
         WindowSuffices' => WindowSuffices,
         WindowSuffices => \A c \in DOMAIN snapshot.comments : c \in DOMAIN snapshot'.comments \/ Gone(c)'
  PROVE  Kept(k, m)'
<1>1. CASE k \in Created /\ CommentKept(k, m)
  <2>1. PICK i \in Nat : <<m.thing.id, i>> \in told.comments /\ AtLeast(m.thing.id, i)
    BY <1>1 DEF CommentKept, Created, Edited, Deleted
  <2>2. <<m.thing.id, i>> \in told'.comments /\ AtLeast(m.thing.id, i)'
    BY <2>1
  <2>3. WindowSuffices' => m.thing.id \in DOMAIN snapshot'.comments \/ Gone(m.thing.id)'
    BY <1>1 DEF CommentKept, Created, Edited, Deleted
  <2>4. CommentKept(k, m)'
    BY <1>1, <2>2, <2>3 DEF CommentKept, Created, Edited, Deleted
  <2> QED BY <1>1, <2>4 DEF Kept, CheckKinds, Created, Edited, Deleted
<1>2. CASE k \in Edited /\ CommentKept(k, m)
  <2>1. <<m.thing.id, m.thing.at>> \in told'.comments /\ AtLeast(m.thing.id, m.thing.at)'
    BY <1>2 DEF CommentKept, Created, Edited, Deleted
  <2>2. CommentKept(k, m)'
    BY <1>2, <2>1 DEF CommentKept, Created, Edited, Deleted
  <2> QED BY <1>2, <2>2 DEF Kept, CheckKinds, Created, Edited, Deleted
<1>3. CASE k \in Deleted /\ CommentKept(k, m)
  <2>1. WindowSuffices' => Gone(m.thing.id)'
    BY <1>3 DEF CommentKept, Created, Edited, Deleted
  <2>2. CommentKept(k, m)'
    BY <1>3, <2>1 DEF CommentKept, Created, Edited, Deleted
  <2> QED BY <1>3, <2>2 DEF Kept, CheckKinds, Created, Edited, Deleted
<1>4. CASE k \notin CommentKinds
  BY <1>4 DEF Kept
<1> QED BY <1>1, <1>2, <1>3, <1>4 DEF Kept, CommentKinds, Created, Edited, Deleted

(* A read settles and unsettles nothing. *)
LEMMA ReadKeepsRecorded ==
  ASSUME VInv, Recorded, OnePoller, NEW d \in Poller, Read(d)
  PROVE  Recorded'
<1>1. UNCHANGED <<remote, changes, snapshot, recorded, told, deleted>>
  BY DEF Read
<1>2. \A c \in Poller : poll'[c].phase = "asking"
  <2>1. poll \in [Poller -> Polls] /\ poll' = [poll EXCEPT ![d] = [NoPoll EXCEPT !.phase = "asking", !.prev = snapshot]]
    BY DEF VInv, TypeOK, Read
  <2>2. poll'[d].phase = "asking"
    BY <2>1 DEF NoPoll
  <2> QED BY <2>2 DEF OnePoller
<1>3. \A c, i : AtLeast(c, i) => AtLeast(c, i)'
  BY <1>1, <1>2 DEF AtLeast
<1>4. \A c : Gone(c) => Gone(c)'
  BY <1>1, <1>2 DEF Gone
<1>5. \A k, m : RunKept(k, m) => RunKept(k, m)'
  BY <1>1 DEF RunKept
<1>6. (WindowSuffices' <=> WindowSuffices) /\ told.comments \subseteq told'.comments
  BY <1>1 DEF WindowSuffices
<1>7. \A e \in recorded : \A m \in e.of : Kept(e.kind, m)'
  BY <1>1, <1>3, <1>4, <1>5, <1>6, StaysKept DEF Recorded
<1> QED BY <1>1, <1>7 DEF Recorded

(* An answer shows no earlier edit, and no comment that is gone. *)
LEMMA AnswerKeepsRecorded ==
  ASSUME VInv, Recorded, OnePoller, NEW d \in Poller, Answer(d)
  PROVE  Recorded'
<1>0. TypeOK /\ poll \in [Poller -> Polls] /\ remote \in PullRequest
  BY DEF VInv, TypeOK
<1>1. UNCHANGED <<remote, changes, snapshot, recorded, told, deleted>>
  BY DEF Answer
<1>2. PICK A : /\ IsAnswer(A)
               /\ poll' = [poll EXCEPT ![d] = [phase |-> "answered", prev |-> poll[d].prev, answer |-> A]]
  BY <1>0, AnswerStep
<1>3. \A c \in Poller : poll'[c].answer = A
  <2>1. poll'[d].answer = A
    BY <1>0, <1>2
  <2> QED BY <2>1 DEF OnePoller
<1>4. \A c \in DOMAIN A.comments : c \in DOMAIN remote.comments /\ A.comments[c] = remote.comments[c]
  <2>1. A.comments = [c \in Visible(remote.comments) |-> remote.comments[c]]
    BY <1>2 DEF IsAnswer
  <2> QED BY <2>1 DEF Visible, InThread
<1>5. \A c, i : AtLeast(c, i) => AtLeast(c, i)'
  BY <1>1, <1>3, <1>4 DEF AtLeast
<1>6. \A c : Gone(c) => Gone(c)'
  BY <1>0, <1>1, <1>3, <1>4 DEF Gone, TypeOK
<1>7. \A k, m : RunKept(k, m) => RunKept(k, m)'
  BY <1>1 DEF RunKept
<1>8. (WindowSuffices' <=> WindowSuffices) /\ told.comments \subseteq told'.comments
  BY <1>1 DEF WindowSuffices
<1>9. \A e \in recorded : \A m \in e.of : Kept(e.kind, m)'
  BY <1>1, <1>5, <1>6, <1>7, <1>8, StaysKept DEF Recorded
<1> QED BY <1>1, <1>9 DEF Recorded

(* Neither does GitHub. *)
LEMMA GithubKeepsRecorded ==
  ASSUME VInv, Recorded, Github, UNCHANGED <<snapshot, recorded, poll, told>>
  PROVE  Recorded'
<1>1. /\ changes' = changes + 1 /\ changes \in Nat /\ CommentsMove
      /\ remote \in PullRequest /\ remote' \in PullRequest
  BY GithubStep, WindowAssumption DEF VInv, TypeOK, Views
<1>2. /\ remote.comments \in [DOMAIN remote.comments -> Nat]
      /\ remote'.comments \in [DOMAIN remote'.comments -> Nat]
  BY <1>1, Fields
<1>3. ASSUME NEW c, NEW i, AtLeast(c, i) PROVE AtLeast(c, i)'
  <2>1. c \in 1 .. changes' /\ i \in Nat /\ c # changes + 1
    BY <1>1, <1>3 DEF AtLeast
  <2>2. ASSUME c \in DOMAIN remote'.comments PROVE i <= remote'.comments[c]
    <3>1. c \in DOMAIN remote.comments /\ remote.comments[c] <= remote'.comments[c]
      BY <1>1, <2>1, <2>2 DEF CommentsMove
    <3>2. i <= remote.comments[c] /\ remote.comments[c] \in Nat /\ remote'.comments[c] \in Nat
      BY <1>2, <1>3, <2>2, <3>1 DEF AtLeast
    <3> QED BY <2>1, <3>1, <3>2
  <2> QED BY <1>3, <2>1, <2>2 DEF AtLeast
<1>4. \A c : Gone(c) => Gone(c)'
  BY <1>1 DEF Gone, CommentsMove
<1>5. \A k, m : RunKept(k, m) => RunKept(k, m)'
  BY DEF RunKept
<1>6. (WindowSuffices' => WindowSuffices) /\ told.comments \subseteq told'.comments
  BY <1>1 DEF CommentsMove
<1>7. \A e \in recorded : \A m \in e.of : Kept(e.kind, m)'
  BY <1>3, <1>4, <1>5, <1>6, StaysKept DEF Recorded
<1> QED BY <1>7 DEF Recorded

-----------------------------------------------------------------------------
(* The invariant: what a poll finds is news                                  *)

(* A run's event is not one that was recorded. *)
LEMMA RunsAreNew ==
  ASSUME VInv, Recorded, NEW A \in PullRequest, Sound(A), snapshot # None, Ahead(snapshot, A),
         NEW e \in DiffSnapshot(snapshot, A), e.kind \in CheckKinds, \E t \in Things(e) : t.name \notin Unsteady
  PROVE  e \notin recorded
<1> SUFFICES ASSUME e \in recorded PROVE FALSE
  OBVIOUS
<1>0. /\ snapshot \in PullRequest /\ Sound(snapshot) /\ changes \in Nat
      /\ RunsAhead(snapshot, A) /\ snapshot.head \in Nat /\ A.head \in Nat
      /\ snapshot.checks \in SUBSET [name : Name, workflow : Workflows, id : Nat, state : CheckState]
      /\ A.checks \in SUBSET [name : Name, workflow : Workflows, id : Nat, state : CheckState]
  BY Fields, WindowAssumption DEF VInv, TypeOK, Views, Ahead
<1>1. PICK m \in e.of : m.thing.name \notin Unsteady
  BY DEF Things
<1>2. PICK n \in Reported(snapshot, A) : e.kind = ReportedKind(A.checks, n) /\ m = RunMember(A, n)
  BY DiffFrom
<1> DEFINE r == Representative(A.checks, n)
           p == Representative(snapshot.checks, n)
<1>3. n \in Names(A.checks) /\ ~Same(snapshot.checks, A.checks, n)
  BY DEF Reported
<1>4. /\ r \in A.checks /\ r.name = n /\ \A o \in A.checks : o.name = n => o.id <= r.id
  BY <1>0, <1>3, RepresentativeIsNewest DEF Sound
<1>5. m.head = A.head /\ m.thing.name = n /\ m.thing.id = r.id /\ n \notin Unsteady /\ n \notin Status
  BY <1>1, <1>2 DEF RunMember, Thing, Unsteady
<1>6. KindStage(e.kind) = Stage(r.state)
  BY <1>2, ReportedStage
<1>7. RunKept(e.kind, m)
  BY DEF Recorded, Kept
<1> HIDE DEF r, p
<1>8. snapshot.head = A.head /\ m.head = snapshot.head
  BY <1>0, <1>5, <1>7 DEF RunKept, RunsAhead
<1>9. PICK x \in snapshot.checks : x.name = n /\ x.id = r.id /\ Stage(r.state) <= Stage(x.state)
  BY <1>5, <1>6, <1>7, <1>8 DEF RunKept
<1>10. x.state = r.state
  <2>1. PICK y \in A.checks : Follows(x, y)
    BY <1>0, <1>5, <1>8, <1>9 DEF RunsAhead
  <2>2. y = r
    BY <1>4, <1>5, <1>9, <2>1 DEF Follows, Sound
  <2>3. Stage(x.state) \in Nat /\ Stage(r.state) \in Nat
    BY DEF Stage
  <2> QED BY <1>9, <2>1, <2>2, <2>3 DEF Follows
<1>11. n \in Names(snapshot.checks)
  BY <1>9 DEF Names
<1>12. p \in snapshot.checks /\ p.name = n /\ \A o \in snapshot.checks : o.name = n => o.id <= p.id
  BY <1>0, <1>11, RepresentativeIsNewest DEF Sound, p
<1>13. p = x
  <2>1. PICK y \in A.checks : Follows(p, y)
    BY <1>0, <1>5, <1>8, <1>12 DEF RunsAhead
  <2>2. p.id <= r.id
    BY <1>4, <1>12, <2>1 DEF Follows
  <2>3. r.id <= p.id /\ r.id \in Nat /\ p.id \in Nat
    BY <1>0, <1>4, <1>9, <1>12
  <2>4. p.id = x.id
    BY <1>9, <2>2, <2>3
  <2> QED BY <1>0, <1>5, <1>9, <1>12, <2>4 DEF Sound
<1>14. Same(snapshot.checks, A.checks, n)
  BY <1>9, <1>10, <1>11, <1>13 DEF Same, r, p
<1> QED BY <1>3, <1>14

(* Neither is a comment's, as long as it did not leave the answers and come back. *)
LEMMA CommentsAreNew ==
  ASSUME VInv, Recorded, NEW d \in Poller, poll[d].phase = "answered",
         NEW A \in PullRequest, A = poll[d].answer, snapshot # None,
         NEW e \in DiffSnapshot(snapshot, A), e.kind \in CommentKinds,
         e.kind \in Edited \/ WindowSuffices
  PROVE  e \notin recorded
<1> SUFFICES ASSUME e \in recorded PROVE FALSE
  OBVIOUS
<1>0. /\ snapshot \in PullRequest
      /\ snapshot.comments \in [DOMAIN snapshot.comments -> Nat] /\ A.comments \in [DOMAIN A.comments -> Nat]
      /\ CommentsAhead(snapshot, A)
  BY Fields DEF VInv, TypeOK, Views, Ahead
<1>1. PICK m \in e.of : CommentMember(snapshot, A, e.kind, m)
  BY DiffFrom
<1>2. CommentKept(e.kind, m)
  BY DEF Recorded, Kept
<1> DEFINE c == m.thing.id
<1>3. CASE e.kind \in Created
  <2>1. c \in DOMAIN A.comments /\ c \notin DOMAIN snapshot.comments
    BY <1>1, <1>3 DEF CommentMember, Created, Edited, Deleted
  <2>2. c \in DOMAIN snapshot.comments \/ Gone(c)
    BY <1>2, <1>3 DEF CommentKept, Created, Edited, Deleted
  <2> QED BY <2>1, <2>2 DEF Gone
<1>4. CASE e.kind \in Edited
  <2>1. /\ c \in DOMAIN A.comments /\ c \in DOMAIN snapshot.comments
        /\ m.thing.at = A.comments[c] /\ m.thing.at # snapshot.comments[c]
    BY <1>1, <1>4 DEF CommentMember, Created, Edited, Deleted
  <2>2. AtLeast(c, m.thing.at)
    BY <1>2, <1>4 DEF CommentKept, Created, Edited, Deleted
  <2>3. m.thing.at <= snapshot.comments[c] /\ snapshot.comments[c] <= A.comments[c]
    BY <1>0, <2>1, <2>2 DEF AtLeast, CommentsAhead
  <2>4. A.comments[c] \in Nat /\ snapshot.comments[c] \in Nat
    BY <1>0, <2>1
  <2> QED BY <2>1, <2>3, <2>4
<1>5. CASE e.kind \in Deleted
  <2>1. c \in DOMAIN snapshot.comments
    BY <1>1, <1>5 DEF CommentMember, Created, Edited, Deleted
  <2>2. Gone(c)
    BY <1>2, <1>5 DEF CommentKept, Created, Edited, Deleted
  <2> QED BY <2>1, <2>2 DEF Gone
<1> QED BY <1>3, <1>4, <1>5 DEF CommentKinds, Created, Edited, Deleted

(* What has an identity of its own is not recorded before it is found. *)
LEMMA FoundAreNew ==
  ASSUME VInv, Recorded
  PROVE  ChecksAndCommentsAreNew
<1> SUFFICES ASSUME NEW d \in Poller, poll[d].phase = "answered",
                    NEW e \in DiffSnapshot(poll[d].prev, poll[d].answer), HasIdentity(e), Known(e)
             PROVE  FALSE
  BY DEF ChecksAndCommentsAreNew
<1>1. poll[d].prev = snapshot
  BY DEF VInv, Views
<1>2. PICK A \in PullRequest : A = poll[d].answer
  BY DEF VInv, TypeOK
<1>3. snapshot # None
  BY DEF Recorded, Known
<1>4. Sound(A) /\ Ahead(snapshot, A)
  BY <1>2, <1>3 DEF VInv, Views
<1>5. e \in recorded
  BY <1>1, <1>3, DiffFrom, KnownIsRecorded
<1>6. CASE e.kind \in CheckKinds /\ \E t \in Things(e) : t.name \notin Unsteady
  BY <1>1, <1>2, <1>3, <1>4, <1>5, <1>6, RunsAreNew
<1>7. CASE e.kind \in CommentKinds /\ (e.kind \in Edited \/ WindowSuffices)
  BY <1>1, <1>2, <1>3, <1>5, <1>7, CommentsAreNew
<1> QED BY <1>6, <1>7 DEF HasIdentity, CommentKinds, Created, Edited, Deleted

-----------------------------------------------------------------------------
(* A poll that ends                                                          *)

NewEvents(A) == {e \in DiffSnapshot(snapshot, A) : ~Known(e)}

(* What the save of an answer A changes. *)
LEMMA SaveStep ==
  ASSUME VInv, OnePoller, NEW d \in Poller, Save(d)
  PROVE  \E A \in PullRequest :
           /\ poll[d].phase = "answered" /\ A = poll[d].answer
           /\ snapshot' = A /\ recorded' = recorded \cup NewEvents(A) /\ told' = Told(NewEvents(A), A)
           /\ UNCHANGED <<remote, changes, deleted>>
           /\ \A c \in Poller : poll'[c].phase = "idle"
           /\ Sound(A) /\ Ahead(A, View) /\ (snapshot # None => snapshot \in PullRequest /\ Ahead(snapshot, A))
<1>1. PICK A \in PullRequest : poll[d].phase = "answered" /\ A = poll[d].answer
  BY DEF VInv, TypeOK, Save
<1>2. poll[d].prev = snapshot
  BY <1>1 DEF VInv, Views
<1>3. /\ snapshot' = A /\ recorded' = recorded \cup NewEvents(A) /\ told' = Told(NewEvents(A), A)
      /\ UNCHANGED <<remote, changes, deleted>>
  BY <1>1, <1>2 DEF Save, NewEvents
<1>4. \A c \in Poller : poll'[c].phase = "idle"
  <2>1. poll \in [Poller -> Polls] /\ poll' = [poll EXCEPT ![d] = NoPoll]
    BY DEF VInv, TypeOK, Save
  <2>2. poll'[d].phase = "idle"
    BY <2>1 DEF NoPoll
  <2> QED BY <2>2 DEF OnePoller
<1>5. Sound(A) /\ Ahead(A, View) /\ (snapshot # None => snapshot \in PullRequest /\ Ahead(snapshot, A))
  BY <1>1 DEF VInv, TypeOK, Views
<1> QED BY <1>1, <1>3, <1>4, <1>5

(* The first event names no runs and comments by their ids. *)
LEMMA FirstEvents ==
  ASSUME NEW A, NEW e \in Initialized(A)
  PROVE  e.kind \notin CheckKinds \cup CommentKinds \cup ConflictKinds /\ e.kind # "pr.synchronized"
<1>1. e.kind \in {"pr.snapshot.initialized", "pr.merged"}
  BY DEF Initialized, On, Plain, Event
<1> QED BY <1>1 DEF CheckKinds, CommentKinds, Created, Edited, Deleted, ConflictKinds

(* What a diff finds is kept once it is in the snapshot and told. *)
LEMMA NewIsKept ==
  ASSUME VInv, Recorded, OnePoller, NEW d \in Poller, Save(d), NEW A \in PullRequest,
         /\ poll[d].phase = "answered" /\ A = poll[d].answer
         /\ snapshot' = A /\ recorded' = recorded \cup NewEvents(A) /\ told' = Told(NewEvents(A), A)
         /\ UNCHANGED <<remote, changes, deleted>>
         /\ \A c \in Poller : poll'[c].phase = "idle"
         /\ Sound(A) /\ Ahead(A, View) /\ (snapshot # None => snapshot \in PullRequest /\ Ahead(snapshot, A)),
         NEW e \in NewEvents(A), NEW m \in e.of
  PROVE  Kept(e.kind, m)'
<1>1. CASE snapshot = None
  <2>1. e \in Initialized(A)
    BY <1>1 DEF NewEvents, DiffSnapshot
  <2> QED BY <2>1, FirstEvents DEF Kept
<1>2. CASE snapshot # None
  <2>0. /\ remote \in PullRequest /\ changes \in Nat /\ A.head \in Nat /\ View.comments = remote.comments
        /\ A.comments \in [DOMAIN A.comments -> Nat]
        /\ CommentsAhead(A, View) /\ CommentsAhead(snapshot, A)
    BY <1>2, Fields, AnswerFields, WindowAssumption DEF VInv, TypeOK, Ahead, View
  <2>1. e \in DiffSnapshot(snapshot, A)
    BY DEF NewEvents
  <2>2. CASE e.kind \in CheckKinds
    <3>1. PICK n \in Reported(snapshot, A) : e.kind = ReportedKind(A.checks, n) /\ m = RunMember(A, n)
      BY <1>2, <2>1, <2>2, DiffFrom
    <3> DEFINE r == Representative(A.checks, n)
    <3>2. r \in A.checks /\ r.name = n
      BY <2>0, <3>1, RepresentativeIsNewest DEF Sound, Reported
    <3>3. KindStage(e.kind) <= Stage(r.state)
      BY <3>1, ReportedStage DEF Stage
    <3>4. m.head = A.head /\ m.thing.name = n /\ m.thing.id = r.id
      BY <3>1 DEF RunMember, Thing
    <3> HIDE DEF r
    <3>5. RunKept(e.kind, m)'
      BY <2>0, <3>2, <3>3, <3>4 DEF RunKept
    <3> QED BY <2>2, <3>5 DEF Kept, CommentKinds, Created, Edited, Deleted, CheckKinds
  <2>3. CASE e.kind \in CommentKinds
    <3> DEFINE c == m.thing.id
    <3>1. CommentMember(snapshot, A, e.kind, m)
      BY <1>2, <2>1, <2>3, DiffFrom
    <3>2. ~First(NewEvents(A))
      BY <1>2, DiffFrom DEF First, NewEvents
    <3>3. c \in DOMAIN A.comments => AtLeast(c, A.comments[c])'
      <4>1. c \in DOMAIN A.comments => c \in 1 .. changes /\ A.comments[c] \in Nat
        BY <2>0 DEF Sound
      <4>2. c \in DOMAIN A.comments /\ c \in DOMAIN remote.comments => A.comments[c] <= remote.comments[c]
        BY <2>0 DEF CommentsAhead
      <4> QED BY <4>1, <4>2 DEF AtLeast
    <3>4. e.kind \in Created \cup Edited /\ c \in DOMAIN A.comments => <<c, A.comments[c]>> \in told'.comments
      BY <3>2, ToldComments
    <3>5. CASE e.kind \in Created
      <4>1. c \in DOMAIN A.comments
        BY <3>1, <3>5 DEF CommentMember, Created, Edited, Deleted
      <4>2. A.comments[c] \in Nat
        BY <2>0, <4>1
      <4>3. CommentKept(e.kind, m)'
        BY <3>3, <3>4, <3>5, <4>1, <4>2 DEF CommentKept, Created, Edited, Deleted
      <4> QED BY <3>5, <4>3 DEF Kept, CheckKinds, Created, Edited, Deleted
    <3>6. CASE e.kind \in Edited
      <4>1. c \in DOMAIN A.comments /\ m.thing.at = A.comments[c]
        BY <3>1, <3>6 DEF CommentMember, Created, Edited, Deleted
      <4>2. CommentKept(e.kind, m)'
        BY <3>3, <3>4, <3>6, <4>1 DEF CommentKept, Created, Edited, Deleted
      <4> QED BY <3>6, <4>2 DEF Kept, CheckKinds, Created, Edited, Deleted
    <3>7. CASE e.kind \in Deleted
      <4>1. c \in DOMAIN snapshot.comments /\ c \notin DOMAIN A.comments
        BY <3>1, <3>7 DEF CommentMember, Created, Edited, Deleted
      <4>2. WindowSuffices' => c \in deleted
        BY <2>0, <4>1 DEF CommentsAhead, WindowSuffices
      <4>3. WindowSuffices' => Gone(c)'
        BY <4>1, <4>2 DEF Gone
      <4>4. CommentKept(e.kind, m)'
        BY <3>7, <4>3 DEF CommentKept, Created, Edited, Deleted
      <4> QED BY <3>7, <4>4 DEF Kept, CheckKinds, Created, Edited, Deleted
    <3> QED BY <2>3, <3>5, <3>6, <3>7 DEF CommentKinds, Created, Edited, Deleted
  <2> QED BY <2>2, <2>3 DEF Kept
<1> QED BY <1>1, <1>2

(* What was settled stays settled in the answer, and what is new is settled with it. *)
LEMMA SaveKeepsRecorded ==
  ASSUME VInv, Recorded, OnePoller, NEW d \in Poller, Save(d)
  PROVE  Recorded'
<1>1. PICK A \in PullRequest :
        /\ poll[d].phase = "answered" /\ A = poll[d].answer
        /\ snapshot' = A /\ recorded' = recorded \cup NewEvents(A) /\ told' = Told(NewEvents(A), A)
        /\ UNCHANGED <<remote, changes, deleted>>
        /\ \A c \in Poller : poll'[c].phase = "idle"
        /\ Sound(A) /\ Ahead(A, View) /\ (snapshot # None => snapshot \in PullRequest /\ Ahead(snapshot, A))
  BY SaveStep
<1>2. A # None /\ A.head \in Nat
  BY Fields
<1>3. ASSUME NEW e \in recorded, NEW m \in e.of PROVE Kept(e.kind, m)'
  <2>0. snapshot # None /\ Kept(e.kind, m) /\ RunsAhead(snapshot, A) /\ CommentsAhead(snapshot, A) /\ snapshot.head \in Nat
    BY <1>1, Fields DEF Recorded, Ahead
  <2>1. ASSUME RunKept(e.kind, m) PROVE RunKept(e.kind, m)'
    <3>1. ASSUME m.thing.name \notin Unsteady
          PROVE  /\ m.head \in 0 .. A.head
                 /\ m.head = A.head =>
                      \E x \in A.checks : x.name = m.thing.name /\ x.id = m.thing.id /\ KindStage(e.kind) <= Stage(x.state)
      <4>1. snapshot.head <= A.head
        BY <2>0 DEF RunsAhead
      <4>2. m.head \in 0 .. snapshot.head
        BY <2>1, <3>1 DEF RunKept
      <4>3. ASSUME m.head = A.head
            PROVE  \E x \in A.checks : x.name = m.thing.name /\ x.id = m.thing.id /\ KindStage(e.kind) <= Stage(x.state)
        <5>1. m.head = snapshot.head /\ snapshot.head = A.head
          BY <1>2, <2>0, <4>1, <4>2, <4>3
        <5>2. PICK x \in snapshot.checks : x.name = m.thing.name /\ x.id = m.thing.id /\ KindStage(e.kind) <= Stage(x.state)
          BY <2>1, <3>1, <5>1 DEF RunKept
        <5>3. PICK y \in A.checks : Follows(x, y)
          BY <2>0, <3>1, <5>1, <5>2 DEF RunsAhead
        <5>4. KindStage(e.kind) \in Nat /\ Stage(x.state) \in Nat /\ Stage(y.state) \in Nat
          BY DEF KindStage, Stage
        <5> QED BY <5>2, <5>3, <5>4 DEF Follows
      <4> QED BY <2>0, <4>1, <4>2, <4>3, <1>2
    <3> QED BY <1>1, <3>1 DEF RunKept
  <2>2. \A c, i : AtLeast(c, i) => AtLeast(c, i)'
    BY <1>1 DEF AtLeast
  <2>3. \A c : Gone(c) => Gone(c)'
    BY <1>1 DEF Gone
  <2>4. told.comments \subseteq told'.comments
    BY <1>1, ToldComments
  <2>5. WindowSuffices' <=> WindowSuffices
    BY <1>1 DEF WindowSuffices
  <2>6. WindowSuffices => \A c \in DOMAIN snapshot.comments : c \in DOMAIN snapshot'.comments \/ Gone(c)'
    BY <1>1, <2>0 DEF Gone, CommentsAhead
  <2> QED BY <2>0, <2>1, <2>2, <2>3, <2>4, <2>5, <2>6, StaysKept
<1>4. \A e \in NewEvents(A) : \A m \in e.of : Kept(e.kind, m)'
  BY <1>1, NewIsKept
<1> QED BY <1>1, <1>2, <1>3, <1>4 DEF Recorded

(* What is written to the snapshot was told before, or is now. *)
LEMMA SaveTellsNews ==
  ASSUME VInv, Recorded, NewsIsTold, OnePoller, NEW d \in Poller, Save(d)
  PROVE  NewsIsTold'
<1>1. PICK A \in PullRequest :
        /\ poll[d].phase = "answered" /\ A = poll[d].answer
        /\ snapshot' = A /\ recorded' = recorded \cup NewEvents(A) /\ told' = Told(NewEvents(A), A)
        /\ UNCHANGED <<remote, changes, deleted>>
        /\ \A c \in Poller : poll'[c].phase = "idle"
        /\ Sound(A) /\ Ahead(A, View) /\ (snapshot # None => snapshot \in PullRequest /\ Ahead(snapshot, A))
  BY SaveStep
<1>2. told.comments \subseteq told'.comments /\ (WindowSuffices' <=> WindowSuffices)
  BY <1>1, ToldComments DEF WindowSuffices
<1>3. ASSUME NEW c \in DOMAIN A.comments
      PROVE  <<c, A.comments[c]>> \in told'.comments \/ (~WindowSuffices /\ A.comments[c] > 0)
  <2>0. A.comments[c] \in Nat
    BY Fields
  <2>1. CASE snapshot = None
    <3>1. recorded = {} /\ DiffSnapshot(snapshot, A) = Initialized(A)
      BY <2>1 DEF Recorded, DiffSnapshot
    <3>2. \E e \in Initialized(A) : e.kind = "pr.snapshot.initialized"
      <4>1. \E of : [kind |-> "pr.snapshot.initialized", head |-> A.head, of |-> of] \in Initialized(A)
        BY DEF Initialized
      <4> QED BY <4>1
    <3>3. First(NewEvents(A))
      BY <3>1, <3>2 DEF First, NewEvents, Known
    <3> QED BY <1>1, <3>3, ToldComments
  <2>2. CASE snapshot # None /\ c \in DOMAIN snapshot.comments /\ snapshot.comments[c] = A.comments[c]
    BY <1>2, <2>2 DEF NewsIsTold
  <2>3. CASE snapshot # None /\ (c \notin DOMAIN snapshot.comments \/ snapshot.comments[c] # A.comments[c])
    <3>1. PICK e \in DiffSnapshot(snapshot, A) : \E m \in e.of :
            /\ m.thing.id = c
            /\ IF c \in DOMAIN snapshot.comments THEN e.kind \in Edited ELSE e.kind \in Created
      BY <2>3, DiffHasComment
    <3>2. PICK m \in e.of :
            /\ m.thing.id = c
            /\ IF c \in DOMAIN snapshot.comments THEN e.kind \in Edited ELSE e.kind \in Created
      BY <3>1
    <3>3. CASE ~Known(e)
      <4>1. e \in NewEvents(A) /\ ~First(NewEvents(A))
        BY <2>3, <3>3, DiffFrom DEF First, NewEvents
      <4>2. <<m.thing.id, A.comments[m.thing.id]>> \in Told(NewEvents(A), A).comments
        BY <3>2, <4>1, ToldComments
      <4> QED BY <1>1, <3>2, <4>2
    <3>4. CASE Known(e)
      <4>1. e \in recorded /\ CommentKept(e.kind, m)
        <5>1. e \in recorded
          BY <2>3, <3>4, DiffFrom, KnownIsRecorded
        <5> QED BY <3>2, <5>1 DEF Recorded, Kept, CommentKinds, Created, Edited, Deleted
      <4>2. c \notin DOMAIN snapshot.comments /\ e.kind \in Created
        BY <1>1, <2>3, <3>2, <4>1, CommentsAreNew DEF CommentKinds, Created, Edited, Deleted
      <4>3. ~WindowSuffices
        BY <1>1, <2>3, <4>1, <4>2, CommentsAreNew DEF CommentKinds, Created, Edited, Deleted
      <4>4. PICK i \in Nat : <<c, i>> \in told.comments /\ AtLeast(c, i)
        BY <3>2, <4>1, <4>2 DEF CommentKept, Created, Edited, Deleted
      <4>5. i <= A.comments[c]
        BY <1>1, <4>4 DEF AtLeast
      <4>6. A.comments[c] = 0 => i = A.comments[c]
        BY <2>0, <4>5
      <4> QED BY <1>2, <2>0, <4>3, <4>4, <4>6
    <3> QED BY <3>3, <3>4
  <2> QED BY <2>1, <2>2, <2>3
<1> QED BY <1>1, <1>2, <1>3 DEF NewsIsTold

(* The newest run is the one diffSnapshot takes. *)
LEMMA NewestIsRepresentative ==
  ASSUME NEW n
  PROVE  Newest(n) = Representative(snapshot.checks, n)
BY DEF Newest, Representative

(* A check that failed was told so when it failed. *)
LEMMA SaveTellsFailures ==
  ASSUME VInv, Recorded, FailedRunIsTold, OnePoller, NEW d \in Poller, Save(d)
  PROVE  FailedRunIsTold'
<1>1. PICK A \in PullRequest :
        /\ poll[d].phase = "answered" /\ A = poll[d].answer
        /\ snapshot' = A /\ recorded' = recorded \cup NewEvents(A) /\ told' = Told(NewEvents(A), A)
        /\ UNCHANGED <<remote, changes, deleted>>
        /\ \A c \in Poller : poll'[c].phase = "idle"
        /\ Sound(A) /\ Ahead(A, View) /\ (snapshot # None => snapshot \in PullRequest /\ Ahead(snapshot, A))
  BY SaveStep
<1>2. changes \in Nat /\ A.head \in Nat /\ A.checks \in SUBSET [name : Name, workflow : Workflows, id : Nat, state : CheckState]
  BY Fields, WindowAssumption DEF VInv, TypeOK
<1>3. ASSUME NEW n \in Names(A.checks) \ Unsteady, Representative(A.checks, n).state = "fail"
      PROVE  \/ Told(NewEvents(A), A).checks[n] = "check.failed"
             \/ n \in Gate /\ Told(NewEvents(A), A).checks[n] = "check.cancelled"
  <2> DEFINE r == Representative(A.checks, n)
             p == Representative(snapshot.checks, n)
             new == NewEvents(A)
  <2>1. n \in Name /\ r \in A.checks /\ r.name = n /\ \A o \in A.checks : o.name = n => o.id <= r.id
    <3>1. r \in A.checks /\ r.name = n /\ \A o \in A.checks : o.name = n => o.id <= r.id
      BY <1>1, <1>2, RepresentativeIsNewest DEF Sound
    <3> HIDE DEF r
    <3> QED BY <1>2, <3>1
  <2>2. CheckKind(r.state) = "check.failed"
    BY <1>3 DEF CheckKind
  <2> HIDE DEF r, p, new
  <2>3. CASE snapshot = None
    <3>1. recorded = {} /\ DiffSnapshot(snapshot, A) = Initialized(A)
      BY <2>3 DEF Recorded, DiffSnapshot
    <3>2. PICK e \in Initialized(A) :
            /\ e.kind = "pr.snapshot.initialized"
            /\ [thing |-> Thing(r.name, None, None), head |-> A.head] \in e.of
      <4> DEFINE of == {[thing |-> Thing(c.name, None, None), head |-> A.head] :
                          c \in {x \in A.checks : CheckKind(x.state) = "check.failed"}}
                       \cup On(A.merge = "DIRTY", {[thing |-> Thing(None, "conflict", None), head |-> A.head]})
                 e == [kind |-> "pr.snapshot.initialized", head |-> A.head, of |-> of]
      <4>1. e \in Initialized(A)
        BY DEF Initialized
      <4>2. [thing |-> Thing(r.name, None, None), head |-> A.head] \in of
        BY <2>1, <2>2
      <4>3. e.kind = "pr.snapshot.initialized" /\ e.of = of
        OBVIOUS
      <4> QED BY <4>1, <4>2, <4>3
    <3>3. e \in new /\ First(new)
      BY <3>1, <3>2 DEF First, NewEvents, Known, new
    <3>4. Thing(n, None, None) \in Things(e) /\ Thing(n, None, None).name = n
      BY <2>1, <3>2 DEF Things, Thing
    <3>5. e \in About(new, n)
      BY <3>2, <3>3, <3>4 DEF About
    <3>6. Told(new, A).checks[n] = "check.failed"
      BY <2>1, <3>3, <3>5, ToldChecks
    <3> QED BY <3>6 DEF new
  <2>4. CASE snapshot # None
    <3>0. /\ snapshot \in PullRequest /\ RunsAhead(snapshot, A) /\ Sound(snapshot) /\ snapshot.head \in Nat
          /\ ~First(new) /\ \A e \in new : e.kind # "pr.snapshot.initialized" /\ e \in DiffSnapshot(snapshot, A)
      BY <1>1, <2>4, Fields, DiffFrom DEF First, NewEvents, VInv, Views, Ahead, new
    <3>1. ASSUME NEW e \in About(new, n)
          PROVE  n \in Reported(snapshot, A) /\ e.kind = ReportedKind(A.checks, n)
      <4>1. e \in new /\ e.kind \in CheckKinds /\ \E m \in e.of : m.thing.name = n
        BY <3>0 DEF About, Things
      <4>2. PICK m \in e.of : m.thing.name = n
        BY <4>1
      <4>3. PICK q \in Reported(snapshot, A) : e.kind = ReportedKind(A.checks, q) /\ m = RunMember(A, q)
        BY <2>4, <3>0, <4>1, DiffFrom
      <4>4. q = n
        BY <4>2, <4>3 DEF RunMember, Thing
      <4> QED BY <4>3, <4>4
    <3>2. CASE Same(snapshot.checks, A.checks, n)
      <4>1. n \in Names(snapshot.checks) /\ p.state = "fail" /\ p.id = r.id
        BY <1>3, <3>2 DEF Same, Unsteady, p, r
      <4>2. p \in snapshot.checks /\ p.name = n
        BY <1>2, <3>0, <4>1, RepresentativeIsNewest DEF Sound, p
      <4>3. r.id \in Nat
        BY <1>2, <2>1
      <4>4. snapshot.head = A.head
        BY <1>2, <1>3, <2>1, <3>0, <4>1, <4>2, <4>3 DEF RunsAhead, Unsteady
      <4>5. \A e \in new : e.kind # "pr.synchronized"
        BY <2>4, <3>0, <4>4, DiffFrom
      <4>6. About(new, n) = {}
        BY <3>1, <3>2 DEF Reported
      <4>7. Told(new, A).checks[n] = told.checks[n]
        BY <2>1, <3>0, <4>5, <4>6, ToldChecks
      <4>8. told.checks[n] = "check.failed" \/ (n \in Gate /\ told.checks[n] = "check.cancelled")
        BY <2>4, <4>1, NewestIsRepresentative DEF FailedRunIsTold, p
      <4> QED BY <4>7, <4>8 DEF new
    <3>3. CASE ~Same(snapshot.checks, A.checks, n)
      <4>1. n \in Reported(snapshot, A)
        <5>1. ~Quiet(A.checks, n)
          BY <2>2 DEF Quiet, r
        <5> QED BY <3>3, <5>1 DEF Reported
      <4>2. PICK e \in DiffSnapshot(snapshot, A) :
              e.kind = ReportedKind(A.checks, n) /\ RunMember(A, n) \in e.of
        BY <2>4, <4>1, DiffHasRun
      <4>3. RunMember(A, n).thing \in Things(e) /\ RunMember(A, n).thing.name = n
        BY <4>2 DEF Things, RunMember, Thing
      <4>4. e.kind \in CheckKinds
        BY <4>2, ReportedIsCheckKind
      <4>5. e \in new
        <5>1. e \notin recorded
          BY <1>1, <2>4, <4>3, <4>4, RunsAreNew
        <5>2. e.kind # "pr.snapshot.initialized"
          BY <4>4 DEF CheckKinds
        <5> QED BY <5>1, <5>2, KnownIsRecorded DEF NewEvents, new
      <4>6. e \in About(new, n)
        BY <4>3, <4>4, <4>5 DEF About
      <4>7. Told(new, A).checks[n] = ReportedKind(A.checks, n)
        <5> DEFINE k == ReportedKind(A.checks, n)
        <5>1. ~First(new) /\ About(new, n) # {} /\ \A f \in About(new, n) : f.kind = k
          BY <3>0, <3>1, <4>6
        <5> HIDE DEF k
        <5>2. \A q : About(new, n) # {} /\ (\A f \in About(new, n) : f.kind = q) => Told(new, A).checks[n] = q
          BY <2>1, <5>1, ToldChecks
        <5>3. Told(new, A).checks[n] = k
          BY <5>1, <5>2, Zenon
        <5> QED BY <5>3 DEF k
      <4>8. ReportedKind(A.checks, n) = "check.failed" \/ (n \in Gate /\ ReportedKind(A.checks, n) = "check.cancelled")
        BY <2>2 DEF ReportedKind, CancelledGate, r
      <4> QED BY <4>7, <4>8 DEF new
    <3> QED BY <3>2, <3>3
  <2> QED BY <2>3, <2>4
<1>4. \A n : Newest(n)' = Representative(A.checks, n)
  BY <1>1 DEF Newest, Representative
<1> QED BY <1>1, <1>3, <1>4 DEF FailedRunIsTold

(* A poll's events about conflicts come with evidence: the known merge state changes. *)
LEMMA SaveHasEvidence ==
  ASSUME VInv, Recorded, OnePoller, NEW d \in Poller, Save(d),
         New("merge_conflict.detected") \cup New("merge_conflict.cleared") # {}
  PROVE  /\ snapshot'.stable # None /\ snapshot.stable # None
         /\ snapshot'.stable # snapshot.stable
<1>1. PICK A \in PullRequest :
        /\ poll[d].phase = "answered" /\ A = poll[d].answer
        /\ snapshot' = A /\ recorded' = recorded \cup NewEvents(A) /\ told' = Told(NewEvents(A), A)
        /\ UNCHANGED <<remote, changes, deleted>>
        /\ \A c \in Poller : poll'[c].phase = "idle"
        /\ Sound(A) /\ Ahead(A, View) /\ (snapshot # None => snapshot \in PullRequest /\ Ahead(snapshot, A))
  BY SaveStep
<1>2. PICK e \in NewEvents(A) : e.kind \in ConflictKinds
  BY <1>1 DEF New, ConflictKinds
<1>3. snapshot # None
  BY <1>2, FirstEvents DEF NewEvents, DiffSnapshot
<1>4. \E f \in MergeEvents(snapshot, A) : TRUE
  BY <1>2, <1>3, DiffFrom DEF NewEvents
<1>5. snapshot.stable # None /\ StableMergeState(A.merge) # None /\ snapshot.stable # StableMergeState(A.merge)
  BY <1>4 DEF MergeEvents, On
<1>6. A.merge # "UNKNOWN" /\ StableMergeState(A.merge) = A.merge
  BY <1>5 DEF StableMergeState
<1>7. A.stable = A.merge
  BY <1>1, <1>6 DEF VInv, Views
<1> QED BY <1>1, <1>5, <1>6, <1>7

-----------------------------------------------------------------------------
(* The theorems                                                              *)

DiffInv == VInv /\ Recorded

(* In the first state nothing is recorded and nothing stored. *)
LEMMA DiffInit == Init => DiffInv /\ NewsIsTold /\ FailedRunIsTold
BY ViewsInit DEF DiffInv, Init, Recorded, NewsIsTold, FailedRunIsTold

(* Every step keeps the invariant. *)
LEMMA DiffStep ==
  ASSUME OnePoller
  PROVE  DiffInv /\ [Next]_vars => DiffInv'
<1> SUFFICES ASSUME DiffInv, [Next]_vars PROVE DiffInv'
  OBVIOUS
<1>1. VInv'
  BY ViewsStep DEF DiffInv
<1>2. ASSUME NEW d \in Poller, Read(d) \/ Answer(d) \/ Save(d) PROVE Recorded'
  BY <1>2, ReadKeepsRecorded, AnswerKeepsRecorded, SaveKeepsRecorded DEF DiffInv
<1>3. CASE Github /\ UNCHANGED <<snapshot, recorded, poll, told>>
  BY <1>1, <1>3, GithubKeepsRecorded DEF DiffInv
<1>4. CASE UNCHANGED vars
  <2>1. UNCHANGED <<remote, changes, snapshot, recorded, poll, told, deleted>>
    BY <1>4 DEF vars
  <2>2. (\A c, i : AtLeast(c, i) => AtLeast(c, i)') /\ (\A c : Gone(c) => Gone(c)')
    BY <2>1 DEF AtLeast, Gone
  <2>3. (\A k, m : RunKept(k, m) => RunKept(k, m)') /\ (WindowSuffices' <=> WindowSuffices)
    BY <2>1 DEF RunKept, WindowSuffices
  <2>4. \A e \in recorded : \A m \in e.of : Kept(e.kind, m)'
    BY <2>1, <2>2, <2>3, StaysKept DEF DiffInv, Recorded
  <2>5. Recorded'
    BY <2>1, <2>4 DEF DiffInv, Recorded
  <2> QED BY <1>1, <2>5 DEF DiffInv
<1> QED BY <1>1, <1>2, <1>3, <1>4 DEF Next, DiffInv

(* What stays in the snapshot and was told stays told, while comments only become more. *)
LEMMA StaysTold ==
  ASSUME DiffInv, [Next]_vars, \A d \in Poller : ~Save(d)
  PROVE  /\ NewsIsTold => NewsIsTold'
         /\ FailedRunIsTold => FailedRunIsTold'
         /\ recorded' = recorded
<1>1. /\ UNCHANGED <<snapshot, recorded, told>>
      /\ WindowSuffices' => WindowSuffices
  <2>1. ASSUME NEW d \in Poller, Read(d) \/ Answer(d)
        PROVE  UNCHANGED <<snapshot, recorded, told>> /\ (WindowSuffices' => WindowSuffices)
    BY <2>1 DEF Read, Answer, WindowSuffices
  <2>2. CASE Github /\ UNCHANGED <<snapshot, recorded, poll, told>>
    BY <2>2, GithubStep DEF DiffInv, VInv, Views, CommentsMove
  <2>3. CASE UNCHANGED vars
    BY <2>3 DEF vars, WindowSuffices
  <2> QED BY <2>1, <2>2, <2>3 DEF Next
<1>2. NewsIsTold => NewsIsTold'
  BY <1>1 DEF NewsIsTold
<1>3. FailedRunIsTold => FailedRunIsTold'
  BY <1>1 DEF FailedRunIsTold, Newest
<1> QED BY <1>1, <1>2, <1>3

(* Every view of the pull request lags behind GitHub, and what was recorded is settled in the  *)
(* snapshot and in what was told.                                                              *)
THEOREM RecordedIsSettled ==
  ASSUME OnePoller
  PROVE  Spec => []DiffInv
<1> USE OnePoller
<1>1. Init => DiffInv
  BY DiffInit
<1>2. DiffInv /\ [Next]_vars => DiffInv'
  BY DiffStep
<1> QED BY <1>1, <1>2, PTL DEF Spec

(* With one poller, what a poll finds of runs and comments is not taken for what was recorded. *)
THEOREM FoundIsNew ==
  ASSUME OnePoller
  PROVE  Spec => []ChecksAndCommentsAreNew
<1> USE OnePoller
<1>1. DiffInv => ChecksAndCommentsAreNew
  BY FoundAreNew DEF DiffInv
<1> QED BY <1>1, RecordedIsSettled, PTL

(* With one poller, each comment of the snapshot was told as it is stored there. *)
THEOREM NewsTold ==
  ASSUME OnePoller
  PROVE  Spec => []NewsIsTold
<1> USE OnePoller
<1>1. Init => NewsIsTold
  BY DiffInit
<1>2. DiffInv /\ NewsIsTold /\ [Next]_vars => NewsIsTold'
  <2> SUFFICES ASSUME DiffInv, NewsIsTold, [Next]_vars PROVE NewsIsTold'
    OBVIOUS
  <2>1. ASSUME NEW d \in Poller, Save(d) PROVE NewsIsTold'
    BY <2>1, SaveTellsNews DEF DiffInv
  <2> QED BY <2>1, StaysTold
<1> QED BY <1>1, <1>2, RecordedIsSettled, PTL DEF Spec

(* With one poller, a check that no answer left out, and whose newest run failed, was last told *)
(* as failed.                                                                                  *)
THEOREM FailuresTold ==
  ASSUME OnePoller
  PROVE  Spec => []FailedRunIsTold
<1> USE OnePoller
<1>1. Init => FailedRunIsTold
  BY DiffInit
<1>2. DiffInv /\ FailedRunIsTold /\ [Next]_vars => FailedRunIsTold'
  <2> SUFFICES ASSUME DiffInv, FailedRunIsTold, [Next]_vars PROVE FailedRunIsTold'
    OBVIOUS
  <2>1. ASSUME NEW d \in Poller, Save(d) PROVE FailedRunIsTold'
    BY <2>1, SaveTellsFailures DEF DiffInv
  <2> QED BY <2>1, StaysTold
<1> QED BY <1>1, <1>2, RecordedIsSettled, PTL DEF Spec

(* With one poller, events about conflicts come when the known merge state changes. *)
THEOREM ConflictsHaveEvidence ==
  ASSUME OnePoller
  PROVE  Spec => ConflictNeedsEvidence
<1> USE OnePoller
<1> DEFINE Evidence == New("merge_conflict.detected") \cup New("merge_conflict.cleared") # {} =>
                         /\ snapshot'.stable # None /\ snapshot.stable # None
                         /\ snapshot'.stable # snapshot.stable
<1>1. DiffInv /\ [Next]_vars => [Evidence]_vars
  <2> SUFFICES ASSUME DiffInv, [Next]_vars PROVE Evidence
    OBVIOUS
  <2>1. ASSUME NEW d \in Poller, Save(d) PROVE Evidence
    BY <2>1, SaveHasEvidence DEF DiffInv
  <2>2. CASE \A d \in Poller : ~Save(d)
    BY <2>2, StaysTold DEF New
  <2> QED BY <2>1, <2>2
<1>2. [][Evidence]_vars => ConflictNeedsEvidence
  BY DEF ConflictNeedsEvidence
<1> QED BY <1>1, <1>2, RecordedIsSettled, PTL DEF Spec

=============================================================================
