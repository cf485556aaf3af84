-------------------------- MODULE BranchDiscovery --------------------------
(***************************************************************************)
(* How premind finds the pull request of a branch: the tick of             *)
(* branch-discovery.ts with its ETags and the association of branches in   *)
(* branch_watchers, between the requests of WorktreeBinding.               *)
(* What follows GitHub's answer runs without a request in between, but it  *)
(* is several transactions: the process may die, or one fail, after any.   *)
(***************************************************************************)
EXTENDS WorktreeBinding

CONSTANTS
  Etags,     \* whether an answer has an ETag: subset of BOOLEAN
  MaxFaults  \* bound: restarts, requests and writes that fail

ASSUME DiscoveryAssumption == Etags \in (SUBSET BOOLEAN) \ {{}} /\ MaxFaults \in Nat /\ IsFiniteSet(Pr)

VARIABLES
  remote,      \* each pull request at GitHub
  etag,        \* etags: what the list of a branch held when its ETag was saved, {} for none
  watcher,     \* branch_watchers.pr_number
  seen,        \* pull requests whose terminal snapshot is stored
  viewer,      \* whether this process knows who is authenticated
  discovered,  \* pr.discovered in pr_events
  tick,        \* the tick that is under way
  faults

discoveryVars == <<remote, etag, watcher, seen, viewer, discovered, tick, faults>>
vars == <<bindingVars, discoveryVars>>

(* Where a tick is: a branch, what GitHub said of it, and whom to tell *)
NoTick == [step |-> "idle", targets |-> {}, branch |-> None, pr |-> None, todo |-> {}]

(* The open pull request GitHub lists first for a branch *)
Newest(b) ==
  LET open == {p \in Pr : HeadOf[p] = b /\ remote[p] = "open"}
  IN  IF open = {} THEN None ELSE CHOOSE p \in open : \A q \in open : q <= p

Target(s, bound, b) == [session |-> s, bound |-> bound, branch |-> b, pr |-> watcher[b]]

(* Mutant: only bindings that wait *)
MutTargets ==
  {Target(s, TRUE, binding[s].branch) :
     s \in {x \in Session : Active(x) /\ binding[x] # None /\ binding[x].state = "waiting"}}

(* listActiveWorktreeBranchTargets *)
Targets ==
  {Target(s, TRUE, binding[s].branch) :
     s \in {x \in Session : Active(x) /\ binding[x] # None /\ binding[x].branch # None}}
  \cup {Target(s, FALSE, session[s].branch) : s \in {x \in Session : Active(x) /\ binding[x] = None}}

Of(b) == {t \in tick.targets : t.branch = b}

(* What the row of the branch held when the tick began *)
Prior(b) == (CHOOSE t \in Of(b) : TRUE).pr

Handled(b) ==
  LET rest == tick.targets \ Of(b)
  IN  IF rest = {} THEN NoTick ELSE [NoTick EXCEPT !.step = "next", !.targets = rest]

Fault == faults < MaxFaults /\ faults' = faults + 1

NoOne == [b \in Branch |-> None]

-----------------------------------------------------------------------------
(* The tick                                                                  *)

TickStart ==
  /\ tick.step = "idle" /\ Targets # {}
  /\ tick' = [NoTick EXCEPT !.step = "login", !.targets = Targets]
  /\ UNCHANGED <<bindingVars, remote, etag, watcher, seen, viewer, discovered, faults>>

(* getViewerLogin, which asks once *)
Login ==
  /\ tick.step = "login"
  /\ viewer' = TRUE
  /\ tick' = [tick EXCEPT !.step = "next"]
  /\ UNCHANGED <<bindingVars, remote, etag, watcher, seen, discovered, faults>>

(* suspendAutomaticSubscriptions lists what it will reject *)
LoginFails ==
  /\ tick.step = "login" /\ ~viewer
  /\ tick' = [NoTick EXCEPT !.step = "suspend",
                           !.todo = UNION {{[session |-> s, pr |-> p] : p \in Automatic(s)} : s \in Session}]
  /\ Fault
  /\ UNCHANGED <<bindingVars, remote, etag, watcher, seen, viewer, discovered>>

(* rejectAutomaticPullRequest also takes the association back *)
Rejected(s, p) ==
  [b \in Branch |-> IF b = session[s].branch /\ watcher[b] = p THEN None ELSE watcher[b]]

Suspend(t) ==
  /\ tick.step = "suspend" /\ t \in tick.todo
  /\ Reject(t.session)
  /\ watcher' = Rejected(t.session, t.pr)
  /\ tick' = [tick EXCEPT !.todo = @ \ {t}]
  /\ UNCHANGED <<remote, etag, seen, viewer, discovered, faults>>

Suspended ==
  /\ tick.step = "suspend" /\ tick.todo = {}
  /\ watcher' = NoOne
  /\ tick' = NoTick
  /\ UNCHANGED <<bindingVars, remote, etag, seen, viewer, discovered, faults>>

(* findOpenPullRequestForBranch: GitHub answers, and may say that nothing was modified *)
Ask(b) ==
  /\ tick.step = "next" /\ Of(b) # {}
  /\ \/ tick' = [tick EXCEPT !.step = "answered", !.branch = b, !.pr = Newest(b)]
     \/ etag[b] = {Newest(b)} /\ tick' = Handled(b)
  /\ UNCHANGED <<bindingVars, remote, etag, watcher, seen, viewer, discovered, faults>>

AskFails(b) ==
  /\ tick.step = "next" /\ Of(b) # {}
  /\ tick' = Handled(b)
  /\ Fault
  /\ UNCHANGED <<bindingVars, remote, etag, watcher, seen, viewer, discovered>>

SaveEtag ==
  /\ tick.step = "answered"
  /\ \E sent \in Etags : etag' = [etag EXCEPT ![tick.branch] = IF sent THEN {tick.pr} ELSE @]
  /\ tick' = [tick EXCEPT !.step = "saved"]
  /\ UNCHANGED <<bindingVars, remote, watcher, seen, viewer, discovered, faults>>

(* Mutant: whoever wrote it *)
MutForeign(p) == FALSE

Foreign(p) == p # None /\ p \notin Own

(* Mutant: the next pull request is taken at once *)
MutDeferred(b, p) == FALSE

(* Another pull request has to wait until the end of the last one was stored *)
Deferred(b, p) == p # None /\ Prior(b) # None /\ p # Prior(b) /\ Prior(b) \notin seen

TellNotOwned ==
  /\ tick.step = "saved" /\ Foreign(tick.pr)
  /\ tick' = [tick EXCEPT !.step = "tell", !.todo = Of(tick.branch)]
  /\ UNCHANGED <<bindingVars, remote, etag, watcher, seen, viewer, discovered, faults>>

Defer ==
  /\ tick.step = "saved" /\ ~Foreign(tick.pr) /\ Deferred(tick.branch, tick.pr)
  /\ tick' = Handled(tick.branch)
  /\ UNCHANGED <<bindingVars, remote, etag, watcher, seen, viewer, discovered, faults>>

(* recordBranchAssociation lists sessions without a worktree *)
Legacy(b) == {Target(s, FALSE, b) : s \in {x \in Session : session[x] # None /\ session[x].branch = b /\ binding[x] = None}}

(* Without an open pull request the branch keeps the one it has *)
AssociatedPr(b) == IF tick.pr # None THEN tick.pr ELSE Prior(b)

(* recordBranchAssociation, up to its first write *)
RecordBranchAssociation ==
  LET b == tick.branch
  IN  /\ tick.step = "saved" /\ ~Foreign(tick.pr) /\ ~Deferred(b, tick.pr)
      /\ watcher' = [watcher EXCEPT ![b] = AssociatedPr(b)]
      /\ tick' = [tick EXCEPT !.step = "tell",
                              !.todo = {t \in Of(b) : t.bound} \cup IF AssociatedPr(b) = None THEN {} ELSE Legacy(b)]
      /\ UNCHANGED <<bindingVars, remote, etag, seen, viewer, discovered, faults>>

TellForeign(t) ==
  /\ tick.step = "tell" /\ t \in tick.todo /\ Foreign(tick.pr)
  /\ IF t.bound THEN NotOwned(t.session, tick.pr) ELSE Reject(t.session)
  /\ watcher' = Rejected(t.session, tick.pr)
  /\ tick' = [tick EXCEPT !.todo = @ \ {t}]
  /\ UNCHANGED <<remote, etag, seen, viewer, discovered, faults>>

(* The rest of recordBranchAssociation, and then the worktrees *)
Tell(t) ==
  /\ tick.step = "tell" /\ t \in tick.todo /\ ~Foreign(tick.pr)
  /\ \/ ~t.bound /\ AssociatedPr(tick.branch) # None /\ Associate(t.session, AssociatedPr(tick.branch))
     \/ /\ \A u \in tick.todo : u.bound
        /\ IF tick.pr = None THEN NotFound(t.session) ELSE Found(t.session, tick.pr)
  /\ tick' = [tick EXCEPT !.todo = @ \ {t}]
  /\ UNCHANGED <<remote, etag, watcher, seen, viewer, discovered, faults>>

(* insertEvents: pr.discovered, once for a branch and pull request *)
Told ==
  /\ tick.step = "tell" /\ tick.todo = {}
  /\ discovered' = IF tick.pr = None \/ Foreign(tick.pr) THEN discovered ELSE discovered \cup {tick.pr}
  /\ tick' = Handled(tick.branch)
  /\ UNCHANGED <<bindingVars, remote, etag, watcher, seen, viewer, faults>>

(* A write that fails: the rest of the branch, or of the tick, is left out, and an actor may be lost *)
Break ==
  /\ tick.step \in {"suspend", "answered", "saved", "tell"}
  /\ UNCHANGED bindingVars \/ (tick.step = "tell" /\ \E t \in tick.todo : Discard(t.session))
  /\ tick' = IF tick.step = "suspend" THEN NoTick ELSE Handled(tick.branch)
  /\ Fault
  /\ UNCHANGED <<remote, etag, watcher, seen, viewer, discovered>>

-----------------------------------------------------------------------------
(* The rest                                                                  *)

Free == tick.step \notin {"suspend", "saved", "tell"}

Restart ==
  /\ Reset
  /\ watcher' = NoOne
  /\ viewer' = FALSE
  /\ tick' = NoTick
  /\ Fault
  /\ UNCHANGED <<remote, etag, seen, discovered>>

Other ==
  /\ Free
  /\ \/ \E s \in Session : Request(s) \/ Discard(s)
     \/ \E p \in Pr, known \in BOOLEAN : Reconcile(p, known)
     \/ \E t \in Tree, b \in Branch : Checkout(t, b)
  /\ UNCHANGED discoveryVars

(* GitHub *)
Open(p) ==
  /\ Free /\ remote[p] = "none"
  /\ remote' = [remote EXCEPT ![p] = "open"]
  /\ UNCHANGED <<bindingVars, etag, watcher, seen, viewer, discovered, tick, faults>>

End(p) ==
  /\ Free /\ remote[p] = "open"
  /\ remote' = [remote EXCEPT ![p] = "ended"]
  /\ UNCHANGED <<bindingVars, etag, watcher, seen, viewer, discovered, tick, faults>>

(* The pull request watcher polls what a session follows, and stores its end *)
SeeEnd(p) ==
  /\ Free /\ remote[p] = "ended" /\ p \notin seen
  /\ \E s \in Session : Active(s) /\ p \in Followed(s)
  /\ seen' = seen \cup {p}
  /\ UNCHANGED <<bindingVars, remote, etag, watcher, viewer, discovered, tick, faults>>

-----------------------------------------------------------------------------
DiscoveryInit ==
  /\ BindingInit
  /\ remote = [p \in Pr |-> "none"]
  /\ etag = [b \in Branch |-> {}]
  /\ watcher = NoOne
  /\ seen = {} /\ discovered = {}
  /\ viewer = FALSE
  /\ tick = NoTick
  /\ faults = 0

TickStep ==
  \/ TickStart \/ Login \/ SaveEtag \/ TellNotOwned \/ Defer \/ RecordBranchAssociation \/ Told \/ Suspended
  \/ \E b \in Branch : Ask(b)
  \/ \E t \in tick.todo : Suspend(t) \/ TellForeign(t) \/ Tell(t)

DiscoveryNext ==
  \/ TickStep \/ LoginFails \/ Break \/ Restart \/ Other
  \/ \E b \in Branch : AskFails(b)
  \/ \E p \in Pr : Open(p) \/ End(p) \/ SeeEnd(p)

DiscoverySpec == DiscoveryInit /\ [][DiscoveryNext]_vars

(* The scheduler goes on with ticks *)
Fairness == WF_vars(TickStep)

-----------------------------------------------------------------------------
(* Every variable holds values of its type, and only the user's pull requests are associated. *)
DiscoveryTypeOK ==
  /\ BindingTypeOK
  /\ remote \in [Pr -> {"none", "open", "ended"}]
  /\ watcher \in [Branch -> Own \cup {None}]
  /\ \A b \in Branch : watcher[b] # None => HeadOf[watcher[b]] = b
  /\ seen \subseteq {p \in Pr : remote[p] = "ended"} /\ discovered \subseteq Own
  /\ faults \in 0 .. MaxFaults

(* The log in branch-discovery.ts: "deferring branch reassociation until prior PR reaches a *)
(* terminal state": the pull request a branch is associated with is replaced by another one *)
(* only when its end was stored, whatever is activated, asked or lost in between.           *)
PriorEndsFirst ==
  [][\A b \in Branch : watcher[b] # None /\ watcher'[b] \notin {None, watcher[b]} => watcher[b] \in seen]_vars

(* A bound session's branch has a pull request that the user wrote and did not opt out of *)
Wants(s, p) ==
  /\ Active(s) /\ binding[s] # None /\ binding[s].branch = HeadOf[p]
  /\ p \in Own /\ Newest(HeadOf[p]) = p
  /\ LastOptOut(s, binding[s]) = None
  /\ subs[s][p] # None => subs[s][p].source = "automatic"

(* README.md: the daemon "discovers the open PR for your current branch and automatically    *)
(* watches it": the session follows it again and again, however often it is activated.       *)
FollowsItsPr == \A s \in Session, p \in Pr : <>[]Wants(s, p) => []<>(p \in Automatic(s))

(* Nothing fails any more, and the branch's list has come to show p since its ETag was saved; *)
(* the pull request the branch was associated with does not keep p waiting                    *)
Awaited(s, p) ==
  /\ faults = MaxFaults /\ tick.step = "idle"
  /\ Wants(s, p)
  /\ etag[HeadOf[p]] # {p}
  /\ watcher[HeadOf[p]] \in {None, p} \cup seen

(* The same for what the code does with ETags: when the list of a branch changes, the session *)
(* comes to follow the new pull request, whatever it followed, found somebody else's or was   *)
(* activated for before and during the tick, and whatever other sessions and branches do.     *)
NewPrIsFollowed ==
  \A s \in Session, p \in Pr : Awaited(s, p) ~> (p \in Automatic(s) \/ ~Wants(s, p))
=============================================================================
