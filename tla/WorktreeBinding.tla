--------------------------- MODULE WorktreeBinding ---------------------------
(***************************************************************************)
(* Which pull request a session follows by itself: the worktree a session  *)
(* is bound to, the machine that remembers it (worktree-binding.ts), the   *)
(* registry of its actors (worktree-binding-registry.ts) and the rows they *)
(* are kept in (store.ts), in one repository.                              *)
(* A subscription's policy counts while it is active.                      *)
(* What discovery says is left open here: it may say anything that is true *)
(* of authors and branches at any time.  BranchDiscovery says what it does.*)
(***************************************************************************)
EXTENDS Naturals, Sequences, FiniteSets

CONSTANTS
  Session, Tree, Branch, None,
  Home,    \* the worktree each session was started in
  Pr,      \* numbers of pull requests
  HeadOf,    \* the branch of each
  Own,     \* those the authenticated user wrote
  MaxResolved  \* bound: activations of a session that wait for Git

ASSUME PrAssumption == Pr \subseteq Nat /\ HeadOf \in [Pr -> Branch] /\ Own \subseteq Pr /\ MaxResolved \in Nat
ASSUME HomeAssumption == Home \in [Session -> Tree] /\ None \notin Branch \cup Pr

VARIABLES
  checkout,  \* what each worktree has checked out, None for a detached HEAD
  session,   \* sessions
  resolved,  \* what Git answered to activations that have not gone on
  binding,   \* worktree_bindings
  subs,      \* session_subscriptions
  optOuts,   \* automatic_subscription_opt_outs, oldest first
  actor,     \* the registry's actors
  asked      \* history: what users unsubscribed from, and where

bindingVars == <<checkout, session, resolved, binding, subs, optOuts, actor, asked>>

-----------------------------------------------------------------------------
(* The machine                                                               *)

(* ACTIVATE_WORKTREE and WORKTREE_RESOLVED, which a request sends at once *)
Activated(w) ==
  [state |-> IF w.branch = None THEN "detached" ELSE "waiting", tree |-> w.tree, branch |-> w.branch, pr |-> None]

PrFound(a, p) ==
  IF a.state \in {"waiting", "following", "foreign"} THEN [a EXCEPT !.state = "following", !.pr = p] ELSE a

PrNotOwned(a, p) ==
  IF a.state \in {"waiting", "following", "foreign"} THEN [a EXCEPT !.state = "foreign", !.pr = p] ELSE a

PrNotFound(a) == IF a.state = "foreign" THEN [a EXCEPT !.state = "waiting", !.pr = None] ELSE a

UnsubscribeAutomatic(a, p) ==
  IF a.state = "following" /\ a.pr = p THEN [a EXCEPT !.state = "unsubscribed"] ELSE a

-----------------------------------------------------------------------------
(* Rows                                                                      *)

Active(s) == session[s] # None /\ session[s].status = "active"

Followed(s) == {p \in Pr : subs[s][p] # None /\ subs[s][p].active}

Automatic(s) == {p \in Followed(s) : subs[s][p].source = "automatic"}

Ended(sub) == [source |-> sub.source, active |-> FALSE, actionable |-> FALSE]

(* Mutant: the subscriptions stay *)
MutDeactivated(row) == row

(* deactivateAutomaticSubscriptions *)
Deactivated(row) ==
  [p \in Pr |-> IF row[p] # None /\ row[p].source = "automatic" THEN Ended(row[p]) ELSE row[p]]

(* baselineAutomaticSubscription: a manual subscription is left as it is *)
Baselined(row, p) ==
  IF row[p] # None /\ row[p].source = "manual" THEN row
  ELSE [row EXCEPT ![p] = [source |-> "automatic", active |-> TRUE, actionable |-> TRUE]]

(* resetInferredSubscriptionPoliciesInTransaction *)
Inferred(row) ==
  [p \in Pr |-> IF row[p] # None /\ row[p].active THEN [row[p] EXCEPT !.actionable = FALSE] ELSE row[p]]

OptOut(s, tree, branch, p) == [session |-> s, tree |-> tree, branch |-> branch, pr |-> p]

OptedOut(s, b, p) == \E i \in DOMAIN optOuts : optOuts[i] = OptOut(s, b.tree, b.branch, p)

(* Mutant: one opt-out for a worktree and branch *)
MutRecorded(o) ==
  IF \E i \in DOMAIN optOuts : [optOuts[i] EXCEPT !.pr = o.pr] = o THEN optOuts ELSE Append(optOuts, o)

(* recordAutomaticSubscriptionOptOut: INSERT OR IGNORE *)
Recorded(o) == IF \E i \in DOMAIN optOuts : optOuts[i] = o THEN optOuts ELSE Append(optOuts, o)

(* getAutomaticSubscriptionOptOutForBinding: the last one *)
LastOptOut(s, b) ==
  LET I == {i \in DOMAIN optOuts : \E p \in Pr : optOuts[i] = OptOut(s, b.tree, b.branch, p)}
  IN  IF I = {} THEN None ELSE optOuts[CHOOSE i \in I : \A j \in I : j <= i].pr

-----------------------------------------------------------------------------
(* The registry                                                              *)

(* restoreFromStore *)
Restored(s) ==
  LET w == Activated(binding[s])
      p == IF Automatic(s) # {} THEN CHOOSE q \in Automatic(s) : TRUE ELSE None
      o == LastOptOut(s, binding[s])
  IN  IF binding[s].branch = None THEN w
      ELSE IF p # None THEN PrFound(w, p)
      ELSE IF o # None THEN UnsubscribeAutomatic(PrFound(w, o), o)
      ELSE w

(* getOrCreate *)
Actor(s) == IF actor[s] # None THEN actor[s] ELSE Restored(s)

Bound(a) == [tree |-> a.tree, branch |-> a.branch, state |-> a.state]

(* Mutant: a row that is there stays *)
MutKeep(s, a) ==
  /\ actor' = [actor EXCEPT ![s] = a]
  /\ binding' = [binding EXCEPT ![s] = IF @ = None THEN Bound(a) ELSE @]

(* upsertWorktreeBinding of what the actor has come to *)
Keep(s, a) ==
  /\ actor' = [actor EXCEPT ![s] = a]
  /\ binding' = [binding EXCEPT ![s] = Bound(a)]

-----------------------------------------------------------------------------
(* Requests                                                                  *)

(* registerSession, with the branch the host found; it writes what Idle does when the session is active *)
Register(s) ==
  /\ ~Active(s)
  /\ checkout[Home[s]] # None
  /\ session' = [session EXCEPT ![s] = [status |-> "active", branch |-> checkout[Home[s]]]]
  /\ UNCHANGED <<checkout, resolved, binding, subs, optOuts, actor, asked>>

(* updateSessionState when the host is idle; a session that was closed is revived *)
Idle(s) ==
  /\ session[s] # None /\ checkout[Home[s]] # None
  /\ session' = [session EXCEPT ![s] = [status |-> "active", branch |-> checkout[Home[s]]]]
  /\ UNCHANGED <<checkout, resolved, binding, subs, optOuts, actor, asked>>

(* ensureSessionControl of a session that has come to another branch.  With the same branch it *)
(* writes what Idle does, and what Register does for a session that is not there               *)
Control(s) ==
  /\ session[s] # None /\ checkout[Home[s]] \notin {None, session[s].branch}
  /\ session' = [session EXCEPT ![s] = [status |-> "active", branch |-> checkout[Home[s]]]]
  /\ subs' = [subs EXCEPT ![s] = Deactivated(@)]
  /\ UNCHANGED <<checkout, resolved, binding, optOuts, actor, asked>>

(* handleActivateWorktree, up to the answer of Git *)
Resolve(s, t) ==
  /\ session[s] # None /\ Cardinality(resolved[s]) < MaxResolved
  /\ resolved' = [resolved EXCEPT ![s] = @ \cup {[tree |-> t, branch |-> checkout[t]]}]
  /\ UNCHANGED <<checkout, session, binding, subs, optOuts, actor, asked>>

(* activateResolvedWorktree *)
Activate(s, w) ==
  /\ w \in resolved[s]
  /\ resolved' = [resolved EXCEPT ![s] = @ \ {w}]
  /\ Keep(s, Activated(w))
  /\ subs' = [subs EXCEPT ![s] = Inferred(Deactivated(@))]
  /\ UNCHANGED <<checkout, session, optOuts, asked>>

(* upsertSubscription with source manual *)
Subscribe(s, p) ==
  /\ session[s] # None
  /\ subs' = [subs EXCEPT ![s][p] = [source |-> "manual", active |-> TRUE, actionable |-> FALSE]]
  /\ UNCHANGED <<checkout, session, resolved, binding, optOuts, actor, asked>>

Unfollowed(s, p) == [subs EXCEPT ![s][p] = Ended(@)]

(* handleUnsubscribe of a subscription that was made for a pull request of this binding *)
UnsubscribeFollowed(s, p) ==
  LET mine == actor[s] # None /\ actor[s].pr = p
      a == UnsubscribeAutomatic(IF mine THEN actor[s] ELSE Restored(s), p)
  IN  /\ session[s] # None /\ binding[s] # None /\ binding[s].branch # None
      /\ p \in Automatic(s)
      /\ Keep(s, a)
      /\ subs' = Unfollowed(s, p)
      /\ optOuts' = IF a.state = "unsubscribed" THEN Recorded(OptOut(s, a.tree, a.branch, p)) ELSE optOuts
      /\ asked' = asked \cup {OptOut(s, binding[s].tree, binding[s].branch, p)}
      /\ UNCHANGED <<checkout, session, resolved>>

(* handleUnsubscribe of any other *)
UnsubscribeOther(s, p) ==
  /\ session[s] # None
  /\ p \in Followed(s)
  /\ binding[s] # None /\ binding[s].branch # None => subs[s][p].source = "manual"
  /\ subs' = Unfollowed(s, p)
  /\ UNCHANGED <<checkout, session, resolved, binding, optOuts, actor, asked>>

(* unregisterSession, deleteSession, reapStaleSessions with closeInactiveSessions *)
Close(s) ==
  /\ Active(s)
  /\ session' = [session EXCEPT ![s].status = "closed"]
  /\ actor' = [actor EXCEPT ![s] = None]
  /\ UNCHANGED <<checkout, resolved, binding, subs, optOuts, asked>>

(* reconcileSubscriptionPolicies, when the pull request has been polled, by a user who is known or not *)
Reconcile(p, known) ==
  /\ subs' = [s \in Session |->
                IF p \in Followed(s)
                THEN [subs[s] EXCEPT ![p].actionable =
                        known /\ p \in Own /\ binding[s] # None /\ binding[s].branch = HeadOf[p]]
                ELSE subs[s]]
  /\ UNCHANGED <<checkout, session, resolved, binding, optOuts, actor, asked>>

-----------------------------------------------------------------------------
(* What discovery says                                                       *)

(* What a session follows when it was said to follow p *)
Following(s, a, p) ==
  LET before == Actor(s).pr
  IN  IF a.state # "following" THEN subs[s]
      ELSE Baselined(IF before # p THEN Deactivated(subs[s]) ELSE subs[s], p)

(* pullRequestFound *)
Found(s, p) ==
  LET f == PrFound(Actor(s), p)
      a == IF OptedOut(s, binding[s], p) THEN UnsubscribeAutomatic(f, p) ELSE f
  IN  /\ binding[s] # None
      /\ Keep(s, a)
      /\ subs' = [subs EXCEPT ![s] = Following(s, a, p)]
      /\ UNCHANGED <<checkout, session, resolved, optOuts, asked>>

(* rejectAutomaticPullRequest *)
Reject(s) ==
  /\ session[s] # None
  /\ subs' = [subs EXCEPT ![s] = Deactivated(@)]
  /\ UNCHANGED <<checkout, session, resolved, binding, optOuts, actor, asked>>

(* pullRequestNotOwned *)
NotOwned(s, p) ==
  /\ binding[s] # None
  /\ Keep(s, PrNotOwned(Actor(s), p))
  /\ subs' = [subs EXCEPT ![s] = Deactivated(@)]
  /\ UNCHANGED <<checkout, session, resolved, optOuts, asked>>

(* pullRequestNotFound *)
NotFound(s) ==
  /\ binding[s] # None
  /\ Keep(s, PrNotFound(Actor(s)))
  /\ UNCHANGED <<checkout, session, resolved, subs, optOuts, asked>>

(* recordBranchAssociation: a session without a worktree follows at once *)
Associate(s, p) ==
  /\ session[s] # None /\ session[s].branch = HeadOf[p] /\ binding[s] = None
  /\ subs' = [subs EXCEPT ![s] = Baselined(@, p)]
  /\ UNCHANGED <<checkout, session, resolved, binding, optOuts, actor, asked>>

-----------------------------------------------------------------------------
(* A write that fails costs the actor, a restart all of them *)
Discard(s) ==
  /\ actor[s] # None
  /\ actor' = [actor EXCEPT ![s] = None]
  /\ UNCHANGED <<checkout, session, resolved, binding, subs, optOuts, asked>>

(* The daemon's startup also suspends and resets what has to be verified anew, one row after *)
(* the other; nothing is served until it is done, and one that dies is followed by another   *)
Reset ==
  /\ actor' = [s \in Session |-> None]
  /\ resolved' = [s \in Session |-> {}]
  /\ subs' = [s \in Session |-> Inferred(Deactivated(subs[s]))]
  /\ UNCHANGED <<checkout, session, binding, optOuts, asked>>

(* git checkout *)
Checkout(t, b) ==
  /\ checkout[t] # b
  /\ checkout' = [checkout EXCEPT ![t] = b]
  /\ UNCHANGED <<session, resolved, binding, subs, optOuts, actor, asked>>

BindingInit ==
  /\ checkout \in [Tree -> Branch]
  /\ session = [s \in Session |-> None]
  /\ resolved = [s \in Session |-> {}]
  /\ binding = [s \in Session |-> None]
  /\ subs = [s \in Session |-> [p \in Pr |-> None]]
  /\ optOuts = <<>>
  /\ actor = [s \in Session |-> None]
  /\ asked = {}

Request(s) ==
  \/ Register(s) \/ Idle(s) \/ Control(s) \/ Close(s)
  \/ \E w \in resolved[s] : Activate(s, w)
  \/ \E t \in Tree : Resolve(s, t)
  \/ \E p \in Pr : Subscribe(s, p) \/ UnsubscribeFollowed(s, p) \/ UnsubscribeOther(s, p)

Discovery ==
  \/ \E s \in Session, p \in Own : Found(s, p) \/ Associate(s, p)
  \/ \E s \in Session, p \in Pr \ Own : NotOwned(s, p)
  \/ \E s \in Session : Reject(s) \/ NotFound(s)

Local ==
  \/ Reset
  \/ \E s \in Session : Discard(s)
  \/ \E p \in Pr, known \in BOOLEAN : Reconcile(p, known)
  \/ \E t \in Tree, b \in Branch \cup {None} : Checkout(t, b)

BindingNext == (\E s \in Session : Request(s)) \/ Discovery \/ Local

BindingSpec == BindingInit /\ [][BindingNext]_bindingVars

-----------------------------------------------------------------------------
States == {"waiting", "following", "foreign", "unsubscribed", "detached"}

(* Every variable holds values of its type, and the row says what the actor does. *)
BindingTypeOK ==
  /\ checkout \in [Tree -> Branch \cup {None}]
  /\ \A s \in Session :
       /\ session[s] # None => session[s] \in [status : {"active", "closed"}, branch : Branch]
       /\ binding[s] # None => binding[s] \in [tree : Tree, branch : Branch \cup {None}, state : States]
       /\ actor[s] # None => binding[s] = Bound(actor[s])
       /\ \A p \in Pr : subs[s][p] # None =>
            subs[s][p] \in [source : {"automatic", "manual"}, active : BOOLEAN, actionable : BOOLEAN]

(* docs/plans/initial-implementation.md: activating a worktree removes "the preceding   *)
(* automatic subscription", a session has one active worktree: however pull requests of *)
(* a branch, worktrees and restarts follow each other, a bound session follows one by   *)
(* itself, and none while it waits, is detached or found somebody else's.               *)
FollowsAsBound ==
  \A s \in Session : binding[s] # None =>
    /\ \A p, q \in Automatic(s) : p = q
    /\ binding[s].state \in {"waiting", "foreign", "detached"} => Automatic(s) = {}

(* docs/plans/initial-implementation.md: an opt-out is persisted "so discovery does not  *)
(* recreate it on every poll": what a user unsubscribed from is not followed again in    *)
(* that worktree and branch, over restarts, discarded actors and other worktrees.        *)
OptOutRespected ==
  \A s \in Session, p \in Pr :
    p \in Automatic(s) /\ binding[s] # None => OptOut(s, binding[s].tree, binding[s].branch, p) \notin asked
=============================================================================
