------------------------- MODULE MCBranchDiscovery -------------------------
(***************************************************************************)
(* Small instances of BranchDiscovery, and of WorktreeBinding under it,    *)
(* for TLC; the first state chooses.  Pull requests 1, 2 and 3 have the    *)
(* first branch, 4 the second; all but 3 are the user's.                   *)
(* "two", "foreign", "lasting" and "tagged" are of the whole module and    *)
(* fair, the first two and the last with an ETag in every answer; in       *)
(* "branches", "trees" and "others" discovery may say anything that is     *)
(* true.  Sessions close and users subscribe by hand in "lasting" and      *)
(* "others" alone.                                                         *)
(***************************************************************************)
EXTENDS BranchDiscovery

CONSTANTS s1, b1, b2, t1, t2, Slices

MCHead == [p \in Pr |-> IF p = 4 THEN b2 ELSE b1]
MCOwn == Pr \ {3}
MCHome == [s \in Session |-> t1]

VARIABLE slice

mcVars == <<vars, slice>>

Prs == [two |-> {1, 2}, foreign |-> {1, 3}, lasting |-> {1}, tagged |-> {1},
        branches |-> {1, 4}, trees |-> {1, 2}, others |-> {1, 3}]

Whole == {"two", "foreign", "lasting", "tagged"}
Every == {"lasting", "others"}
Trees == IF slice = "trees" THEN Tree ELSE {t1}
Branches == IF slice = "branches" THEN Branch ELSE {b1}

Fits ==
  /\ \A p \in Pr \ Prs[slice] : remote[p] = "none" /\ \A s \in Session : subs[s][p] = None
  /\ \A t \in Tree : checkout[t] \in Branches \cup {None} /\ (t \notin Trees => checkout[t] = b1)
  /\ \A s \in Session : \A w \in resolved[s] : w.tree \in Trees
  /\ slice \notin Every => \A s \in Session :
       /\ session[s] # None => Active(s)
       /\ \A p \in Pr : subs[s][p] # None =>
            subs[s][p].source = "automatic" /\ subs[s][p].actionable = subs[s][p].active

AllTagged == tick.step = "answered" /\ tick'.step = "saved" => etag'[tick.branch] = {tick.pr}

MCInit == DiscoveryInit /\ slice \in Slices /\ Fits

MCNext ==
  /\ UNCHANGED slice
  /\ \/ slice \in Whole /\ DiscoveryNext /\ (slice # "lasting" => AllTagged)
     \/ slice \notin Whole /\ BindingNext /\ UNCHANGED discoveryVars
  /\ Fits'

MCSpec == MCInit /\ [][MCNext]_mcVars /\ (slice \in Whole => Fairness)

FollowsItsPrWhenFair == slice \in Whole => FollowsItsPr

NewPrIsFollowedWhenFair == slice \in Whole => NewPrIsFollowed
=============================================================================
