----------------------- MODULE BranchDiscoveryProofs -----------------------
(***************************************************************************)
(* Proofs about WorktreeBinding and BranchDiscovery, for any sessions,     *)
(* worktrees, branches and pull requests: a bound session follows one pull *)
(* request by itself, and none that its user unsubscribed from in that     *)
(* worktree and branch; the ticks of discovery do to sessions what the     *)
(* bindings let discovery do; and a branch's pull request is replaced only *)
(* after its end was stored.                                               *)
(***************************************************************************)
EXTENDS BranchDiscovery, FiniteSetTheorems, WellFoundedInduction, TLAPS

Row == [source : {"automatic", "manual"}, active : BOOLEAN, actionable : BOOLEAN]
Rows == [Pr -> Row \cup {None}]

(* What a session with these subscriptions follows by itself *)
AutoPrs(row) == {p \in Pr : row[p] # None /\ row[p].active /\ row[p].source = "automatic"}

Worktree == [tree : Tree, branch : Branch \cup {None}]
OptOuts == [session : Session, tree : Tree, branch : Branch, pr : Pr]

(* A machine of a worktree and branch *)
Machine(a, b) ==
  /\ a = [state |-> a.state, tree |-> a.tree, branch |-> a.branch, pr |-> a.pr]
  /\ a.tree = b.tree /\ a.branch = b.branch
  /\ a.state \in States
  /\ a.state = "detached" <=> a.branch = None

(* It knows what these subscriptions follow by themselves.  One that was unsubscribed *)
(* from what discovery said may still follow what it followed before.                 *)
Fits(a, row) ==
  /\ a.state \in {"waiting", "foreign", "detached"} => AutoPrs(row) = {}
  /\ a.state = "following" => AutoPrs(row) \subseteq {a.pr}
  /\ a.state = "unsubscribed" => a.pr \notin AutoPrs(row)

(* What is followed under a binding *)
Follows(s, b, row) ==
  /\ b \in [tree : Tree, branch : Branch \cup {None}, state : States]
  /\ b.state = "detached" <=> b.branch = None
  /\ b.state \in {"waiting", "foreign", "detached"} => AutoPrs(row) = {}
  /\ \A p, q \in AutoPrs(row) : p = q
  /\ \A p \in AutoPrs(row) : ~OptedOut(s, b, p)

Sound(s) ==
  binding[s] # None =>
    /\ Follows(s, binding[s], subs[s])
    /\ actor[s] # None => /\ binding[s] = Bound(actor[s])
                          /\ Machine(actor[s], binding[s])
                          /\ Fits(actor[s], subs[s])

Typed ==
  /\ checkout \in [Tree -> Branch \cup {None}]
  /\ resolved \in [Session -> SUBSET Worktree]
  /\ binding = [s \in Session |-> binding[s]] /\ actor = [s \in Session |-> actor[s]]
  /\ subs \in [Session -> Rows]
  /\ optOuts \in Seq(OptOuts)

(* What users unsubscribed from was recorded *)
Recollected == \A o \in asked : \E i \in DOMAIN optOuts : optOuts[i] = o

BindingInv == Typed /\ Recollected /\ \A s \in Session : Sound(s)

-----------------------------------------------------------------------------
(* Rows                                                                      *)

LEMMA RowEnded ==
  ASSUME NEW r \in Row PROVE Ended(r) \in Row /\ ~Ended(r).active
  BY DEF Row, Ended

LEMMA RowChanged ==
  ASSUME NEW r \in Row, NEW d \in BOOLEAN
  PROVE  [r EXCEPT !.actionable = d] = [source |-> r.source, active |-> r.active, actionable |-> d]
  BY DEF Row

LEMMA RowsDeactivated ==
  ASSUME NEW row \in Rows PROVE Deactivated(row) \in Rows /\ AutoPrs(Deactivated(row)) = {}
<1> DEFINE f(p) == IF row[p] # None /\ row[p].source = "automatic"
                   THEN Ended(row[p]) ELSE row[p]
<1>1. ASSUME NEW p \in Pr
      PROVE /\ f(p) \in Row \cup {None}
            /\ f(p) # None /\ f(p).source = "automatic" => ~f(p).active
  <2>1. CASE row[p] # None /\ row[p].source = "automatic"
    <3>1. row[p] \in Row
      BY <2>1 DEF Rows
    <3> QED BY <2>1, <3>1, RowEnded
  <2>2. CASE ~(row[p] # None /\ row[p].source = "automatic")
    BY <2>2 DEF Rows
  <2> QED BY <2>1, <2>2
<1>2. Deactivated(row) = [p \in Pr |-> f(p)]
  BY DEF Deactivated
<1> HIDE DEF f
<1> QED BY <1>1, <1>2 DEF Rows, AutoPrs

LEMMA RowsInferred ==
  ASSUME NEW row \in Rows PROVE Inferred(row) \in Rows /\ AutoPrs(Inferred(row)) \subseteq AutoPrs(row)
<1> DEFINE f(p) == IF row[p] # None /\ row[p].active THEN [row[p] EXCEPT !.actionable = FALSE] ELSE row[p]
<1>1. ASSUME NEW p \in Pr
      PROVE /\ f(p) \in Row \cup {None}
            /\ f(p) # None => /\ row[p] # None /\ f(p).active = row[p].active
                              /\ f(p).source = row[p].source
  <2>1. CASE row[p] # None /\ row[p].active
    <3>1. row[p] \in Row
      BY <2>1 DEF Rows
    <3>2. [row[p] EXCEPT !.actionable = FALSE] =
            [source |-> row[p].source, active |-> row[p].active, actionable |-> FALSE]
      BY <2>1, <3>1, RowChanged DEF Row
    <3>3. f(p) = [source |-> row[p].source, active |-> row[p].active, actionable |-> FALSE]
      BY <2>1, <3>2
    <3> QED BY <2>1, <3>1, <3>3 DEF Row
  <2>2. CASE ~(row[p] # None /\ row[p].active)
    BY <2>2 DEF Rows
  <2> QED BY <2>1, <2>2
<1>2. Inferred(row) = [p \in Pr |-> f(p)]
  BY DEF Inferred
<1> HIDE DEF f
<1> QED BY <1>1, <1>2 DEF Rows, AutoPrs

LEMMA RowsBaselined ==
  ASSUME NEW row \in Rows, NEW p \in Pr
  PROVE  Baselined(row, p) \in Rows /\ AutoPrs(Baselined(row, p)) \subseteq AutoPrs(row) \cup {p}
<1> DEFINE new == [source |-> "automatic", active |-> TRUE, actionable |-> TRUE]
<1>1. new \in Row
  BY DEF Row
<1>2. CASE Baselined(row, p) = row
  BY <1>2
<1>3. CASE Baselined(row, p) = [row EXCEPT ![p] = new]
  <2> HIDE DEF new
  <2> QED BY <1>1, <1>3 DEF Rows, AutoPrs
<1> QED BY <1>2, <1>3 DEF Baselined

(* One subscription that is not followed by itself is put in *)
LEMMA RowsReplaced ==
  ASSUME NEW row \in Rows, NEW p \in Pr, NEW new \in Row, ~(new.active /\ new.source = "automatic")
  PROVE  [row EXCEPT ![p] = new] \in Rows /\ AutoPrs([row EXCEPT ![p] = new]) = AutoPrs(row) \ {p}
<1>1. CASE new = None
  BY <1>1 DEF Rows, AutoPrs
<1>2. CASE new # None
  BY <1>2 DEF Rows, AutoPrs
<1> QED BY <1>1, <1>2

(* ... or changed in what discovery decides *)
LEMMA RowsDecided ==
  ASSUME NEW row \in Rows, NEW p \in Pr, row[p] # None, NEW d \in BOOLEAN
  PROVE  [row EXCEPT ![p].actionable = d] \in Rows /\ AutoPrs([row EXCEPT ![p].actionable = d]) \subseteq AutoPrs(row)
<1>1. row[p] \in Row
  BY DEF Rows
<1>2. [row[p] EXCEPT !.actionable = d] =
        [source |-> row[p].source, active |-> row[p].active, actionable |-> d]
  BY <1>1 DEF Row
<1> DEFINE new == [source |-> row[p].source, active |-> row[p].active, actionable |-> d]
<1>3. new \in Row /\ new.source = row[p].source /\ new.active = row[p].active
  BY <1>1 DEF Row
<1>4. [row EXCEPT ![p].actionable = d] = [row EXCEPT ![p] = new]
  BY <1>2
<1> HIDE DEF new
<1> QED BY <1>3, <1>4 DEF Rows, AutoPrs

LEMMA RowsEnded ==
  ASSUME NEW row \in Rows, NEW p \in Pr, row[p] # None
  PROVE  /\ [row EXCEPT ![p] = Ended(row[p])] \in Rows
         /\ AutoPrs([row EXCEPT ![p] = Ended(row[p])]) = AutoPrs(row) \ {p}
<1>1. row[p] \in Row
  BY DEF Rows
<1> QED BY <1>1, RowEnded, RowsReplaced

LEMMA AutomaticIsAuto ==
  ASSUME NEW s \in Session PROVE Automatic(s) = AutoPrs(subs[s])
  BY DEF Automatic, Followed, AutoPrs

-----------------------------------------------------------------------------
(* The machine                                                               *)

LEMMA FoundIs ==
  ASSUME NEW a, NEW b, Machine(a, b), NEW p, a.state \in {"waiting", "following", "foreign"}
  PROVE  PrFound(a, p) = [state |-> "following", tree |-> a.tree, branch |-> a.branch, pr |-> p]
<1> DEFINE r1 == [a EXCEPT !.state = "following"]
<1>1. r1 = [state |-> "following", tree |-> a.tree, branch |-> a.branch, pr |-> a.pr]
  BY DEF Machine
<1> HIDE DEF r1
<1>2. [r1 EXCEPT !.pr = p] = [state |-> "following", tree |-> a.tree, branch |-> a.branch, pr |-> p]
  BY <1>1
<1> QED BY <1>2 DEF PrFound, r1

LEMMA FoundKeeps ==
  ASSUME NEW a, NEW b, Machine(a, b), NEW p
  PROVE  /\ Machine(PrFound(a, p), b)
         /\ PrFound(a, p).state = "following" => PrFound(a, p).pr = p
         /\ PrFound(a, p).state # "following" => PrFound(a, p) = a
<1>1. CASE a.state \in {"waiting", "following", "foreign"}
  <2> DEFINE f == PrFound(a, p)
  <2>1. f = [state |-> "following", tree |-> a.tree, branch |-> a.branch, pr |-> p]
    BY <1>1, FoundIs
  <2> HIDE DEF f
  <2>2. f.state = "following" /\ f.tree = a.tree /\ f.branch = a.branch /\ f.pr = p
    BY <2>1
  <2>3. Machine(f, b)
    BY <1>1, <2>1, <2>2 DEF Machine, States
  <2> QED BY <2>2, <2>3 DEF f
<1>2. CASE a.state \notin {"waiting", "following", "foreign"}
  BY <1>2 DEF PrFound
<1> QED BY <1>1, <1>2

LEMMA NotOwnedKeeps ==
  ASSUME NEW a, NEW b, Machine(a, b), NEW p
  PROVE  /\ Machine(PrNotOwned(a, p), b)
         /\ PrNotOwned(a, p).state # "following"
<1>1. CASE a.state \in {"waiting", "following", "foreign"}
  <2> DEFINE f == PrNotOwned(a, p)
             r1 == [a EXCEPT !.state = "foreign"]
  <2>1. r1 = [state |-> "foreign", tree |-> a.tree, branch |-> a.branch, pr |-> a.pr]
    BY DEF Machine
  <2>2. f = [r1 EXCEPT !.pr = p]
    BY <1>1 DEF PrNotOwned
  <2> HIDE DEF f, r1
  <2>3. f = [state |-> "foreign", tree |-> a.tree, branch |-> a.branch, pr |-> p]
    BY <2>1, <2>2
  <2>4. f.state = "foreign" /\ f.tree = a.tree /\ f.branch = a.branch /\ f.pr = p
    BY <2>3
  <2>5. Machine(f, b)
    BY <1>1, <2>3, <2>4 DEF Machine, States
  <2> QED BY <2>4, <2>5 DEF f
<1>2. CASE a.state \notin {"waiting", "following", "foreign"}
  BY <1>2 DEF PrNotOwned
<1> QED BY <1>1, <1>2

LEMMA NotFoundKeeps ==
  ASSUME NEW a, NEW b, Machine(a, b)
  PROVE  /\ Machine(PrNotFound(a), b)
         /\ PrNotFound(a) = a \/ (a.state = "foreign" /\ PrNotFound(a).state = "waiting")
<1>1. CASE a.state = "foreign"
  <2> DEFINE f == PrNotFound(a)
             r1 == [a EXCEPT !.state = "waiting"]
  <2>1. r1 = [state |-> "waiting", tree |-> a.tree, branch |-> a.branch, pr |-> a.pr]
    BY DEF Machine
  <2>2. f = [r1 EXCEPT !.pr = None]
    BY <1>1 DEF PrNotFound
  <2> HIDE DEF f, r1
  <2>3. f = [state |-> "waiting", tree |-> a.tree, branch |-> a.branch, pr |-> None]
    BY <2>1, <2>2
  <2>4. f.state = "waiting" /\ f.tree = a.tree /\ f.branch = a.branch /\ f.pr = None
    BY <2>3
  <2>5. Machine(f, b)
    BY <1>1, <2>3, <2>4 DEF Machine, States
  <2> QED BY <1>1, <2>4, <2>5 DEF f
<1>2. CASE a.state # "foreign"
  BY <1>2 DEF PrNotFound
<1> QED BY <1>1, <1>2

LEMMA UnsubscribeKeeps ==
  ASSUME NEW a, NEW b, Machine(a, b), NEW p
  PROVE  /\ Machine(UnsubscribeAutomatic(a, p), b)
         /\ UnsubscribeAutomatic(a, p).pr = a.pr
         /\ IF a.state = "following" /\ a.pr = p THEN UnsubscribeAutomatic(a, p).state = "unsubscribed"
            ELSE UnsubscribeAutomatic(a, p) = a
<1>1. CASE a.state = "following" /\ a.pr = p
  <2> DEFINE f == UnsubscribeAutomatic(a, p)
  <2>1. f = [a EXCEPT !.state = "unsubscribed"]
    BY <1>1 DEF UnsubscribeAutomatic
  <2> HIDE DEF f
  <2>2. f = [state |-> "unsubscribed", tree |-> a.tree, branch |-> a.branch, pr |-> a.pr]
    BY <2>1 DEF Machine
  <2>3. f.state = "unsubscribed" /\ f.tree = a.tree /\ f.branch = a.branch /\ f.pr = a.pr
    BY <2>2
  <2>4. Machine(f, b)
    BY <1>1, <2>2, <2>3 DEF Machine, States
  <2> QED BY <1>1, <2>3, <2>4 DEF f
<1>2. CASE ~(a.state = "following" /\ a.pr = p)
  BY <1>2 DEF UnsubscribeAutomatic
<1> QED BY <1>1, <1>2

LEMMA ActivatedIs ==
  ASSUME NEW w
  PROVE  /\ Machine(Activated(w), w)
         /\ Activated(w).state = (IF w.branch = None THEN "detached" ELSE "waiting")
  BY DEF Activated, Machine, States

-----------------------------------------------------------------------------
(* An actor that is restored from the rows is as good as the one that was lost *)

LEMMA RestoredFits ==
  ASSUME Typed, NEW s \in Session, binding[s] # None, Sound(s)
  PROVE  /\ Machine(Restored(s), binding[s]) /\ Fits(Restored(s), subs[s])
         /\ \A p \in AutoPrs(subs[s]) : Restored(s).state = "following" /\ Restored(s).pr = p
<1> DEFINE b == binding[s]
           w == Activated(b)
           A == AutoPrs(subs[s])
<1>1. Machine(w, b) /\ w.state = (IF b.branch = None THEN "detached" ELSE "waiting")
  BY ActivatedIs
<1>2. /\ b.state = "detached" <=> b.branch = None
      /\ b.state \in {"waiting", "foreign", "detached"} => A = {}
      /\ \A p, q \in A : p = q
  BY DEF Sound, Follows
<1>3. Automatic(s) = A
  BY AutomaticIsAuto
<1> HIDE DEF A, b, w
<1>4. CASE b.branch = None
  <2>1. Restored(s) = w
    BY <1>4 DEF Restored, b, w
  <2>2. A = {}
    BY <1>2, <1>4
  <2> QED BY <1>1, <1>4, <2>1, <2>2 DEF Fits, A, b
<1>5. CASE b.branch # None /\ A # {}
  <2> DEFINE p == CHOOSE q \in A : TRUE
  <2>1. p \in A /\ A = {p} /\ A \subseteq Pr
    BY <1>2, <1>5 DEF AutoPrs, A
  <2>2. p # None
    BY <2>1, HomeAssumption
  <2>3. Restored(s) = PrFound(w, p)
    BY <1>3, <1>5, <2>2 DEF Restored, b, w
  <2> HIDE DEF p
  <2>4. PrFound(w, p) = [state |-> "following", tree |-> w.tree, branch |-> w.branch, pr |-> p]
    <3>1. w.state = "waiting"
      BY <1>1, <1>5
    <3> QED BY <1>1, <3>1, FoundIs
  <2>5. Machine(PrFound(w, p), b)
    BY <1>1, FoundKeeps
  <2>6. Restored(s).state = "following" /\ Restored(s).pr = p
    BY <2>3, <2>4
  <2> QED BY <2>1, <2>3, <2>5, <2>6 DEF Fits, A, b
<1>6. CASE b.branch # None /\ A = {}
  <2> DEFINE o == LastOptOut(s, b)
             r == IF o # None THEN UnsubscribeAutomatic(PrFound(w, o), o) ELSE w
  <2>1. Restored(s) = r
    BY <1>3, <1>6 DEF Restored, b, w
  <2> HIDE DEF o
  <2>2. Machine(r, b)
    BY <1>1, FoundKeeps, UnsubscribeKeeps
  <2> HIDE DEF r
  <2> QED BY <1>6, <2>1, <2>2 DEF Fits, A, b
<1> QED BY <1>4, <1>5, <1>6

LEMMA ActorFits ==
  ASSUME Typed, NEW s \in Session, binding[s] # None, Sound(s)
  PROVE  Machine(Actor(s), binding[s]) /\ Fits(Actor(s), subs[s])
  BY RestoredFits DEF Actor, Sound

-----------------------------------------------------------------------------
(* What steps do to a session                                                *)

(* Nothing but that it follows less by itself, or loses its actor *)
LEMMA LessIsSound ==
  ASSUME NEW s \in Session, Sound(s), UNCHANGED optOuts, binding'[s] = binding[s],
         actor'[s] = actor[s] \/ actor'[s] = None,
         binding[s] # None => AutoPrs(subs'[s]) \subseteq AutoPrs(subs[s])
  PROVE  Sound(s)'
<1>1. ASSUME binding[s] # None PROVE Follows(s, binding[s], subs[s])'
  BY <1>1 DEF Sound, Follows, OptedOut
<1>2. ASSUME binding[s] # None, actor'[s] # None PROVE Fits(actor[s], subs[s])'
  BY <1>2 DEF Sound, Fits
<1> QED BY <1>1, <1>2 DEF Sound

(* Its actor goes on, and the row with it *)
LEMMA KeptIsSound ==
  ASSUME NEW s \in Session, NEW a, NEW w, Machine(a, w), w.tree \in Tree, w.branch \in Branch \cup {None},
         actor'[s] = a, binding'[s] = Bound(a), Fits(a, subs'[s]),
         \A p, q \in AutoPrs(subs'[s]) : p = q,
         \A p \in AutoPrs(subs'[s]) : ~OptedOut(s, w, p)'
  PROVE  Sound(s)'
<1> DEFINE b == Bound(a)
<1>1. /\ b = [tree |-> a.tree, branch |-> a.branch, state |-> a.state]
      /\ b.tree = w.tree /\ b.branch = w.branch /\ b.state = a.state
  BY DEF Bound, Machine
<1>2. b \in [tree : Tree, branch : Branch \cup {None}, state : States] /\ (b.state = "detached" <=> b.branch = None)
  BY <1>1 DEF Machine
<1>3. Machine(a, b)
  BY <1>1 DEF Machine
<1> HIDE DEF b
<1>4. binding'[s] = b /\ b = Bound(a)
  BY DEF b
<1>5. Follows(s, binding[s], subs[s])'
  BY <1>1, <1>2, <1>4 DEF Follows, Fits, OptedOut, OptOut
<1> QED BY <1>3, <1>4, <1>5 DEF Sound

LEMMA OthersAreSound ==
  ASSUME Typed, NEW s \in Session, \A t \in Session : Sound(t), Sound(s)',
         NEW a, NEW b, NEW row,
         actor' = [actor EXCEPT ![s] = a], binding' = [binding EXCEPT ![s] = b],
         subs' = [subs EXCEPT ![s] = row], UNCHANGED optOuts
  PROVE  \A t \in Session : Sound(t)'
<1> SUFFICES ASSUME NEW t \in Session, t # s PROVE Sound(t)'
  OBVIOUS
<1>1. actor'[t] = actor[t] /\ binding'[t] = binding[t] /\ subs'[t] = subs[t]
  BY DEF Typed
<1> QED BY <1>1, LessIsSound

-----------------------------------------------------------------------------
(* Steps after which every session follows less, or is not bound              *)

LEMMA LessKeepsInv ==
  ASSUME BindingInv, UNCHANGED <<binding, optOuts, asked>>, Typed',
         \A s \in Session : actor'[s] = actor[s] \/ actor'[s] = None,
         \A s \in Session : binding[s] # None => AutoPrs(subs'[s]) \subseteq AutoPrs(subs[s])
  PROVE  BindingInv'
<1>1. Recollected'
  BY DEF BindingInv, Recollected
<1>2. \A s \in Session : Sound(s)'
  BY LessIsSound DEF BindingInv
<1> QED BY <1>1, <1>2 DEF BindingInv

(* The subscriptions of one session change *)
LEMMA RowKeepsInv ==
  ASSUME BindingInv, UNCHANGED <<checkout, resolved, binding, optOuts, actor, asked>>,
         NEW s \in Session, NEW row \in Rows, subs' = [subs EXCEPT ![s] = row],
         binding[s] # None => AutoPrs(row) \subseteq AutoPrs(subs[s])
  PROVE  BindingInv'
<1>1. Typed'
  BY DEF BindingInv, Typed
<1>2. \A t \in Session : binding[t] # None => AutoPrs(subs'[t]) \subseteq AutoPrs(subs[t])
  BY DEF BindingInv, Typed
<1> QED BY <1>1, <1>2, LessKeepsInv

(* The subscriptions of all do *)
LEMMA RowsKeepInv ==
  ASSUME BindingInv, UNCHANGED <<checkout, binding, optOuts, asked>>,
         resolved' \in [Session -> SUBSET Worktree],
         actor' = actor \/ actor' = [s \in Session |-> None],
         subs' = [s \in Session |-> subs'[s]],
         \A s \in Session : /\ subs'[s] \in Rows
                            /\ binding[s] # None => AutoPrs(subs'[s]) \subseteq AutoPrs(subs[s])
  PROVE  BindingInv'
<1>1. Typed'
  <2>1. subs' \in [Session -> Rows]
    OBVIOUS
  <2> QED BY <2>1 DEF BindingInv, Typed
<1>2. \A t \in Session : actor'[t] = actor[t] \/ actor'[t] = None
  OBVIOUS
<1> QED BY <1>1, <1>2, LessKeepsInv

LEMMA SessionsKeepInv ==
  ASSUME BindingInv, NEW s \in Session,
         \/ Register(s) \/ Idle(s) \/ Close(s) \/ Discard(s)
         \/ \E t \in Tree : Resolve(s, t)
  PROVE  BindingInv'
<1>1. UNCHANGED <<checkout, binding, subs, optOuts, asked>>
  BY DEF Register, Idle, Close, Discard, Resolve
<1>2. actor' = actor \/ actor' = [actor EXCEPT ![s] = None]
  BY DEF Register, Idle, Close, Discard, Resolve
<1>3. resolved' \in [Session -> SUBSET Worktree]
  <2>1. CASE UNCHANGED resolved
    BY <2>1 DEF BindingInv, Typed
  <2>2. ASSUME NEW t \in Tree, Resolve(s, t) PROVE resolved' \in [Session -> SUBSET Worktree]
    <3>1. [tree |-> t, branch |-> checkout[t]] \in Worktree
      BY DEF BindingInv, Typed, Worktree
    <3> QED BY <2>2, <3>1 DEF Resolve, BindingInv, Typed
  <2> QED BY <2>1, <2>2 DEF Register, Idle, Close, Discard
<1>4. Typed'
  BY <1>1, <1>2, <1>3 DEF BindingInv, Typed
<1>5. \A t \in Session : actor'[t] = actor[t] \/ actor'[t] = None
  BY <1>2 DEF BindingInv, Typed
<1> QED BY <1>1, <1>4, <1>5, LessKeepsInv

LEMMA SubscribeKeepsInv ==
  ASSUME BindingInv, NEW s \in Session, NEW p \in Pr, Subscribe(s, p) PROVE BindingInv'
<1> DEFINE new == [source |-> "manual", active |-> TRUE, actionable |-> FALSE]
           row == [subs[s] EXCEPT ![p] = new]
<1>1. subs[s] \in Rows
  BY DEF BindingInv, Typed
<1>2. new \in Row /\ new.source # "automatic"
  BY DEF Row
<1>3. subs' = [subs EXCEPT ![s] = row] /\ UNCHANGED <<checkout, resolved, binding, optOuts, actor, asked>>
  BY DEF Subscribe
<1> HIDE DEF new
<1>4. row \in Rows /\ AutoPrs(row) \subseteq AutoPrs(subs[s])
  BY <1>1, <1>2, RowsReplaced
<1> HIDE DEF row
<1> QED BY <1>3, <1>4, RowKeepsInv

LEMMA UnfollowedIs ==
  ASSUME Typed, NEW s \in Session, NEW p \in Followed(s)
  PROVE  \E row \in Rows : /\ Unfollowed(s, p) = [subs EXCEPT ![s] = row]
                           /\ AutoPrs(row) = AutoPrs(subs[s]) \ {p}
<1>1. subs[s] \in Rows /\ p \in Pr /\ subs[s][p] # None
  BY DEF Typed, Followed
<1> DEFINE row == [subs[s] EXCEPT ![p] = Ended(subs[s][p])]
<1>2. row \in Rows /\ AutoPrs(row) = AutoPrs(subs[s]) \ {p}
  BY <1>1, RowsEnded
<1>3. Unfollowed(s, p) = [subs EXCEPT ![s] = row]
  BY DEF Unfollowed
<1> HIDE DEF row
<1> QED BY <1>2, <1>3

LEMMA UnsubscribeOtherKeepsInv ==
  ASSUME BindingInv, NEW s \in Session, NEW p \in Pr, UnsubscribeOther(s, p) PROVE BindingInv'
<1>1. PICK row \in Rows : Unfollowed(s, p) = [subs EXCEPT ![s] = row] /\ AutoPrs(row) = AutoPrs(subs[s]) \ {p}
  BY UnfollowedIs DEF BindingInv, UnsubscribeOther
<1>2. subs' = [subs EXCEPT ![s] = row] /\ UNCHANGED <<checkout, resolved, binding, optOuts, actor, asked>>
  BY <1>1 DEF UnsubscribeOther
<1> QED BY <1>1, <1>2, RowKeepsInv

LEMMA RejectKeepsInv ==
  ASSUME BindingInv, NEW s \in Session, Reject(s) PROVE BindingInv'
<1> DEFINE row == Deactivated(subs[s])
<1>1. row \in Rows /\ AutoPrs(row) = {}
  BY RowsDeactivated DEF BindingInv, Typed
<1>2. subs' = [subs EXCEPT ![s] = row] /\ UNCHANGED <<checkout, resolved, binding, optOuts, actor, asked>>
  BY DEF Reject
<1> HIDE DEF row
<1> QED BY <1>1, <1>2, RowKeepsInv

(* A session that has come to another branch: Idle, and what it follows by itself ends *)
LEMMA ControlKeepsInv ==
  ASSUME BindingInv, NEW s \in Session, Control(s) PROVE BindingInv'
<1> DEFINE row == Deactivated(subs[s])
<1>1. row \in Rows /\ AutoPrs(row) = {}
  BY RowsDeactivated DEF BindingInv, Typed
<1>2. subs' = [subs EXCEPT ![s] = row] /\ UNCHANGED <<checkout, resolved, binding, optOuts, actor, asked>>
  BY DEF Control
<1> HIDE DEF row
<1> QED BY <1>1, <1>2, RowKeepsInv

LEMMA AssociateKeepsInv ==
  ASSUME BindingInv, NEW s \in Session, NEW p \in Own, Associate(s, p) PROVE BindingInv'
<1> DEFINE row == Baselined(subs[s], p)
<1>1. row \in Rows
  BY RowsBaselined, PrAssumption DEF BindingInv, Typed
<1>2. subs' = [subs EXCEPT ![s] = row] /\ UNCHANGED <<checkout, resolved, binding, optOuts, actor, asked>>
  BY DEF Associate
<1>3. binding[s] = None
  BY DEF Associate
<1> HIDE DEF row
<1> QED BY <1>1, <1>2, <1>3, RowKeepsInv

LEMMA AllKeepInv ==
  ASSUME BindingInv, Reset \/ (\E p \in Pr, known \in BOOLEAN : Reconcile(p, known))
  PROVE  BindingInv'
<1>1. \A s \in Session : subs[s] \in Rows
  BY DEF BindingInv, Typed
<1>3. CASE Reset
  <2> DEFINE f(s) == Inferred(Deactivated(subs[s]))
  <2>1. subs' = [s \in Session |-> f(s)]
    BY <1>3 DEF Reset
  <2>2. \A s \in Session : f(s) \in Rows /\ AutoPrs(f(s)) = {}
    BY <1>1, RowsDeactivated, RowsInferred
  <2>3. resolved' \in [Session -> SUBSET Worktree]
    BY <1>3 DEF Reset
  <2> HIDE DEF f
  <2> QED BY <1>3, <2>1, <2>2, <2>3, RowsKeepInv DEF Reset
<1>5. ASSUME NEW p \in Pr, NEW known \in BOOLEAN, Reconcile(p, known) PROVE BindingInv'
  <2> DEFINE d(s) == known /\ p \in Own /\ binding[s] # None /\ binding[s].branch = HeadOf[p]
             f(s) == IF p \in Followed(s) THEN [subs[s] EXCEPT ![p].actionable = d(s)] ELSE subs[s]
  <2>1. subs' = [s \in Session |-> f(s)]
    BY <1>5 DEF Reconcile
  <2>2. \A s \in Session : d(s) \in BOOLEAN
    OBVIOUS
  <2> HIDE DEF d
  <2>3. \A s \in Session : f(s) \in Rows /\ AutoPrs(f(s)) \subseteq AutoPrs(subs[s])
    <3> SUFFICES ASSUME NEW s \in Session PROVE f(s) \in Rows /\ AutoPrs(f(s)) \subseteq AutoPrs(subs[s])
      OBVIOUS
    <3>1. CASE p \in Followed(s)
      BY <1>1, <2>2, <3>1, RowsDecided DEF Followed
    <3>2. CASE p \notin Followed(s)
      BY <1>1, <3>2
    <3> QED BY <3>1, <3>2
  <2> HIDE DEF f
  <2> QED BY <1>5, <2>1, <2>3, RowsKeepInv DEF Reconcile, BindingInv, Typed
<1> QED BY <1>3, <1>5

LEMMA CheckoutKeepsInv ==
  ASSUME BindingInv, NEW t \in Tree, NEW b \in Branch \cup {None}, Checkout(t, b) PROVE BindingInv'
<1>1. UNCHANGED <<resolved, binding, subs, optOuts, actor, asked>>
  BY DEF Checkout
<1>2. Typed'
  BY <1>1 DEF BindingInv, Typed, Checkout
<1> QED BY <1>1, <1>2, LessKeepsInv

-----------------------------------------------------------------------------
(* Steps that an actor takes                                                 *)

LEMMA ActorKeepsInv ==
  ASSUME BindingInv, NEW s \in Session, NEW a, NEW w, NEW row \in Rows, Keep(s, a),
         Machine(a, w), w.tree \in Tree, w.branch \in Branch \cup {None}, Fits(a, row),
         \A p, q \in AutoPrs(row) : p = q, \A p \in AutoPrs(row) : ~OptedOut(s, w, p),
         subs' = [subs EXCEPT ![s] = row],
         resolved' \in [Session -> SUBSET Worktree], UNCHANGED <<checkout, optOuts, asked>>
  PROVE  BindingInv'
<1>1. actor' = [actor EXCEPT ![s] = a] /\ binding' = [binding EXCEPT ![s] = Bound(a)]
  BY DEF Keep
<1>2. Typed' /\ Recollected'
  BY <1>1 DEF BindingInv, Typed, Recollected
<1>3. subs'[s] = row /\ actor'[s] = a /\ binding'[s] = Bound(a)
  BY <1>1 DEF BindingInv, Typed
<1>4. \A p \in AutoPrs(subs'[s]) : ~OptedOut(s, w, p)'
  BY <1>3 DEF OptedOut
<1>5. Sound(s)'
  BY <1>3, <1>4, KeptIsSound
<1>6. \A t \in Session : Sound(t)'
  BY <1>1, <1>5, OthersAreSound DEF BindingInv
<1> QED BY <1>2, <1>6 DEF BindingInv

LEMMA ActivateKeepsInv ==
  ASSUME BindingInv, NEW s \in Session, NEW w, Activate(s, w) PROVE BindingInv'
<1> DEFINE row == Inferred(Deactivated(subs[s]))
           a == Activated(w)
<1>1. w \in Worktree /\ resolved' \in [Session -> SUBSET Worktree]
  BY DEF Activate, BindingInv, Typed
<1>2. w.tree \in Tree /\ w.branch \in Branch \cup {None}
  BY <1>1 DEF Worktree
<1>3. row \in Rows /\ AutoPrs(row) = {}
  BY RowsDeactivated, RowsInferred DEF BindingInv, Typed
<1>4. Machine(a, w)
  BY ActivatedIs
<1>5. a.state \in {"detached", "waiting"}
  BY ActivatedIs
<1>6. Keep(s, a) /\ subs' = [subs EXCEPT ![s] = row] /\ UNCHANGED <<checkout, optOuts, asked>>
  BY DEF Activate
<1> HIDE DEF a, row
<1>7. Fits(a, row)
  BY <1>3, <1>5 DEF Fits
<1> QED BY <1>1, <1>2, <1>3, <1>4, <1>6, <1>7, ActorKeepsInv

(* What an actor hears from discovery *)
LEMMA BoundActor ==
  ASSUME BindingInv, NEW s \in Session, binding[s] # None
  PROVE  /\ Machine(Actor(s), binding[s]) /\ Fits(Actor(s), subs[s]) /\ subs[s] \in Rows
         /\ binding[s].tree \in Tree /\ binding[s].branch \in Branch \cup {None}
         /\ \A p, q \in AutoPrs(subs[s]) : p = q
         /\ \A p \in AutoPrs(subs[s]) : ~OptedOut(s, binding[s], p)
<1>1. Typed /\ Sound(s) /\ Follows(s, binding[s], subs[s])
  BY DEF BindingInv, Sound
<1> QED BY <1>1, ActorFits DEF Follows, Typed

LEMMA NotOwnedKeepsInv ==
  ASSUME BindingInv, NEW s \in Session, NEW p, NotOwned(s, p) PROVE BindingInv'
<1> DEFINE row == Deactivated(subs[s])
           a == PrNotOwned(Actor(s), p)
           w == binding[s]
<1>1. Machine(Actor(s), w) /\ subs[s] \in Rows /\ w.tree \in Tree /\ w.branch \in Branch \cup {None}
  BY BoundActor DEF NotOwned
<1>2. Machine(a, w) /\ a.state # "following"
  BY <1>1, NotOwnedKeeps
<1>3. row \in Rows /\ AutoPrs(row) = {}
  BY <1>1, RowsDeactivated
<1>4. /\ Keep(s, a) /\ subs' = [subs EXCEPT ![s] = row] /\ UNCHANGED <<checkout, resolved, optOuts, asked>>
      /\ resolved \in [Session -> SUBSET Worktree]
  BY DEF NotOwned, BindingInv, Typed
<1> HIDE DEF a, row, w
<1>5. Fits(a, row)
  BY <1>2, <1>3 DEF Fits
<1> QED BY <1>1, <1>2, <1>3, <1>4, <1>5, ActorKeepsInv

LEMMA NotFoundKeepsInv ==
  ASSUME BindingInv, NEW s \in Session, NotFound(s) PROVE BindingInv'
<1> DEFINE row == subs[s]
           a == PrNotFound(Actor(s))
           w == binding[s]
<1>1. /\ Machine(Actor(s), w) /\ Fits(Actor(s), row) /\ row \in Rows
      /\ w.tree \in Tree /\ w.branch \in Branch \cup {None}
      /\ \A p, q \in AutoPrs(row) : p = q
      /\ \A p \in AutoPrs(row) : ~OptedOut(s, w, p)
  BY BoundActor DEF NotFound
<1>2. Machine(a, w) /\ (a = Actor(s) \/ (Actor(s).state = "foreign" /\ a.state = "waiting"))
  BY <1>1, NotFoundKeeps
<1>3. /\ Keep(s, a) /\ subs' = subs /\ UNCHANGED <<checkout, resolved, optOuts, asked>>
      /\ resolved \in [Session -> SUBSET Worktree] /\ subs \in [Session -> Rows]
  BY DEF NotFound, BindingInv, Typed
<1>4. subs' = [subs EXCEPT ![s] = row]
  BY <1>3
<1> HIDE DEF a, row, w
<1>5. Fits(a, row)
  BY <1>1, <1>2 DEF Fits
<1> QED BY <1>1, <1>2, <1>3, <1>4, <1>5, ActorKeepsInv

LEMMA FoundKeepsInv ==
  ASSUME BindingInv, NEW s \in Session, NEW p \in Pr, Found(s, p) PROVE BindingInv'
<1> DEFINE was == Actor(s)
           f == PrFound(was, p)
           w == binding[s]
           out == OptedOut(s, w, p)
           a == IF out THEN UnsubscribeAutomatic(f, p) ELSE f
           old == subs[s]
           row == Following(s, a, p)
<1>1. /\ Machine(was, w) /\ Fits(was, old) /\ old \in Rows
      /\ w.tree \in Tree /\ w.branch \in Branch \cup {None}
      /\ \A r, q \in AutoPrs(old) : r = q
      /\ \A q \in AutoPrs(old) : ~OptedOut(s, w, q)
  BY BoundActor DEF Found
<1>2. /\ Machine(f, w)
      /\ f.state = "following" => f.pr = p
      /\ f.state # "following" => f = was
  BY <1>1, FoundKeeps
<1>3. Machine(a, w)
  BY <1>2, UnsubscribeKeeps
<1>4. /\ Keep(s, a) /\ subs' = [subs EXCEPT ![s] = row] /\ UNCHANGED <<checkout, resolved, optOuts, asked>>
      /\ resolved \in [Session -> SUBSET Worktree]
  BY DEF Found, BindingInv, Typed
<1>5. CASE a.state # "following"
  <2>1. row = old
    BY <1>5 DEF Following
  <2>2. Fits(a, old)
    <3>1. CASE f.state # "following"
      <4>1. a = was
        BY <1>2, <3>1, UnsubscribeKeeps
      <4> QED BY <1>1, <4>1
    <3>2. CASE f.state = "following"
      <4>1. out
        BY <1>5, <3>2
      <4>2. a.state = "unsubscribed" /\ a.pr = p
        BY <1>2, <3>2, <4>1, UnsubscribeKeeps
      <4>3. p \notin AutoPrs(old)
        BY <1>1, <4>1
      <4> QED BY <4>2, <4>3 DEF Fits
    <3> QED BY <3>1, <3>2
  <2> HIDE DEF a, row, w, old
  <2> QED BY <1>1, <1>3, <1>4, <2>1, <2>2, ActorKeepsInv
<1>6. CASE a.state = "following"
  <2>1. ~out /\ f.state = "following" /\ a = f
    BY <1>2, <1>6, UnsubscribeKeeps
  <2>2. a.pr = p
    BY <1>2, <2>1
  <2>3. was.pr = p => AutoPrs(old) \subseteq {p}
    <3>1. was.state \in {"waiting", "following", "foreign"}
      BY <2>1 DEF PrFound
    <3> QED BY <1>1, <3>1 DEF Fits
  <2> DEFINE base == IF was.pr # p THEN Deactivated(old) ELSE old
  <2>4. row = Baselined(base, p)
    BY <1>6 DEF Following
  <2>5. base \in Rows /\ AutoPrs(base) \subseteq {p}
    BY <1>1, <2>3, RowsDeactivated
  <2> HIDE DEF base
  <2>6. row \in Rows /\ AutoPrs(row) \subseteq {p}
    BY <2>4, <2>5, RowsBaselined
  <2> HIDE DEF a, row
  <2>7. Fits(a, row)
    BY <1>6, <2>2, <2>6 DEF Fits
  <2>8. (\A r, q \in AutoPrs(row) : r = q) /\ (\A q \in AutoPrs(row) : ~OptedOut(s, w, q))
    BY <2>1, <2>6
  <2> HIDE DEF w, old, was, out
  <2> QED BY <1>1, <1>3, <1>4, <2>6, <2>7, <2>8, ActorKeepsInv
<1> QED BY <1>5, <1>6

-----------------------------------------------------------------------------
(* A user unsubscribes from what the session follows by itself               *)

LEMMA RecordedHas ==
  ASSUME Typed, NEW o \in OptOuts
  PROVE  /\ Recorded(o) \in Seq(OptOuts)
         /\ \E i \in DOMAIN Recorded(o) : Recorded(o)[i] = o
         /\ \A i \in DOMAIN optOuts : i \in DOMAIN Recorded(o) /\ Recorded(o)[i] = optOuts[i]
         /\ \A i \in DOMAIN Recorded(o) : Recorded(o)[i] = o \/ (i \in DOMAIN optOuts /\ Recorded(o)[i] = optOuts[i])
<1>1. optOuts \in Seq(OptOuts)
  BY DEF Typed
<1>2. CASE \E i \in DOMAIN optOuts : optOuts[i] = o
  BY <1>1, <1>2 DEF Recorded
<1>3. CASE ~\E i \in DOMAIN optOuts : optOuts[i] = o
  <2> DEFINE q == Append(optOuts, o)
  <2>1. Recorded(o) = q
    BY <1>3 DEF Recorded
  <2>2. /\ q \in Seq(OptOuts) /\ Len(q) = Len(optOuts) + 1 /\ Len(optOuts) \in Nat
        /\ DOMAIN q = 1..Len(q) /\ DOMAIN optOuts = 1..Len(optOuts)
        /\ q[Len(optOuts) + 1] = o
        /\ \A i \in 1..Len(optOuts) : q[i] = optOuts[i]
    BY <1>1
  <2> HIDE DEF q
  <2> QED BY <2>1, <2>2
<1> QED BY <1>2, <1>3

LEMMA UnsubscribedIs ==
  ASSUME BindingInv, NEW s \in Session, NEW p \in Pr, UnsubscribeFollowed(s, p)
  PROVE  \E a : /\ Machine(a, binding[s]) /\ a.state = "unsubscribed" /\ Keep(s, a)
                /\ optOuts' = Recorded(OptOut(s, a.tree, a.branch, p))
<1> DEFINE was == IF actor[s] # None /\ actor[s].pr = p THEN actor[s] ELSE Restored(s)
           a == UnsubscribeAutomatic(was, p)
<1>1. binding[s] # None /\ p \in AutoPrs(subs[s]) /\ Typed /\ Sound(s)
  BY AutomaticIsAuto DEF UnsubscribeFollowed, BindingInv
<1>2. Machine(was, binding[s]) /\ was.state = "following" /\ was.pr = p
  <2>1. CASE actor[s] # None /\ actor[s].pr = p
    <3>1. Machine(actor[s], binding[s]) /\ Fits(actor[s], subs[s])
      BY <1>1, <2>1 DEF Sound
    <3>2. actor[s].state = "following"
      BY <1>1, <2>1, <3>1 DEF Machine, Fits, States
    <3> QED BY <2>1, <3>1, <3>2
  <2>2. CASE ~(actor[s] # None /\ actor[s].pr = p)
    <3>1. was = Restored(s)
      BY <2>2
    <3> QED BY <1>1, <3>1, RestoredFits
  <2> QED BY <2>1, <2>2
<1>3. Keep(s, a) /\ optOuts' = IF a.state = "unsubscribed" THEN Recorded(OptOut(s, a.tree, a.branch, p)) ELSE optOuts
  BY DEF UnsubscribeFollowed
<1> HIDE DEF was
<1>4. Machine(a, binding[s]) /\ a.state = "unsubscribed"
  BY <1>2, UnsubscribeKeeps
<1> QED BY <1>3, <1>4

LEMMA UnsubscribeFollowedKeepsInv ==
  ASSUME BindingInv, NEW s \in Session, NEW p \in Pr, UnsubscribeFollowed(s, p) PROVE BindingInv'
<1> DEFINE o == OptOut(s, binding[s].tree, binding[s].branch, p)
<1>1. /\ binding[s] # None /\ binding[s].branch # None /\ p \in AutoPrs(subs[s]) /\ p \in Followed(s)
      /\ subs' = Unfollowed(s, p) /\ asked' = asked \cup {o} /\ UNCHANGED <<checkout, session, resolved>>
  BY AutomaticIsAuto DEF UnsubscribeFollowed, Automatic
<1>2. /\ Typed /\ Recollected /\ \A t \in Session : Sound(t)
      /\ binding[s].tree \in Tree /\ binding[s].branch \in Branch \cup {None}
      /\ \A q \in AutoPrs(subs[s]) : q = p
  BY <1>1, BoundActor DEF BindingInv
<1>3. PICK a : /\ Machine(a, binding[s]) /\ a.state = "unsubscribed" /\ Keep(s, a)
               /\ optOuts' = Recorded(OptOut(s, a.tree, a.branch, p))
  BY UnsubscribedIs
<1>4. optOuts' = Recorded(o)
  BY <1>3 DEF Machine
<1>5. o \in OptOuts /\ o.session = s
  BY <1>1, <1>2 DEF OptOuts, OptOut
<1> HIDE DEF o
<1>6. PICK row \in Rows : subs' = [subs EXCEPT ![s] = row] /\ AutoPrs(row) = {}
  BY <1>1, <1>2, UnfollowedIs
<1>7. actor' = [actor EXCEPT ![s] = a] /\ binding' = [binding EXCEPT ![s] = Bound(a)]
  BY <1>3 DEF Keep
<1>8. Typed'
  <2>1. optOuts' \in Seq(OptOuts)
    BY <1>2, <1>4, <1>5, RecordedHas
  <2>2. subs' \in [Session -> Rows]
    BY <1>2, <1>6 DEF Typed
  <2>3. binding' = [t \in Session |-> binding'[t]] /\ actor' = [t \in Session |-> actor'[t]]
    BY <1>2, <1>7 DEF Typed
  <2> QED BY <1>1, <1>2, <2>1, <2>2, <2>3 DEF Typed
<1>9. Recollected'
  BY <1>1, <1>2, <1>4, <1>5, RecordedHas DEF Recollected
<1>10. Sound(s)'
  <2>1. subs'[s] = row /\ actor'[s] = a /\ binding'[s] = Bound(a)
    BY <1>2, <1>6, <1>7 DEF Typed
  <2>2. Fits(a, row)
    BY <1>3, <1>6 DEF Fits
  <2> QED BY <1>2, <1>3, <1>6, <2>1, <2>2, KeptIsSound
<1>11. ASSUME NEW t \in Session, t # s PROVE Sound(t)'
  <2>1. actor'[t] = actor[t] /\ binding'[t] = binding[t] /\ subs'[t] = subs[t]
    BY <1>2, <1>6, <1>7, <1>11 DEF Typed
  <2>2. \A b, q : OptedOut(t, b, q)' => OptedOut(t, b, q)
    <3>1. SUFFICES ASSUME NEW b, NEW q, NEW i \in DOMAIN optOuts', optOuts'[i] = OptOut(t, b.tree, b.branch, q)
                   PROVE  \E j \in DOMAIN optOuts : optOuts[j] = OptOut(t, b.tree, b.branch, q)
      BY DEF OptedOut
    <3>2. OptOut(t, b.tree, b.branch, q).session = t
      BY DEF OptOut
    <3>3. optOuts'[i] # o
      BY <1>5, <1>11, <3>1, <3>2
    <3> QED BY <1>2, <1>4, <1>5, <3>1, <3>3, RecordedHas
  <2>3. ASSUME binding[t] # None PROVE Follows(t, binding[t], subs[t])'
    BY <1>2, <2>1, <2>2, <2>3 DEF Sound, Follows
  <2> QED BY <1>2, <2>1, <2>3 DEF Sound, Fits
<1> QED BY <1>8, <1>9, <1>10, <1>11 DEF BindingInv

-----------------------------------------------------------------------------
LEMMA InitIsSound == BindingInit => BindingInv
<1> SUFFICES ASSUME BindingInit PROVE BindingInv
  OBVIOUS
<1>1. checkout \in [Tree -> Branch \cup {None}] /\ resolved \in [Session -> SUBSET Worktree]
  BY DEF BindingInit
<1>2. binding = [s \in Session |-> None] /\ actor = [s \in Session |-> None] /\ optOuts = <<>> /\ asked = {}
  BY DEF BindingInit
<1>3. subs \in [Session -> Rows]
  BY DEF BindingInit, Rows
<1>4. Typed
  BY <1>1, <1>2, <1>3 DEF Typed
<1>5. \A s \in Session : Sound(s)
  BY <1>2 DEF Sound
<1> QED BY <1>2, <1>4, <1>5 DEF BindingInv, Recollected

LEMMA NextIsSound == BindingInv /\ [BindingNext]_bindingVars => BindingInv'
<1>1. ASSUME BindingInv, NEW s \in Session, Request(s) PROVE BindingInv'
  BY <1>1, SessionsKeepInv, ControlKeepsInv, ActivateKeepsInv, SubscribeKeepsInv, UnsubscribeFollowedKeepsInv,
     UnsubscribeOtherKeepsInv DEF Request
<1>2. ASSUME BindingInv, Discovery PROVE BindingInv'
  <2>1. Own \subseteq Pr
    BY PrAssumption
  <2> QED BY <1>2, <2>1, FoundKeepsInv, NotOwnedKeepsInv, NotFoundKeepsInv, RejectKeepsInv, AssociateKeepsInv
          DEF Discovery
<1>3. ASSUME BindingInv, Local PROVE BindingInv'
  BY <1>3, AllKeepInv, SessionsKeepInv, CheckoutKeepsInv DEF Local
<1>4. ASSUME BindingInv, UNCHANGED bindingVars PROVE BindingInv'
  <2>1. UNCHANGED <<binding, optOuts, asked, actor, subs>> /\ Typed'
    BY <1>4 DEF bindingVars, BindingInv, Typed
  <2> QED BY <1>4, <2>1, LessKeepsInv
<1> QED BY <1>1, <1>2, <1>3, <1>4 DEF BindingNext

LEMMA BindingInvariant == BindingSpec => []BindingInv
  BY InitIsSound, NextIsSound, PTL DEF BindingSpec

(* activateResolvedWorktree, pullRequestFound, pullRequestNotOwned, reset and suspend: a *)
(* bound session follows one pull request by itself, and none unless its machine follows *)
(* one or had one when the user unsubscribed from another.                               *)
THEOREM OneIsFollowed == BindingSpec => []FollowsAsBound
<1>1. BindingInv => FollowsAsBound
  <2> SUFFICES ASSUME BindingInv, NEW s \in Session, binding[s] # None
               PROVE  /\ \A p, q \in Automatic(s) : p = q
                      /\ binding[s].state \in {"waiting", "foreign", "detached"} => Automatic(s) = {}
    BY DEF FollowsAsBound
  <2>1. Automatic(s) = AutoPrs(subs[s])
    BY AutomaticIsAuto
  <2> QED BY <2>1 DEF BindingInv, Sound, Follows
<1> QED BY BindingInvariant, <1>1, PTL

(* recordAutomaticSubscriptionOptOut, getAutomaticSubscriptionOptOutForBinding: what a user *)
(* unsubscribed from in a worktree and branch is not followed again there, whatever becomes *)
(* of actors, daemons, worktrees and pull requests.                                         *)
THEOREM OptOutHolds == BindingSpec => []OptOutRespected
<1>1. BindingInv => OptOutRespected
  <2> SUFFICES ASSUME BindingInv, NEW s \in Session, NEW p \in Pr, p \in Automatic(s), binding[s] # None
               PROVE  OptOut(s, binding[s].tree, binding[s].branch, p) \notin asked
    BY DEF OptOutRespected
  <2>1. p \in AutoPrs(subs[s])
    BY AutomaticIsAuto
  <2>2. ~OptedOut(s, binding[s], p)
    BY <2>1 DEF BindingInv, Sound, Follows
  <2> QED BY <2>2 DEF OptedOut, BindingInv, Recollected
<1> QED BY BindingInvariant, <1>1, PTL

-----------------------------------------------------------------------------
(* The ticks of discovery                                                    *)

(* A finite set of numbers has a greatest one *)
HasLast(T) == \E m \in T : \A n \in T : n <= m

LEMMA NatLeast ==
  ASSUME NEW B \in SUBSET Nat, B # {}
  PROVE  \E n \in B : \A k \in B : n <= k
<1> DEFINE R == OpToRel(<, Nat)
<1>1. \A x, y \in Nat : <<y, x>> \in R <=> y < x
  BY DEF OpToRel
<1>2. IsWellFoundedOn(R, Nat)
  BY NatLessThanWellFounded
<1> HIDE DEF R
<1>3. \E x \in B : \A y \in B : ~ (<<y, x>> \in R)
  <2>1. B \subseteq Nat /\ B # {}
    OBVIOUS
  <2> QED BY <1>2, <2>1, WFMin, Zenon
<1>4. PICK x \in B : \A y \in B : ~ (<<y, x>> \in R)
  BY <1>3
<1>5. ASSUME NEW y \in B PROVE x <= y
  <2>1. x \in Nat /\ y \in Nat
    OBVIOUS
  <2>2. ~(y < x)
    BY <1>1, <1>4, <2>1
  <2> QED BY <2>1, <2>2
<1> QED BY <1>5

LEMMA FiniteHasLast ==
  ASSUME NEW S \in SUBSET Nat, IsFiniteSet(S), S # {}
  PROVE  HasLast(S)
<1> DEFINE Bad == {T \in SUBSET S : T # {} /\ ~HasLast(T)}
           Sizes == {Cardinality(T) : T \in Bad}
<1>1. \A T \in SUBSET S : IsFiniteSet(T) /\ Cardinality(T) \in Nat
  BY FS_Subset, FS_CardinalityType
<1>2. SUFFICES ASSUME S \in Bad PROVE FALSE
  OBVIOUS
<1>3. Sizes \in SUBSET Nat /\ Sizes # {}
  BY <1>1, <1>2
<1>4. PICK n \in Sizes : \A k \in Sizes : n <= k
  BY <1>3, NatLeast
<1>5. PICK T \in Bad : Cardinality(T) = n
  BY <1>4
<1>6. PICK x \in T : TRUE
  BY <1>5
<1> DEFINE U == T \ {x}
<1>7. U \in SUBSET S /\ Cardinality(U) = n - 1 /\ n \in Nat
  BY <1>1, <1>3, <1>5, <1>6, FS_RemoveElement
<1>8. U \notin Bad
  BY <1>4, <1>7
<1>9. T \in SUBSET Nat /\ x \in Nat
  BY <1>5, <1>6
<1>10. CASE U = {}
  <2>1. T = {x}
    BY <1>6, <1>10
  <2> QED BY <1>5, <1>9, <2>1 DEF HasLast
<1>11. CASE U # {}
  <2>1. HasLast(U)
    BY <1>7, <1>8, <1>11
  <2>2. PICK m \in U : \A k \in U : k <= m
    BY <2>1 DEF HasLast
  <2>3. m \in T /\ m \in Nat /\ \A k \in T : k = x \/ k <= m
    BY <1>9, <2>2
  <2>4. \A k \in T : k <= IF x <= m THEN m ELSE x
    BY <1>9, <2>3
  <2>5. HasLast(T)
    BY <1>6, <2>3, <2>4 DEF HasLast
  <2> QED BY <1>5, <2>5
<1> QED BY <1>10, <1>11
-----------------------------------------------------------------------------
(* The pull request of a branch that is the user's *)
PrOf(b) == {p \in Own : HeadOf[p] = b} \cup {None}

Associated == watcher = [b \in Branch |-> watcher[b]] /\ \A b \in Branch : watcher[b] \in PrOf(b)

Registered ==
  /\ session = [s \in Session |-> session[s]]
  /\ \A s \in Session : session[s] # None =>
       /\ session[s] = [status |-> session[s].status, branch |-> session[s].branch]
       /\ session[s].status \in {"active", "closed"} /\ session[s].branch \in Branch

(* A target holds what the row of its branch did, which changes in its own turn or is taken back *)
TargetOK(t) == t.session \in Session /\ t.branch \in Branch /\ t.pr \in PrOf(t.branch)

Current(t) == watcher[t.branch] \in {t.pr, None}

TickOK ==
  /\ tick = [step |-> tick.step, targets |-> tick.targets, branch |-> tick.branch,
             pr |-> tick.pr, todo |-> tick.todo]
  /\ \A t \in tick.targets : TargetOK(t)
  /\ \A t \in tick.todo : t.session \in Session
  /\ \A t \in tick.targets : tick.step # "tell" \/ t.branch # tick.branch => Current(t)
  /\ tick.pr # None => tick.pr \in Pr /\ HeadOf[tick.pr] = tick.branch
  /\ tick.step \in {"answered", "saved", "tell"} => Of(tick.branch) # {}

DiscoveryInv == BindingInv /\ Registered /\ Associated /\ TickOK

-----------------------------------------------------------------------------
LEMMA DiscoveryInitIsSound == DiscoveryInit => DiscoveryInv
<1> SUFFICES ASSUME DiscoveryInit PROVE DiscoveryInv
  OBVIOUS
<1>1. BindingInv
  BY InitIsSound DEF DiscoveryInit
<1>2. Registered
  BY DEF DiscoveryInit, BindingInit, Registered
<1>3. Associated
  BY DEF DiscoveryInit, NoOne, Associated, PrOf
<1>4. TickOK
  BY DEF DiscoveryInit, NoTick, TickOK
<1> QED BY <1>1, <1>2, <1>3, <1>4 DEF DiscoveryInv

(* A branch is dealt with *)
LEMMA HandledIs ==
  ASSUME TickOK, NEW b, tick' = Handled(b), Associated',
         \A c \in Branch : watcher'[c] \in {watcher[c], None} \/ c = b,
         tick.step = "tell" => tick.branch = b
  PROVE  TickOK'
<1>1. tick' = [step |-> tick'.step, targets |-> tick'.targets, branch |-> None, pr |-> None, todo |-> {}]
  BY DEF Handled, NoTick
<1>2. /\ tick'.targets \subseteq tick.targets \ Of(b)
      /\ tick'.step \in {"idle", "next"}
  BY DEF Handled, NoTick
<1>3. tick'.branch = None /\ tick'.pr = None /\ tick'.todo = {}
  BY <1>1
<1>4. ASSUME NEW t \in tick'.targets PROVE TargetOK(t) /\ Current(t)'
  <2>1. t \in tick.targets /\ t.branch # b
    BY <1>2, <1>4 DEF Of
  <2>2. TargetOK(t) /\ Current(t)
    BY <2>1 DEF TickOK
  <2>3. watcher'[t.branch] \in {watcher[t.branch], None}
    BY <2>1, <2>2 DEF TargetOK
  <2> QED BY <2>2, <2>3 DEF Current
<1> QED BY <1>1, <1>2, <1>3, <1>4 DEF TickOK, TargetOK

(* The tick goes on with the branch it is at, or with none *)
LEMMA GoesOn ==
  ASSUME TickOK, NEW step, NEW b, NEW p, NEW todo,
         tick' = [step |-> step, targets |-> tick.targets, branch |-> b, pr |-> p, todo |-> todo],
         \A c \in Branch : watcher'[c] \in {watcher[c], None} \/ (step = "tell" /\ c = b),
         tick.step # "tell" \/ (b = tick.branch /\ step = "tell"),
         \A t \in todo : t.session \in Session,
         p # None => p \in Pr /\ HeadOf[p] = b,
         step \in {"answered", "saved", "tell"} => Of(b) # {}
  PROVE  TickOK'
<1>1. /\ tick'.step = step /\ tick'.targets = tick.targets /\ tick'.branch = b
      /\ tick'.pr = p /\ tick'.todo = todo
  OBVIOUS
<1>2. \A t \in tick.targets : TargetOK(t) /\ (step # "tell" \/ t.branch # b => Current(t)')
  BY DEF TickOK, Current, TargetOK
<1>3. Of(b)' = Of(b)
  BY <1>1 DEF Of
<1> QED BY <1>1, <1>2, <1>3 DEF TickOK, TargetOK

LEMMA TickFields ==
  ASSUME TickOK, NEW st, NEW td
  PROVE  /\ [tick EXCEPT !.step = st] = [step |-> st, targets |-> tick.targets, branch |-> tick.branch,
                                         pr |-> tick.pr, todo |-> tick.todo]
         /\ [tick EXCEPT !.todo = td] = [step |-> tick.step, targets |-> tick.targets, branch |-> tick.branch,
                                         pr |-> tick.pr, todo |-> td]
         /\ [tick EXCEPT !.step = st, !.todo = td] =
              [step |-> st, targets |-> tick.targets, branch |-> tick.branch, pr |-> tick.pr, todo |-> td]
<1> DEFINE r1 == [tick EXCEPT !.step = st]
<1>1. r1 = [step |-> st, targets |-> tick.targets, branch |-> tick.branch, pr |-> tick.pr, todo |-> tick.todo]
  BY DEF TickOK
<1>2. [tick EXCEPT !.todo = td] = [step |-> tick.step, targets |-> tick.targets, branch |-> tick.branch,
                                   pr |-> tick.pr, todo |-> td]
  BY DEF TickOK
<1> HIDE DEF r1
<1>3. [r1 EXCEPT !.todo = td] =
        [step |-> st, targets |-> tick.targets, branch |-> tick.branch, pr |-> tick.pr, todo |-> td]
  BY <1>1
<1> QED BY <1>1, <1>2, <1>3 DEF r1

LEMMA PriorIs ==
  ASSUME TickOK, NEW b, Of(b) # {}
  PROVE  /\ b \in Branch /\ Prior(b) \in PrOf(b)
         /\ tick.step # "tell" \/ b # tick.branch => watcher[b] \in {Prior(b), None}
<1> DEFINE t == CHOOSE u \in Of(b) : TRUE
<1>1. t \in tick.targets /\ t.branch = b /\ Prior(b) = t.pr
  BY DEF Of, Prior
<1> HIDE DEF t
<1> QED BY <1>1 DEF TickOK, TargetOK, Current

-----------------------------------------------------------------------------
(* The steps of a tick                                                       *)

LEMMA TickStartKeeps ==
  ASSUME DiscoveryInv, TickStart PROVE TickOK'
<1>1. ASSUME NEW t \in Targets PROVE TargetOK(t) /\ Current(t)
  <2>1. ASSUME NEW s \in Session, binding[s] # None, binding[s].branch # None, t = Target(s, TRUE, binding[s].branch)
        PROVE  TargetOK(t) /\ Current(t)
    <3>1. binding[s].branch \in Branch
      BY <2>1, BoundActor DEF DiscoveryInv
    <3>2. t.session = s /\ t.branch = binding[s].branch /\ t.pr = watcher[binding[s].branch]
      BY <2>1 DEF Target
    <3> QED BY <3>1, <3>2 DEF TargetOK, Current, DiscoveryInv, Associated
  <2>2. ASSUME NEW s \in Session, Active(s), t = Target(s, FALSE, session[s].branch)
        PROVE  TargetOK(t) /\ Current(t)
    <3>1. session[s].branch \in Branch
      BY <2>2 DEF DiscoveryInv, Registered, Active
    <3>2. t.session = s /\ t.branch = session[s].branch /\ t.pr = watcher[session[s].branch]
      BY <2>2 DEF Target
    <3> QED BY <3>1, <3>2 DEF TargetOK, Current, DiscoveryInv, Associated
  <2> QED BY <2>1, <2>2 DEF Targets
<1> DEFINE r1 == [NoTick EXCEPT !.step = "login"]
<1>2. r1 = [step |-> "login", targets |-> {}, branch |-> None, pr |-> None, todo |-> {}]
  BY DEF NoTick
<1> HIDE DEF r1
<1>3. [r1 EXCEPT !.targets = Targets] = [step |-> "login", targets |-> Targets, branch |-> None, pr |-> None, todo |-> {}]
  BY <1>2
<1>4. tick' = [step |-> "login", targets |-> Targets, branch |-> None, pr |-> None, todo |-> {}] /\ watcher' = watcher
  BY <1>3 DEF TickStart, r1
<1>5. tick'.step = "login" /\ tick'.targets = Targets /\ tick'.branch = None /\ tick'.pr = None /\ tick'.todo = {}
  BY <1>4
<1> QED BY <1>1, <1>4, <1>5 DEF TickOK, Current, TargetOK

LEMMA PlainTickKeeps ==
  ASSUME DiscoveryInv,
         \/ Login \/ SaveEtag \/ TellNotOwned \/ Defer \/ Told
         \/ \E b \in Branch : Ask(b) \/ AskFails(b)
  PROVE  TickOK' /\ UNCHANGED <<watcher, bindingVars>>
<1>1. UNCHANGED <<watcher, bindingVars>>
  BY DEF Login, SaveEtag, TellNotOwned, Defer, Told, Ask, AskFails
<1>2. TickOK /\ Associated /\ Associated'
  BY <1>1 DEF DiscoveryInv, Associated
<1>3. CASE Login
  <2>0. tick.step = "login"
    BY <1>3 DEF Login
  <2>1. tick' = [tick EXCEPT !.step = "next"]
    BY <1>3 DEF Login
  <2>2. tick' = [step |-> "next", targets |-> tick.targets, branch |-> tick.branch, pr |-> tick.pr, todo |-> tick.todo]
    BY <1>2, <2>1, TickFields
  <2>3. (\A t \in tick.todo : t.session \in Session) /\ (tick.pr # None => tick.pr \in Pr /\ HeadOf[tick.pr] = tick.branch)
    BY <1>2 DEF TickOK
  <2>4. TickOK'
    BY <1>1, <1>2, <2>0, <2>2, <2>3, GoesOn
  <2> QED BY <1>1, <2>4
<1>4. CASE SaveEtag
  <2>0. tick.step = "answered"
    BY <1>4 DEF SaveEtag
  <2>1. tick' = [tick EXCEPT !.step = "saved"]
    BY <1>4 DEF SaveEtag
  <2>2. tick' = [step |-> "saved", targets |-> tick.targets, branch |-> tick.branch, pr |-> tick.pr, todo |-> tick.todo]
    BY <1>2, <2>1, TickFields
  <2>3. /\ \A t \in tick.todo : t.session \in Session
        /\ tick.pr # None => tick.pr \in Pr /\ HeadOf[tick.pr] = tick.branch
        /\ Of(tick.branch) # {}
    BY <1>2, <2>0 DEF TickOK
  <2>4. TickOK'
    BY <1>1, <1>2, <2>0, <2>2, <2>3, GoesOn
  <2> QED BY <1>1, <2>4
<1>5. CASE TellNotOwned
  <2> DEFINE todo == Of(tick.branch)
  <2>0. tick.step = "saved"
    BY <1>5 DEF TellNotOwned
  <2>1. tick' = [tick EXCEPT !.step = "tell", !.todo = todo]
    BY <1>5 DEF TellNotOwned
  <2>2. \A t \in todo : t.session \in Session
    BY <1>2 DEF TickOK, TargetOK, Of
  <2> HIDE DEF todo
  <2>3. tick' = [step |-> "tell", targets |-> tick.targets, branch |-> tick.branch, pr |-> tick.pr, todo |-> todo]
    BY <1>2, <2>1, TickFields
  <2>4. (tick.pr # None => tick.pr \in Pr /\ HeadOf[tick.pr] = tick.branch) /\ Of(tick.branch) # {}
    BY <1>2, <2>0 DEF TickOK
  <2>5. TickOK'
    BY <1>1, <1>2, <2>0, <2>2, <2>3, <2>4, GoesOn
  <2> QED BY <1>1, <2>5
<1>6. CASE Defer \/ Told
  <2>1. tick' = Handled(tick.branch)
    BY <1>6 DEF Defer, Told
  <2> QED BY <1>1, <1>2, <2>1, HandledIs
<1>7. ASSUME NEW b \in Branch, Ask(b) \/ AskFails(b) PROVE TickOK' /\ UNCHANGED <<watcher, bindingVars>>
  <2>1. CASE tick' = Handled(b)
    <3>1. tick.step = "next"
      BY <1>7 DEF Ask, AskFails
    <3> QED BY <1>1, <1>2, <2>1, <3>1, HandledIs
  <2>2. CASE Ask(b) /\ tick' = [tick EXCEPT !.step = "answered", !.branch = b, !.pr = Newest(b)]
    <3> DEFINE p == Newest(b)
               r1 == [tick EXCEPT !.step = "answered"]
               r2 == [r1 EXCEPT !.branch = b]
    <3>1. r1 = [step |-> "answered", targets |-> tick.targets, branch |-> tick.branch, pr |-> tick.pr, todo |-> tick.todo]
      BY <1>2, TickFields
    <3>2. tick' = [r2 EXCEPT !.pr = p]
      BY <2>2
    <3> HIDE DEF r1
    <3>3. r2 = [step |-> "answered", targets |-> tick.targets, branch |-> b, pr |-> tick.pr, todo |-> tick.todo]
      BY <3>1
    <3> HIDE DEF r2, p
    <3>4. tick' = [step |-> "answered", targets |-> tick.targets, branch |-> b, pr |-> p, todo |-> tick.todo]
      BY <3>2, <3>3
    <3>5. p # None => p \in Pr /\ HeadOf[p] = b
      <4> DEFINE open == {q \in Pr : HeadOf[q] = b /\ remote[q] = "open"}
      <4>1. p = IF open = {} THEN None ELSE CHOOSE q \in open : \A r \in open : r <= q
        BY DEF p, Newest
      <4>2. CASE open = {}
        BY <4>1, <4>2
      <4>3. CASE open # {}
        <5>1. open \in SUBSET Nat /\ IsFiniteSet(open)
          BY PrAssumption, DiscoveryAssumption, FS_Subset
        <5>2. \E q \in open : \A r \in open : r <= q
          BY <4>3, <5>1, FiniteHasLast DEF HasLast
        <5> HIDE DEF open
        <5>3. p \in open
          BY <4>1, <4>3, <5>2
        <5> QED BY <5>3 DEF open
      <4> QED BY <4>2, <4>3
    <3>6. tick.step = "next" /\ Of(b) # {}
      BY <2>2 DEF Ask
    <3>7. \A t \in tick.todo : t.session \in Session
      BY <1>2 DEF TickOK
    <3>8. TickOK'
      BY <1>1, <1>2, <3>4, <3>5, <3>6, <3>7, GoesOn
    <3> QED BY <1>1, <3>8
  <2> QED BY <1>7, <2>1, <2>2 DEF Ask, AskFails
<1> QED BY <1>3, <1>4, <1>5, <1>6, <1>7

(* A tick is over, or none is under way *)
LEMMA NoTickIsOK == ASSUME tick' = NoTick PROVE TickOK'
<1>1. /\ tick' = [step |-> "idle", targets |-> {}, branch |-> None, pr |-> None, todo |-> {}]
  BY DEF NoTick
<1>2. tick'.step = "idle" /\ tick'.targets = {} /\ tick'.branch = None /\ tick'.pr = None /\ tick'.todo = {}
  BY <1>1
<1> QED BY <1>1, <1>2 DEF TickOK

(* What a step does to the state shared with WorktreeBinding, and to the associations *)
Implements == BindingNext \/ UNCHANGED bindingVars

EndsFirst ==
  \A b \in Branch : watcher[b] # None /\ watcher'[b] \notin {None, watcher[b]} => watcher[b] \in seen

LEMMA RecordKeeps ==
  ASSUME DiscoveryInv, RecordBranchAssociation
  PROVE  TickOK' /\ Associated' /\ Implements /\ EndsFirst
<1> DEFINE b == tick.branch
           p == AssociatedPr(b)
           todo == {t \in Of(b) : t.bound} \cup IF p = None THEN {} ELSE Legacy(b)
<1>1. TickOK /\ Associated
  BY DEF DiscoveryInv
<1>2. /\ tick.step = "saved" /\ ~Foreign(tick.pr) /\ ~Deferred(b, tick.pr)
      /\ watcher' = [watcher EXCEPT ![b] = p]
      /\ UNCHANGED bindingVars
  BY DEF RecordBranchAssociation
<1>3. tick' = [tick EXCEPT !.step = "tell", !.todo = todo]
  BY DEF RecordBranchAssociation
<1>4. /\ Of(b) # {} /\ b \in Branch
      /\ Prior(b) \in PrOf(b) /\ watcher[b] \in {Prior(b), None}
  BY <1>1, <1>2, PriorIs DEF TickOK
<1>5. p \in PrOf(b)
  BY <1>1, <1>2, <1>4 DEF TickOK, Foreign, PrOf, AssociatedPr
<1>6. tick' = [step |-> "tell", targets |-> tick.targets, branch |-> b, pr |-> tick.pr, todo |-> todo]
  BY <1>1, <1>3, TickFields
<1>7. \A t \in todo : t.session \in Session
  BY <1>1 DEF TickOK, TargetOK, Of, Legacy, Target
<1>8. tick.pr # None => tick.pr \in Pr /\ HeadOf[tick.pr] = b
  BY <1>1 DEF TickOK
<1>9. (p # None /\ p # Prior(b)) => Prior(b) = None \/ Prior(b) \in seen
  BY <1>2 DEF Deferred, AssociatedPr
<1> HIDE DEF p, todo
<1>10. \A c \in Branch : watcher'[c] = IF c = b THEN p ELSE watcher[c]
  BY <1>1, <1>2 DEF Associated
<1>11. Associated'
  <2>1. watcher' = [c \in Branch |-> watcher'[c]]
    BY <1>1, <1>2 DEF Associated
  <2>2. \A c \in Branch : watcher'[c] \in PrOf(c)
    BY <1>1, <1>5, <1>10 DEF Associated
  <2> QED BY <2>1, <2>2 DEF Associated
<1>12. TickOK'
  <2> HIDE DEF b
  <2>1. b = tick.branch
    BY DEF b
  <2> QED BY <1>1, <1>2, <1>4, <1>6, <1>7, <1>8, <1>10, <2>1, GoesOn
<1>13. Implements
  BY <1>2 DEF Implements
<1>14. EndsFirst
  BY <1>4, <1>9, <1>10 DEF EndsFirst
<1> QED BY <1>11, <1>12, <1>13, <1>14

(* rejectAutomaticPullRequest takes an association back, or leaves it alone *)
LEMMA RejectedKeeps ==
  ASSUME Associated, NEW s, NEW p, watcher' = Rejected(s, p)
  PROVE  Associated' /\ \A c \in Branch : watcher'[c] \in {watcher[c], None}
<1>1. watcher' = [c \in Branch |-> IF c = session[s].branch /\ watcher[c] = p THEN None ELSE watcher[c]]
  BY DEF Rejected
<1> QED BY <1>1 DEF Associated, PrOf

LEMMA TellKeeps ==
  ASSUME DiscoveryInv, NEW t \in tick.todo, TellForeign(t) \/ Tell(t)
  PROVE  TickOK' /\ Associated' /\ Implements /\ EndsFirst
<1> DEFINE s == t.session
           p == tick.pr
           todo == tick.todo \ {t}
<1>1. TickOK /\ Associated
  BY DEF DiscoveryInv
<1>2. /\ tick.step = "tell" /\ s \in Session /\ (p # None => p \in Pr /\ HeadOf[p] = tick.branch)
      /\ Of(tick.branch) # {}
  BY <1>1 DEF TellForeign, Tell, TickOK
<1>3. tick' = [tick EXCEPT !.todo = todo]
  BY DEF TellForeign, Tell
<1>4. tick' = [step |-> "tell", targets |-> tick.targets, branch |-> tick.branch, pr |-> p, todo |-> todo]
  BY <1>1, <1>2, <1>3, TickFields
<1>5. \A u \in todo : u.session \in Session
  BY <1>1 DEF TickOK
<1>6. Associated' /\ \A c \in Branch : watcher'[c] \in {watcher[c], None}
  <2>1. CASE TellForeign(t)
    BY <1>1, <2>1, RejectedKeeps DEF TellForeign
  <2>2. CASE Tell(t)
    <3>1. watcher' = watcher
      BY <2>2 DEF Tell
    <3> QED BY <1>1, <3>1 DEF Associated
  <2> QED BY <2>1, <2>2
<1>7. Implements
  <2>1. CASE TellForeign(t)
    <3>1. p \in Pr \ Own /\ (NotOwned(s, p) \/ Reject(s))
      BY <1>2, <2>1 DEF TellForeign, Foreign
    <3> QED BY <1>2, <3>1 DEF Implements, BindingNext, Discovery
  <2>2. CASE Tell(t)
    <3> DEFINE q == AssociatedPr(tick.branch)
    <3>1. \/ NotFound(s) \/ (p \in Own /\ Found(s, p))
          \/ (q # None /\ Associate(s, q))
      BY <1>2, <2>2 DEF Tell, Foreign
    <3>2. CASE q # None /\ Associate(s, q)
      <4>1. Prior(tick.branch) \in PrOf(tick.branch)
        BY <1>1, <1>2, PriorIs
      <4>2. q \in Own
        BY <1>2, <2>2, <3>2, <4>1 DEF AssociatedPr, PrOf, Tell, Foreign
      <4> QED BY <1>2, <3>2, <4>2 DEF Implements, BindingNext, Discovery
    <3> QED BY <1>2, <3>1, <3>2 DEF Implements, BindingNext, Discovery
  <2> QED BY <2>1, <2>2
<1>8. EndsFirst
  BY <1>6 DEF EndsFirst
<1> HIDE DEF p, todo
<1>9. TickOK'
  <2>1. p = tick.pr
    BY DEF p
  <2> QED BY <1>1, <1>2, <1>4, <1>5, <1>6, <2>1, GoesOn
<1> QED BY <1>6, <1>7, <1>8, <1>9

(* suspendAutomaticSubscriptions, one after the other *)
LEMMA LoginFailsKeeps ==
  ASSUME DiscoveryInv, LoginFails
  PROVE  TickOK' /\ Associated' /\ Implements /\ EndsFirst
<1> DEFINE todo == UNION {{[session |-> s, pr |-> p] : p \in Automatic(s)} : s \in Session}
           r1 == [NoTick EXCEPT !.step = "suspend"]
<1>1. tick' = [r1 EXCEPT !.todo = todo] /\ UNCHANGED <<watcher, bindingVars>>
  BY DEF LoginFails
<1>2. \A t \in todo : t.session \in Session
  OBVIOUS
<1>3. r1 = [step |-> "suspend", targets |-> {}, branch |-> None, pr |-> None, todo |-> {}]
  BY DEF NoTick
<1> HIDE DEF todo, r1
<1>4. tick' = [step |-> "suspend", targets |-> {}, branch |-> None, pr |-> None, todo |-> todo]
  BY <1>1, <1>3
<1>5. tick'.step = "suspend" /\ tick'.targets = {} /\ tick'.branch = None /\ tick'.pr = None /\ tick'.todo = todo
  BY <1>4
<1>6. TickOK'
  BY <1>2, <1>4, <1>5 DEF TickOK
<1>7. Associated' /\ EndsFirst
  BY <1>1 DEF DiscoveryInv, Associated, EndsFirst
<1> QED BY <1>1, <1>6, <1>7 DEF Implements

LEMMA SuspendKeeps ==
  ASSUME DiscoveryInv, NEW t \in tick.todo, Suspend(t)
  PROVE  TickOK' /\ Associated' /\ Implements /\ EndsFirst
<1> DEFINE todo == tick.todo \ {t}
<1>1. TickOK /\ Associated
  BY DEF DiscoveryInv
<1>2. tick.step = "suspend" /\ t.session \in Session /\ (tick.pr # None => tick.pr \in Pr /\ HeadOf[tick.pr] = tick.branch)
  BY <1>1 DEF Suspend, TickOK
<1>3. tick' = [tick EXCEPT !.todo = todo]
  BY DEF Suspend
<1>4. tick' = [step |-> "suspend", targets |-> tick.targets, branch |-> tick.branch, pr |-> tick.pr, todo |-> todo]
  BY <1>1, <1>2, <1>3, TickFields
<1>5. \A u \in todo : u.session \in Session
  BY <1>1 DEF TickOK
<1>6. Associated' /\ \A c \in Branch : watcher'[c] \in {watcher[c], None}
  BY <1>1, RejectedKeeps DEF Suspend
<1>7. Implements
  BY <1>2 DEF Suspend, Implements, BindingNext, Discovery
<1>8. EndsFirst
  BY <1>6 DEF EndsFirst
<1> HIDE DEF todo
<1>9. TickOK'
  BY <1>1, <1>2, <1>4, <1>5, <1>6, GoesOn
<1> QED BY <1>6, <1>7, <1>8, <1>9

(* A step that forgets all associations *)
LEMMA ForgettingKeeps ==
  ASSUME DiscoveryInv, Suspended \/ Restart
  PROVE  TickOK' /\ Associated' /\ Implements /\ EndsFirst
<1>1. tick' = NoTick /\ watcher' = [b \in Branch |-> None] /\ (UNCHANGED bindingVars \/ Reset)
  BY DEF Suspended, Restart, NoOne
<1>2. TickOK'
  BY <1>1, NoTickIsOK
<1>3. Associated' /\ EndsFirst
  BY <1>1 DEF Associated, PrOf, EndsFirst
<1> QED BY <1>1, <1>2, <1>3 DEF Implements, BindingNext, Discovery, Local

LEMMA RestKeeps ==
  ASSUME DiscoveryInv, TickStart \/ Break \/ Other \/ (\E p \in Pr : Open(p) \/ End(p) \/ SeeEnd(p))
  PROVE  TickOK' /\ Associated' /\ Implements /\ EndsFirst
<1>1. UNCHANGED watcher
  BY DEF TickStart, Break, Other, Open, End, SeeEnd, discoveryVars
<1>2. Associated' /\ EndsFirst
  BY <1>1 DEF DiscoveryInv, Associated, EndsFirst
<1>3. CASE TickStart
  BY <1>2, <1>3, TickStartKeeps DEF TickStart, Implements
<1>4. CASE Break
  <2>1. TickOK'
    <3>1. CASE tick' = NoTick
      BY <3>1, NoTickIsOK
    <3>2. CASE tick' = Handled(tick.branch)
      BY <1>1, <1>2, <3>2, HandledIs DEF DiscoveryInv
    <3> QED BY <1>4, <3>1, <3>2 DEF Break
  <2>2. Implements
    <3>1. \A t \in tick.todo : t.session \in Session
      BY DEF DiscoveryInv, TickOK
    <3> QED BY <1>4, <3>1 DEF Break, Implements, BindingNext, Local
  <2> QED BY <1>2, <2>1, <2>2
<1>5. CASE Other
  <2>1. Implements
    BY <1>5 DEF Other, Implements, BindingNext, Local
  <2>2. TickOK'
    BY <1>5 DEF Other, discoveryVars, DiscoveryInv, TickOK, TargetOK, Current, Of
  <2> QED BY <1>2, <2>1, <2>2
<1>6. CASE \E p \in Pr : Open(p) \/ End(p) \/ SeeEnd(p)
  <2>1. UNCHANGED <<bindingVars, tick>>
    BY <1>6 DEF Open, End, SeeEnd
  <2>2. TickOK'
    BY <1>1, <2>1 DEF DiscoveryInv, TickOK, TargetOK, Current, Of
  <2> QED BY <1>2, <2>1, <2>2 DEF Implements
<1> QED BY <1>3, <1>4, <1>5, <1>6

LEMMA DiscoveryKeeps ==
  ASSUME DiscoveryInv, DiscoveryNext
  PROVE  TickOK' /\ Associated' /\ Implements /\ EndsFirst
<1>1. ASSUME \/ Login \/ SaveEtag \/ TellNotOwned \/ Defer \/ Told
             \/ \E b \in Branch : Ask(b) \/ AskFails(b)
      PROVE  TickOK' /\ Associated' /\ Implements /\ EndsFirst
  <2>1. TickOK' /\ UNCHANGED <<watcher, bindingVars>>
    BY <1>1, PlainTickKeeps
  <2> QED BY <2>1 DEF DiscoveryInv, Associated, Implements, EndsFirst
<1> QED BY <1>1, RecordKeeps, TellKeeps, LoginFailsKeeps, SuspendKeeps, ForgettingKeeps, RestKeeps DEF DiscoveryNext, TickStep

-----------------------------------------------------------------------------
LEMMA RegisteredKeeps == ASSUME BindingInv, Registered, Implements PROVE Registered'
<1>1. CASE UNCHANGED session
  BY <1>1 DEF Registered
<1>2. ASSUME NEW s \in Session, Register(s) \/ Idle(s) \/ Control(s) PROVE Registered'
  <2> DEFINE b == checkout[Home[s]]
  <2>1. b \in Branch /\ session' = [session EXCEPT ![s] = [status |-> "active", branch |-> b]]
    BY <1>2, HomeAssumption DEF Register, Idle, Control, BindingInv, Typed
  <2> HIDE DEF b
  <2> QED BY <2>1 DEF Registered
<1>3. ASSUME NEW s \in Session, Close(s) PROVE Registered'
  <2>1. session[s] = [status |-> session[s].status, branch |-> session[s].branch] /\ session[s].branch \in Branch
    BY <1>3 DEF Close, Active, Registered
  <2>2. [session[s] EXCEPT !.status = "closed"] = [status |-> "closed", branch |-> session[s].branch]
    BY <2>1
  <2>3. session' = [session EXCEPT ![s] = [status |-> "closed", branch |-> session[s].branch]]
    BY <1>3, <2>2 DEF Close
  <2> QED BY <2>1, <2>3 DEF Registered
<1>4. ASSUME NEW s \in Session, Request(s) PROVE Registered'
  BY <1>1, <1>2, <1>3, <1>4 DEF Request, Activate, Resolve, Subscribe, UnsubscribeFollowed, UnsubscribeOther
<1>5. CASE Discovery
  BY <1>1, <1>5 DEF Discovery, Found, NotOwned, Reject, NotFound, Associate
<1>6. CASE Local
  BY <1>1, <1>6 DEF Local, Reset, Discard, Reconcile, Checkout
<1> QED BY <1>1, <1>4, <1>5, <1>6 DEF Implements, BindingNext, bindingVars

LEMMA DiscoveryStep ==
  ASSUME DiscoveryInv, [DiscoveryNext]_vars
  PROVE  DiscoveryInv' /\ [BindingNext]_bindingVars /\ EndsFirst
<1>1. CASE DiscoveryNext
  <2>1. TickOK' /\ Associated' /\ Implements /\ EndsFirst
    BY <1>1, DiscoveryKeeps
  <2>2. BindingInv'
    BY <2>1, NextIsSound DEF DiscoveryInv, Implements
  <2>3. Registered'
    BY <2>1, RegisteredKeeps DEF DiscoveryInv
  <2> QED BY <2>1, <2>2, <2>3 DEF DiscoveryInv, Implements
<1>2. CASE UNCHANGED vars
  <2>1. UNCHANGED bindingVars /\ UNCHANGED <<session, watcher, tick>>
    BY <1>2 DEF vars, discoveryVars, bindingVars
  <2>2. BindingInv'
    BY <2>1, NextIsSound DEF DiscoveryInv
  <2>3. Registered' /\ Associated' /\ TickOK' /\ EndsFirst
    BY <2>1 DEF DiscoveryInv, Registered, Associated, TickOK, TargetOK, Current, Of, EndsFirst
  <2> QED BY <2>1, <2>2, <2>3 DEF DiscoveryInv
<1> QED BY <1>1, <1>2

LEMMA DiscoveryInvariant == DiscoverySpec => []DiscoveryInv
<1>1. DiscoveryInv /\ [DiscoveryNext]_vars => DiscoveryInv'
  BY DiscoveryStep
<1> QED BY DiscoveryInitIsSound, <1>1, PTL DEF DiscoverySpec

(* The tick of branch-discovery.ts tells sessions only what is true of authors and branches: *)
(* whatever it is at when a request comes, a write fails or the process dies, its steps are  *)
(* those of WorktreeBinding, or leave its state alone.                                       *)
THEOREM BindingImplemented == DiscoverySpec => BindingSpec
<1>1. DiscoveryInit => BindingInit
  BY DEF DiscoveryInit
<1>2. DiscoveryInv /\ [DiscoveryNext]_vars => [BindingNext]_bindingVars
  BY DiscoveryStep
<1> QED BY DiscoveryInvariant, <1>1, <1>2, PTL DEF DiscoverySpec, BindingSpec

(* recordBranchAssociation, with the test that puts it off: the pull request of a branch is *)
(* replaced by another one only when its end was stored.                                     *)
THEOREM PriorIsStored == DiscoverySpec => PriorEndsFirst
<1>1. DiscoveryInv /\ [DiscoveryNext]_vars =>
        [\A b \in Branch : watcher[b] # None /\ watcher'[b] \notin {None, watcher[b]} => watcher[b] \in seen]_vars
  BY DiscoveryStep DEF EndsFirst
<1> QED BY DiscoveryInvariant, <1>1, PTL DEF DiscoverySpec, PriorEndsFirst

(* What a user unsubscribed from is not followed again under the discovery of the code. *)
THEOREM OptOutHoldsOfDiscovery == DiscoverySpec => []OptOutRespected
  BY BindingImplemented, OptOutHolds

-----------------------------------------------------------------------------
(* What else is stored, and what GitHub holds *)
Stored ==
  /\ remote \in [Pr -> {"none", "open", "ended"}]
  /\ seen \subseteq {p \in Pr : remote[p] = "ended"} /\ discovered \subseteq Own
  /\ faults \in 0 .. MaxFaults

LEMMA StoredKeeps ==
  ASSUME DiscoveryInv, Stored, [DiscoveryNext]_vars
  PROVE  Stored'
<1>0. \A n \in 0 .. MaxFaults : n < MaxFaults => n + 1 \in 0 .. MaxFaults
  BY DiscoveryAssumption
<1>f. ASSUME Fault, UNCHANGED <<remote, seen, discovered>> PROVE Stored'
  BY <1>0, <1>f DEF Stored, Fault
<1>u. ASSUME UNCHANGED <<remote, seen, discovered, faults>> PROVE Stored'
  BY <1>u DEF Stored
<1>1. CASE Told
  <2>1. tick.pr # None /\ ~Foreign(tick.pr) => tick.pr \in Own
    BY DEF Foreign
  <2> QED BY <1>1, <2>1 DEF Told, Stored
<1>2. ASSUME NEW p \in Pr, Open(p) \/ End(p) \/ SeeEnd(p) PROVE Stored'
  BY <1>2 DEF Open, End, SeeEnd, Stored
<1>3. CASE LoginFails \/ Break \/ Restart \/ \E b \in Branch : AskFails(b)
  BY <1>3, <1>f DEF LoginFails, Break, Restart, AskFails
<1>4. CASE \/ TickStart \/ Login \/ SaveEtag \/ TellNotOwned \/ Defer \/ RecordBranchAssociation
           \/ Other \/ Suspended \/ (\E b \in Branch : Ask(b))
           \/ (\E t \in tick.todo : Suspend(t) \/ TellForeign(t) \/ Tell(t))
  BY <1>4, <1>u DEF TickStart, Login, SaveEtag, TellNotOwned, Defer, RecordBranchAssociation, Other,
                    Ask, Suspend, Suspended, TellForeign, Tell, discoveryVars
<1>5. CASE UNCHANGED vars
  BY <1>5, <1>u DEF vars, discoveryVars
<1> QED BY <1>1, <1>2, <1>3, <1>4, <1>5 DEF DiscoveryNext, TickStep

(* The row of a binding says what its actor does. *)
ActorsBound == \A s \in Session : actor[s] # None => binding[s] = Bound(actor[s])

LEMMA ActorsBoundKeeps ==
  ASSUME BindingInv, ActorsBound, Implements
  PROVE  ActorsBound'
<1>1. CASE UNCHANGED <<actor, binding>>
  BY <1>1 DEF ActorsBound, Bound
<1>2. ASSUME NEW s \in Session, NEW a, Keep(s, a) PROVE ActorsBound'
  BY <1>2 DEF Keep, ActorsBound, Bound, BindingInv, Typed
<1>3. ASSUME NEW s \in Session, Close(s) \/ Discard(s) PROVE ActorsBound'
  BY <1>3 DEF Close, Discard, ActorsBound, Bound, BindingInv, Typed
<1>4. ASSUME NEW s \in Session, Request(s) PROVE ActorsBound'
  BY <1>1, <1>2, <1>3, <1>4 DEF Request, Register, Idle, Control, Activate, Resolve, Subscribe,
                                UnsubscribeFollowed, UnsubscribeOther
<1>5. CASE Discovery
  BY <1>1, <1>2, <1>5 DEF Discovery, Found, NotOwned, Reject, NotFound, Associate
<1>6. CASE Local
  <2>1. CASE Reset
    BY <2>1 DEF Reset, ActorsBound
  <2> QED BY <1>1, <1>3, <1>6, <2>1 DEF Local, Reconcile, Checkout
<1> QED BY <1>1, <1>4, <1>5, <1>6 DEF Implements, BindingNext, bindingVars

(* Whatever is asked, lost or told in whatever order, only the user's own pull requests *)
(* are associated with a branch, each with its own, and only ended ones count as seen.   *)
THEOREM DiscoveryTypeCorrect == DiscoverySpec => []DiscoveryTypeOK
<1>1. DiscoveryInit => Stored /\ ActorsBound
  BY DiscoveryAssumption DEF DiscoveryInit, BindingInit, Stored, ActorsBound
<1>2. DiscoveryInv /\ Stored /\ ActorsBound /\ [DiscoveryNext]_vars => Stored' /\ ActorsBound'
  <2> SUFFICES ASSUME DiscoveryInv, Stored, ActorsBound, [DiscoveryNext]_vars
               PROVE  Stored' /\ ActorsBound'
    OBVIOUS
  <2>1. Implements
    BY DiscoveryStep DEF Implements
  <2> QED BY <2>1, StoredKeeps, ActorsBoundKeeps DEF DiscoveryInv
<1>3. DiscoveryInv /\ Stored /\ ActorsBound => DiscoveryTypeOK
  <2> SUFFICES ASSUME DiscoveryInv, Stored, ActorsBound PROVE DiscoveryTypeOK
    OBVIOUS
  <2>1. ASSUME NEW s \in Session, session[s] # None
        PROVE  session[s] \in [status : {"active", "closed"}, branch : Branch]
    <3>1. /\ session[s] = [status |-> session[s].status, branch |-> session[s].branch]
          /\ session[s].status \in {"active", "closed"} /\ session[s].branch \in Branch
      BY <2>1 DEF DiscoveryInv, Registered
    <3> QED BY <3>1
  <2>2. ASSUME NEW s \in Session, binding[s] # None
        PROVE  binding[s] \in [tree : Tree, branch : Branch \cup {None}, state : States]
    BY <2>2 DEF DiscoveryInv, BindingInv, Sound, Follows
  <2>3. ASSUME NEW s \in Session, NEW p \in Pr, subs[s][p] # None
        PROVE  subs[s][p] \in Row
    BY <2>3 DEF DiscoveryInv, BindingInv, Typed, Rows
  <2>4. BindingTypeOK
    BY <2>1, <2>2, <2>3 DEF BindingTypeOK, ActorsBound, DiscoveryInv, BindingInv, Typed, Row
  <2>5. /\ watcher \in [Branch -> Own \cup {None}]
        /\ \A b \in Branch : watcher[b] # None => HeadOf[watcher[b]] = b
    BY DEF DiscoveryInv, Associated, PrOf
  <2> QED BY <2>4, <2>5 DEF DiscoveryTypeOK, Stored
<1> QED BY DiscoveryInvariant, <1>1, <1>2, <1>3, PTL DEF DiscoverySpec
=============================================================================
