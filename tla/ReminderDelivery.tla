-------------------------- MODULE ReminderDelivery --------------------------
(***************************************************************************)
(* What the reminder store promises each session for each pull request it  *)
(* follows: a queue with a cursor.  The store may offer the events right   *)
(* after the cursor to the session's host, take an offer back, or, once    *)
(* the offer is confirmed, move the cursor to its last event.  Nothing     *)
(* else moves a cursor, an offer never changes while it is out, and        *)
(* offers of one queue never skip or repeat an event.                      *)
(***************************************************************************)
EXTENDS Naturals, Sequences

CONSTANTS Session, PR

VARIABLES
  published,  \* the pull request of every event, in order
  queue       \* per session and pull request: followed?, cursor, events offered

deliveryVars == <<published, queue>>

Unfollowed == [followed |-> FALSE, cursor |-> 0, offered |-> {}]

DeliveryInit == /\ published = << >>
                /\ queue = [s \in Session |-> [p \in PR |-> Unfollowed]]

(* The events of p after the cursor *)
Waiting(p, cursor) == {i \in DOMAIN published : published[i] = p /\ i > cursor}

Stay(q, r) == r = q

(* A new follower starts anywhere in what is published *)
Follow(q, r) == /\ ~q.followed /\ r.cursor \in 0..Len(published)
                /\ r = [followed |-> TRUE, cursor |-> r.cursor, offered |-> {}]

Offer(p, q, r) ==
  /\ q.followed /\ q.offered = {}
  /\ \E last \in Waiting(p, q.cursor) :
       r = [q EXCEPT !.offered = {i \in Waiting(p, q.cursor) : i <= last}]

Confirm(q, r) ==
  \E last \in q.offered :
    /\ \A i \in q.offered : i <= last
    /\ r = [followed |-> TRUE, cursor |-> last, offered |-> {}]

Withdraw(q, r) == r = [q EXCEPT !.offered = {}]

Forget(q, r) == r = Unfollowed

(* Events are only ever appended *)
Publish == /\ Len(published') >= Len(published)
           /\ \A i \in DOMAIN published : published'[i] = published[i]

QueueStep(p, q, r) == \/ Stay(q, r) \/ Follow(q, r) \/ Offer(p, q, r)
                      \/ Confirm(q, r) \/ Withdraw(q, r) \/ Forget(q, r)

DeliveryNext ==
  /\ Publish
  /\ \A s \in Session, p \in PR : QueueStep(p, queue[s][p], queue'[s][p])

DeliverySpec == DeliveryInit /\ [][DeliveryNext]_deliveryVars
=============================================================================
