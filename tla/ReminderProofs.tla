-------------------------- MODULE ReminderProofs --------------------------
(***************************************************************************)
(* Proofs about ReminderStore and ClaudeDelivery, for every value of their *)
(* constants.  First the store: its types, the claims and their offers,    *)
(* which transactions hand a row over and what therefore holds of handoff  *)
(* ids, and that the store implements ReminderDelivery.  Then the Claude   *)
(* hooks: what was confirmed is not shown again, and in a session whose    *)
(* turns no other plugin continues no reminder is lost.                    *)
(***************************************************************************)
EXTENDS ClaudeDelivery, FiniteSetTheorems, SequenceTheorems, WellFoundedInduction, TLAPS


-----------------------------------------------------------------------------
(* Sets of event numbers                                                     *)

(* A nonempty set of naturals has a least element. *)
LEMMA LeastNatural ==
  ASSUME NEW T \in SUBSET Nat, T # {}
  PROVE  \E x \in T : \A y \in T : x <= y
<1>1. PICK x \in T : \A y \in T : <<y, x>> \notin OpToRel(<, Nat)
  BY NatLessThanWellFounded, WFMin
<1>2. \A y \in T : ~(y < x)
  BY <1>1, Zenon DEF OpToRel
<1> QED BY <1>2

(* Latest(S) is the greatest element of a finite nonempty set of naturals: the *)
(* element with the fewest elements above it.                                  *)
LEMMA LatestIsGreatest ==
  ASSUME NEW S \in SUBSET Nat, IsFiniteSet(S), S # {}
  PROVE  Latest(S) \in S /\ \A j \in S : j <= Latest(S)
<1> DEFINE Above(i) == {k \in S : k > i}
           Counts == {Cardinality(Above(i)) : i \in S}
<1>1. \A i \in S : IsFiniteSet(Above(i)) /\ Cardinality(Above(i)) \in Nat
  BY FS_Subset, FS_CardinalityType
<1>2. Counts \in SUBSET Nat /\ Counts # {}
  BY <1>1
<1>3. PICK c \in Counts : \A d \in Counts : c <= d
  <2> HIDE DEF Counts
  <2> QED BY <1>2, LeastNatural
<1>4. PICK i \in S : c = Cardinality(Above(i))
  OBVIOUS
<1>5. \A j \in S : j <= i
  <2> SUFFICES ASSUME NEW j \in S, j > i PROVE FALSE
    OBVIOUS
  <2>1. \A k \in Above(j) : k \in Above(i)
    OBVIOUS
  <2>2. j \in Above(i) /\ j \notin Above(j)
    OBVIOUS
  <2>3. Cardinality(Above(i)) <= Cardinality(Above(j))
    BY <1>3, <1>4
  <2>4. Cardinality(Above(j)) <= Cardinality(Above(i))
        /\ (Cardinality(Above(i)) = Cardinality(Above(j)) => Above(i) = Above(j))
    <3> HIDE DEF Above
    <3> QED BY <2>1, <1>1, FS_Subset
  <2> HIDE DEF Above
  <2> QED BY <2>2, <2>3, <2>4, <1>1
<1> QED BY <1>5 DEF Latest

(* What a query over the log returns is a finite set of event numbers. *)
LEMMA AfterFinite ==
  ASSUME NEW lg \in Seq(PR), NEW p, NEW cursor
  PROVE  /\ After(lg, p, cursor) \in SUBSET Nat
         /\ IsFiniteSet(After(lg, p, cursor))
<1>1. IsFiniteSet(1..Len(lg)) /\ DOMAIN lg = 1..Len(lg)
  BY FS_Interval
<1>2. After(lg, p, cursor) \in SUBSET (1..Len(lg))
  BY <1>1 DEF After
<1> QED BY <1>1, <1>2, FS_Subset

(* FirstOf keeps a prefix: with an event, every earlier one. *)
LEMMA FirstOfPrefix ==
  ASSUME NEW S \in SUBSET Nat, IsFiniteSet(S)
  PROVE  /\ FirstOf(S) \in SUBSET S /\ IsFiniteSet(FirstOf(S))
         /\ \A i \in FirstOf(S) : \A j \in S : j <= i => j \in FirstOf(S)
<1> DEFINE Upto(i) == {k \in S : k <= i}
<1>1. FirstOf(S) \in SUBSET S /\ IsFiniteSet(FirstOf(S))
  BY FS_Subset DEF FirstOf
<1>2. ASSUME NEW i \in FirstOf(S), NEW j \in S, j <= i PROVE j \in FirstOf(S)
  <2>1. i \in S /\ Cardinality(Upto(i)) <= Limit
    BY DEF FirstOf
  <2>2. Upto(i) \in SUBSET S /\ \A k \in Upto(j) : k \in Upto(i)
    BY <1>2, <2>1
  <2>3. IsFiniteSet(Upto(i))
    BY <2>2, FS_Subset
  <2>4. Cardinality(Upto(j)) <= Cardinality(Upto(i)) /\ IsFiniteSet(Upto(j))
    <3> HIDE DEF Upto
    <3> QED BY <2>2, <2>3, FS_Subset
  <2>5. Cardinality(Upto(i)) \in Nat /\ Cardinality(Upto(j)) \in Nat
    BY <2>3, <2>4, FS_CardinalityType
  <2>6. Cardinality(Upto(j)) <= Limit
    <3> HIDE DEF Upto
    <3> QED BY <2>1, <2>4, <2>5, BoundAssumption
  <2> QED BY <2>6 DEF FirstOf
<1> QED BY <1>1, <1>2

LEMMA HighWaterNat ==
  ASSUME NEW p \in PR, log \in Seq(PR)
  PROVE  HighWater(p) \in Nat
BY AfterFinite, LatestIsGreatest DEF HighWater

-----------------------------------------------------------------------------
(* The types of rows                                                         *)

LEMMA Constants ==
  /\ 0 \in Nat /\ 0 \in Ages
  /\ \A a \in Ages : Older(a) \in Ages
  /\ {NoLease, ClaimLease, Stale} \subseteq Nat
BY BoundAssumption DEF Ages, NoLease, Older

LEMMA NoBatchType == NoBatch \in Batch
BY Constants, Zenon DEF NoBatch, Batch

LEMMA NewBatchType ==
  ASSUME NEW evs \in SUBSET Nat, IsFiniteSet(evs), evs # {}
  PROVE  NewBatch(evs) \in Batch
<1>1. Latest(evs) \in Nat
  BY LatestIsGreatest
<1> QED BY <1>1, NoBatchType, Zenon DEF NewBatch, Batch

LEMMA ReleasedType ==
  ASSUME NEW b \in Batch
  PROVE  Released(b) \in Batch /\ [Released(b) EXCEPT !.state = "built"] \in Batch
<1>1. Released(b) \in Batch
  BY Constants, Zenon DEF Released, Batch
<1>2. \A c \in Batch : [c EXCEPT !.state = "built"] \in Batch
  BY Zenon DEF Batch
<1> QED BY <1>1, <1>2

LEMMA RetriedType ==
  ASSUME NEW b \in Batch
  PROVE  Retried(b) \in Batch
BY ReleasedType DEF Retried

LEMMA SweptCellType ==
  ASSUME NEW b \in Batch
  PROVE  SweptCell(b) \in Batch
<1>1. [b EXCEPT !.state = "failed", !.age = 0] \in Batch
  BY Constants, Zenon DEF Batch
<1>2. Expire(b) \in Batch
  BY <1>1, ReleasedType DEF Expire
<1> QED BY <1>2, NoBatchType DEF SweptCell

LEMMA HandOffType ==
  ASSUME NEW b \in Batch, NEW h \in Handoff \cup {NoHandoff}, NEW size \in Nat,
         NEW lease \in {NoLease, ClaimLease, Stale}
  PROVE  HandOff(b, h, size, lease) \in Batch
BY Constants, Zenon DEF HandOff, Batch

LEMMA RejectedLegacyType ==
  ASSUME NEW b \in Batch
  PROVE  RejectedLegacy(b) \in Batch
<1>1. 0 \in Ages /\ b.age \in Ages
  BY BoundAssumption DEF Batch, Ages
<1> QED BY <1>1, NoBatchType DEF RejectedLegacy, Batch

LEMMA FailedCellType ==
  ASSUME NEW b \in Batch, NEW s, NEW t, NEW h
  PROVE  FailedCell(s, t, h, b) \in Batch
<1>1. [b EXCEPT !.handoff = NoHandoff, !.size = 0] \in Batch
  BY DEF Batch
<1> QED BY <1>1, ReleasedType, NoBatchType DEF FailedCell

LEMMA BuildCellType ==
  ASSUME NEW lg \in Seq(PR), NEW s, NEW p, NEW b \in Batch
  PROVE  BuildCell(lg, s, p, b) \in Batch
<1>1. FirstOf(After(lg, p, sub[s][p].cursor)) \in SUBSET Nat
      /\ IsFiniteSet(FirstOf(After(lg, p, sub[s][p].cursor)))
  BY AfterFinite, FirstOfPrefix
<1> QED BY <1>1, NewBatchType DEF BuildCell

LEMMA BuildLegacyType ==
  ASSUME log \in Seq(PR), NEW s, NEW b \in Batch
  PROVE  BuildLegacy(s, b) \in Batch
<1>1. FirstOf(After(log, sess[s].pr, sess[s].cursor)) \in SUBSET Nat
      /\ IsFiniteSet(FirstOf(After(log, sess[s].pr, sess[s].cursor)))
  BY AfterFinite, FirstOfPrefix
<1> QED BY <1>1, NewBatchType DEF BuildLegacy

-----------------------------------------------------------------------------
(* The types of the tables                                                   *)

Rows == [Session -> [Target -> Batch]]

LEMMA UpdateRows ==
  ASSUME NEW B \in Rows, NEW s \in Session, NEW f \in [Target -> Batch]
  PROVE  [B EXCEPT ![s] = f] \in Rows
BY DEF Rows

LEMMA UpdateRow ==
  ASSUME NEW B \in Rows, NEW s \in Session, NEW t \in Target, NEW r \in Batch
  PROVE  [B EXCEPT ![s][t] = r] \in Rows
BY DEF Rows

LEMMA TargetFinite ==
  /\ IsFiniteSet(Target)
  /\ \A T \in SUBSET Target : IsFiniteSet(T) /\ Cardinality(T) \in Nat
<1>1. IsFiniteSet(Target)
  BY FiniteAssumption, FS_AddElement DEF Target
<1> QED BY <1>1, FS_Subset, FS_CardinalityType

LEMMA SweptType ==
  ASSUME TypeOK
  PROVE  Swept \in Rows
BY SweptCellType DEF Swept, Rows, TypeOK

LEMMA BundleCellsType ==
  ASSUME TypeOK, NEW s \in Session, NEW w \in [Target -> Batch]
  PROVE  BundleCells(s, w) \in [Target -> Batch]
<1> DEFINE c == [t \in Target |-> IF t \in ActiveSubs(s) THEN BuildCell(log, s, t, w[t]) ELSE w[t]]
<1>1. log \in Seq(PR)
  BY DEF TypeOK
<1>2. c \in [Target -> Batch]
  BY <1>1, BuildCellType
<1>3. Legacy \in Target
  BY DEF Target
<1>4. BuildLegacy(s, c[Legacy]) \in Batch
  <2> HIDE DEF c
  <2> QED BY <1>1, <1>2, <1>3, BuildLegacyType
<1>5. [c EXCEPT ![Legacy] = BuildLegacy(s, @)] \in [Target -> Batch]
  <2> HIDE DEF c
  <2> QED BY <1>2, <1>4
<1>6. BundleCells(s, w) = c \/ BundleCells(s, w) = [c EXCEPT ![Legacy] = BuildLegacy(s, @)]
  BY DEF BundleCells
<1> HIDE DEF c
<1> QED BY <1>2, <1>5, <1>6

LEMMA SelectableType ==
  ASSUME TypeOK, NEW s \in Session, NEW w \in [Target -> Batch], NEW x \in Selectable(s, w)
  PROVE  x.target \in Target /\ x.row \in Batch /\ Queued(x.row)
<1> DEFINE cell(t) == IF t = Legacy
                      THEN IF ActiveSubs(s) = {} THEN BuildLegacy(s, w[t]) ELSE w[t]
                      ELSE BuildCell(log, s, t, w[t])
<1>1. \A t \in Target : cell(t) \in Batch
  BY BuildCellType, BuildLegacyType DEF TypeOK
<1>2. \E t \in Target : \/ x = [target |-> t, row |-> w[t]] /\ Pending(s, t, w[t])
                        \/ x = [target |-> t, row |-> cell(t)] /\ Pending(s, t, cell(t))
  BY Zenon DEF Selectable
<1>3. Queued(x.row)
  BY <1>2 DEF Pending
<1> HIDE DEF cell
<1> QED BY <1>1, <1>2, <1>3

LEMMA RaisedCursorType ==
  ASSUME TypeOK, NEW s \in Session, NEW T \in SUBSET Target
  PROVE  RaisedCursor(s, T) \in Nat
<1> DEFINE U == {batch[s][t].upto : t \in T}
           f == [t \in T |-> batch[s][t].upto]
<1>1. sess[s].cursor \in Nat /\ \A t \in T : batch[s][t].upto \in Nat
  BY DEF TypeOK, Sess, Batch
<1>2. f \in Surjection(T, U)
  BY Zenon DEF Surjection
<1>3. IsFiniteSet(U)
  BY <1>2, TargetFinite, FS_Surjection
<1>4. IsFiniteSet({sess[s].cursor} \cup U) /\ {sess[s].cursor} \cup U \in SUBSET Nat
  <2>1. IsFiniteSet(U \cup {sess[s].cursor})
    BY <1>3, FS_AddElement
  <2>2. U \cup {sess[s].cursor} = {sess[s].cursor} \cup U
    OBVIOUS
  <2> QED BY <2>1, <2>2, <1>1
<1> QED BY <1>4, LatestIsGreatest DEF RaisedCursor

LEMMA RaisedType ==
  ASSUME TypeOK, NEW s \in Session, NEW T \in SUBSET Target
  PROVE  Raised(s, T) \in [PR -> Sub]
<1>1. \A p \in PR : sub[s][p] \in Sub /\ batch[s][p].upto \in Nat
  BY DEF TypeOK, Batch, Target
<1>2. \A r \in Sub, n \in Nat : [r EXCEPT !.cursor = n] \in Sub
  BY DEF Sub
<1> QED BY <1>1, <1>2 DEF Raised

LEMMA ConfirmType ==
  ASSUME TypeOK, NEW s \in Session, NEW T \in SUBSET Target, Confirm(s, T)
  PROVE  sub' \in [Session -> [PR -> Sub]] /\ sess' \in [Session -> Sess]
<1>1. sub' \in [Session -> [PR -> Sub]]
  BY RaisedType DEF Confirm, TypeOK
<1>2. \A r \in Sess, n \in Nat : [r EXCEPT !.cursor = n] \in Sess
  BY Zenon DEF Sess
<1>3. sess' = [sess EXCEPT ![s] = [sess[s] EXCEPT !.cursor = RaisedCursor(s, T)]]
  BY DEF Confirm
<1>4. [sess[s] EXCEPT !.cursor = RaisedCursor(s, T)] \in Sess
  BY <1>2, RaisedCursorType DEF TypeOK
<1> QED BY <1>1, <1>3, <1>4 DEF TypeOK

LEMMA ExtendedType ==
  ASSUME log \in Seq(PR), NEW p \in PR, NEW n \in Nat
  PROVE  Extended(p, n) \in Seq(PR) /\ Len(Extended(p, n)) = Len(log) + n
<1>1. Len(log) \in Nat /\ \A i \in 1..Len(log) : log[i] \in PR
  OBVIOUS
<1>2. Extended(p, n) \in [1..(Len(log) + n) -> PR] /\ Len(log) + n \in Nat
  BY <1>1 DEF Extended
<1>3. Extended(p, n) \in Seq(PR)
  BY <1>2, SeqDef
<1> QED BY <1>2, <1>3

LEMMA DeactivatedType ==
  ASSUME TypeOK, NEW s \in Session
  PROVE  Deactivated(s) \in [PR -> Sub]
<1>1. \A r \in Sub : [r EXCEPT !.state = "unsubscribed"] \in Sub
  BY DEF Sub
<1> QED BY <1>1 DEF Deactivated, TypeOK

LEMMA WithoutAutomaticType ==
  ASSUME TypeOK, NEW s \in Session
  PROVE  WithoutAutomatic(s) \in [Target -> Batch]
BY NoBatchType DEF WithoutAutomatic, TypeOK

LEMMA ResetRowsType ==
  ASSUME TypeOK, NEW s \in Session, NEW rows \in [Target -> Batch], NEW D, NEW B
  PROVE  ResetRows(s, rows, D, B) \in [Target -> Batch]
BY NoBatchType, BuildCellType DEF ResetRows, TypeOK

LEMMA RejectType ==
  ASSUME TypeOK, NEW X, NEW P, Reject(X, P)
  PROVE  /\ sess' \in [Session -> Sess] /\ sub' \in [Session -> [PR -> Sub]]
         /\ batch' \in Rows
<1>1. \A r \in Sess : [r EXCEPT !.pr = NoPR, !.cursor = 0] \in Sess
  BY Zenon, Constants DEF Sess
<1>2. sess' \in [Session -> Sess]
  BY <1>1 DEF Reject, TypeOK
<1>3. sub' \in [Session -> [PR -> Sub]]
  BY DeactivatedType DEF Reject, TypeOK
<1>4. \A s \in Session :
        [WithoutAutomatic(s) EXCEPT ![Legacy] = RejectedLegacy(@)] \in [Target -> Batch]
  BY WithoutAutomaticType, RejectedLegacyType DEF Target
<1>5. batch' \in Rows
  BY <1>4 DEF Reject, TypeOK, Rows
<1> QED BY <1>2, <1>3, <1>5

-----------------------------------------------------------------------------
(* Type correctness                                                          *)

LEMMA HostTypes ==
  ASSUME TypeOK, HostNext
  PROVE  TypeOK'
<1> PICK s \in Session : HostNext!(s)
  BY Zenon DEF HostNext
<1> DEFINE Settle == {"confirmed", "failed"}
<1>0. Swept \in Rows /\ Swept[s] \in [Target -> Batch]
  BY SweptType DEF Rows
<1>a. batch \in Rows
  BY DEF TypeOK, Rows
<1>1. CASE ClaimReminderBundle(s)
  <2> DEFINE c == BundleCells(s, Swept[s])
             m == Members(s, c)
             h == BundleHandoff(s, c)
             row == [t \in Target |-> IF t \in m THEN HandOff(c[t], h, Cardinality(m), NoLease)
                                     ELSE c[t]]
  <2>1. c \in [Target -> Batch]
    BY <1>0, BundleCellsType
  <2>2. h \in Handoff /\ Cardinality(m) \in Nat
    BY <1>1, TargetFinite, Zenon DEF ClaimReminderBundle, Members
  <2>3. row \in [Target -> Batch]
    <3> HIDE DEF c, h
    <3> QED BY <2>1, <2>2, HandOffType DEF NoLease
  <2>4. batch' = [Swept EXCEPT ![s] = row]
    BY <1>1, Zenon DEF ClaimReminderBundle
  <2>5. batch' \in Rows
    <3> HIDE DEF row
    <3> QED BY <1>0, <2>3, <2>4, UpdateRows
  <2>6. exec' = [exec EXCEPT ![h] = [state |-> "open", age |-> 0]]
        /\ nextHandoff' = IF h = nextHandoff THEN h + 1 ELSE nextHandoff
    BY <1>1, Zenon DEF ClaimReminderBundle
  <2>7. [state |-> "open", age |-> 0] \in [state: {"none", "open", "settled"}, age: Ages]
    BY Constants
  <2>8. exec' \in [Handoff -> [state: {"none", "open", "settled"}, age: Ages]]
        /\ nextHandoff' \in Nat \ {0}
    <3> HIDE DEF h
    <3> QED BY <2>2, <2>6, <2>7 DEF TypeOK
  <2> QED BY <1>1, <2>5, <2>8 DEF ClaimReminderBundle, TypeOK, Rows
<1>2. ASSUME NEW h \in Handoff, NEW o \in Settle, AckReminderBundle(s, h, o)
      PROVE  TypeOK'
  <2>1. Records(s, h) \in SUBSET Target /\ Cardinality(Records(s, h)) \in Nat
    BY TargetFinite DEF Records
  <2>2. batch' \in Rows /\ sub' \in [Session -> [PR -> Sub]] /\ sess' \in [Session -> Sess]
    <3>1. CASE o = "confirmed"
      <4>1. batch' = [batch EXCEPT ![s] = [t \in Target |->
                        IF t \in Records(s, h) THEN NoBatch ELSE batch[s][t]]]
            /\ Confirm(s, Records(s, h))
        BY <1>2, <3>1 DEF AckReminderBundle
      <4>2. [t \in Target |-> IF t \in Records(s, h) THEN NoBatch ELSE batch[s][t]]
              \in [Target -> Batch]
        BY NoBatchType DEF TypeOK
      <4> QED BY <4>1, <4>2, <1>a, <2>1, UpdateRows, ConfirmType
    <3>2. CASE o = "failed"
      <4>1. batch' = [batch EXCEPT ![s] = [t \in Target |-> FailedCell(s, t, h, batch[s][t])]]
            /\ UNCHANGED <<sub, sess>>
        BY <1>2, <3>2 DEF AckReminderBundle
      <4>2. [t \in Target |-> FailedCell(s, t, h, batch[s][t])] \in [Target -> Batch]
        BY FailedCellType DEF TypeOK
      <4> QED BY <4>1, <4>2, <1>a, UpdateRows DEF TypeOK
    <3> QED BY <3>1, <3>2
  <2>3. settlement' \in [Handoff -> [state: {"none", "confirmed", "failed"},
                                     session: Session \cup {"none"}, count: Nat]]
    BY <1>2, <2>1 DEF AckReminderBundle, TypeOK
  <2>4. exec' \in [Handoff -> [state: {"none", "open", "settled"}, age: Ages]]
    <3>1. \A e \in [state: {"none", "open", "settled"}, age: Ages] :
            [e EXCEPT !.state = IF @ = "open" THEN "settled" ELSE @]
              \in [state: {"none", "open", "settled"}, age: Ages]
      OBVIOUS
    <3> QED BY <1>2, <3>1 DEF AckReminderBundle, TypeOK
  <2> QED BY <1>2, <2>2, <2>3, <2>4 DEF AckReminderBundle, TypeOK, Rows
<1>3. ASSUME NEW lease \in {ClaimLease, Stale}, ClaimReminder(s, lease)
      PROVE  TypeOK'
  <2>1. PICK x \in Selectable(s, Swept[s]) :
          IF sess[s].status = "active"
          THEN /\ nextHandoff \in Handoff
               /\ batch' = [Swept EXCEPT ![s][x.target] =
                              HandOff(Retried(x.row), nextHandoff, 0, lease)]
               /\ nextHandoff' = nextHandoff + 1
          ELSE /\ batch' = [Swept EXCEPT ![s][x.target] = Retried(x.row)]
               /\ UNCHANGED nextHandoff
    BY <1>3, Zenon DEF ClaimReminder
  <2>2. x.target \in Target /\ Retried(x.row) \in Batch
    BY <1>0, SelectableType, RetriedType
  <2>3. nextHandoff \in Handoff => HandOff(Retried(x.row), nextHandoff, 0, lease) \in Batch
    BY <2>2, HandOffType, Constants
  <2>4. batch' \in Rows
    BY <1>0, <2>1, <2>2, <2>3, UpdateRow
  <2>5. nextHandoff' \in Nat \ {0}
    BY <2>1 DEF TypeOK
  <2> QED BY <1>3, <2>4, <2>5 DEF ClaimReminder, TypeOK, Rows
<1>4. ASSUME NEW t \in Target, NEW h \in Handoff, NEW o \in Settle, SettleReminderClaim(s, t, h, o)
      PROVE  TypeOK'
  <2>1. batch' \in Rows
    <3>1. batch' = [Swept EXCEPT ![s][t] = NoBatch] \/ batch' = [Swept EXCEPT ![s][t] = Released(@)]
      BY <1>4 DEF SettleReminderClaim
    <3>2. Released(Swept[s][t]) \in Batch
      BY <1>0, ReleasedType
    <3>3. [Swept EXCEPT ![s][t] = Released(@)] = [Swept EXCEPT ![s][t] = Released(Swept[s][t])]
      BY <1>0 DEF Rows
    <3> QED BY <1>0, <3>1, <3>2, <3>3, NoBatchType, UpdateRow
  <2>2. sub' \in [Session -> [PR -> Sub]] /\ sess' \in [Session -> Sess]
    BY <1>4, ConfirmType DEF SettleReminderClaim, TypeOK
  <2> QED BY <1>4, <2>1, <2>2 DEF SettleReminderClaim, TypeOK, Rows
<1>5. CASE ConfirmClaudeHandoff(s)
  <2>1. PICK t \in Target :
          IF batch[s][t].handoff # NoHandoff
          THEN SettleReminderClaim(s, t, batch[s][t].handoff, "confirmed")
          ELSE /\ batch' = [batch EXCEPT ![s][t] = NoBatch]
               /\ Confirm(s, {t})
               /\ UNCHANGED <<log, paused, asked, settlement, exec, nextHandoff, coordinator>>
    BY <1>5, Zenon DEF ConfirmClaudeHandoff
  <2>2. CASE batch[s][t].handoff # NoHandoff
    <3>1. batch[s][t].handoff \in Handoff
      BY <2>2 DEF TypeOK, Batch
    <3> QED BY <1>4, <2>1, <2>2, <3>1
  <2>3. CASE batch[s][t].handoff = NoHandoff
    <3>1. batch' = [batch EXCEPT ![s][t] = NoBatch] /\ Confirm(s, {t})
          /\ UNCHANGED <<log, paused, asked, settlement, exec, nextHandoff, coordinator>>
      BY <2>1, <2>3
    <3>2. batch' \in Rows
      BY <1>a, <3>1, NoBatchType, UpdateRow
    <3>3. sub' \in [Session -> [PR -> Sub]] /\ sess' \in [Session -> Sess]
      BY <3>1, ConfirmType
    <3> QED BY <3>1, <3>2, <3>3 DEF TypeOK, Rows
  <2> QED BY <2>2, <2>3
<1>6. CASE GetPendingReminder(s)
  <2>1. PICK x \in Selectable(s, Swept[s]) : batch' = [Swept EXCEPT ![s][x.target] = Retried(x.row)]
    BY <1>6, Zenon DEF GetPendingReminder
  <2>2. x.target \in Target /\ Retried(x.row) \in Batch
    BY <1>0, SelectableType, RetriedType
  <2>3. batch' \in Rows
    BY <1>0, <2>1, <2>2, UpdateRow
  <2> QED BY <1>6, <2>3 DEF GetPendingReminder, TypeOK, Rows
<1>7. ASSUME NEW t \in Target, NEW o \in {"handed_off", "confirmed", "failed"}, AckReminder(s, t, o)
      PROVE  TypeOK'
  <2>1. batch[s][t] \in Batch
    BY DEF TypeOK
  <2>2. HandOff(batch[s][t], NoHandoff, 0, NoLease) \in Batch
    BY <2>1, HandOffType, Constants
  <2>3. \E r \in Batch : batch' = [batch EXCEPT ![s][t] = r]
    <3>1. \/ batch' = [batch EXCEPT ![s][t] = HandOff(@, NoHandoff, 0, NoLease)]
          \/ batch' = [batch EXCEPT ![s][t] = Released(@)]
          \/ batch' = [batch EXCEPT ![s][t] = NoBatch]
      BY <1>7 DEF AckReminder
    <3> QED BY <3>1, <2>1, <2>2, <1>a, ReleasedType, NoBatchType DEF Rows
  <2>4. batch' \in Rows
    <3>1. PICK r \in Batch : batch' = [batch EXCEPT ![s][t] = r]
      BY <2>3
    <3> QED BY <3>1, <1>a, UpdateRow
  <2>5. sub' \in [Session -> [PR -> Sub]] /\ sess' \in [Session -> Sess]
    BY <1>7, ConfirmType DEF AckReminder, TypeOK
  <2> QED BY <1>7, <2>4, <2>5 DEF AckReminder, TypeOK, Rows
<1> QED BY <1>1, <1>2, <1>3, <1>4, <1>5, <1>6, <1>7

LEMMA SessionTypes ==
  ASSUME TypeOK, SessionNext
  PROVE  TypeOK'
<1> PICK s \in Session : SessionNext!(s)
  BY Zenon DEF SessionNext
<1>a. /\ NoSession \in Sess /\ NoSub \in Sub
      /\ [NoSession EXCEPT !.status = "active"] \in Sess
      /\ \A r \in Sess, st \in {"active", "detached", "closed"} : [r EXCEPT !.status = st] \in Sess
  BY Zenon, Constants DEF Sess, Sub, NoSession, NoSub
<1>b. [t \in Target |-> NoBatch] \in [Target -> Batch] /\ [p \in PR |-> NoSub] \in [PR -> Sub]
  BY <1>a, NoBatchType
<1>c. batch \in Rows
  BY DEF TypeOK, Rows
<1>1. CASE RegisterSession(s)
  BY <1>1, <1>a DEF RegisterSession, TypeOK
<1>2. ASSUME NEW q \in PR \cup {NoPR}, NEW changed \in BOOLEAN, NEW pause \in BOOLEAN,
             EnsureSessionControl(s, q, changed, pause)
      PROVE  TypeOK'
  <2>1. [status |-> "active", pr |-> q, cursor |-> IF q = NoPR THEN 0 ELSE HighWater(q)] \in Sess
    BY HighWaterNat DEF Sess, TypeOK
  <2>2. sess' \in [Session -> Sess]
    BY <1>2, <1>a, <2>1 DEF EnsureSessionControl, TypeOK
  <2>3. paused' \in [Session -> BOOLEAN]
    BY <1>2 DEF EnsureSessionControl, TypeOK
  <2>4. batch' \in Rows
    BY <1>2, <1>b, <1>c, UpdateRows DEF EnsureSessionControl
  <2>5. sub' \in [Session -> [PR -> Sub]]
    BY <1>2, DeactivatedType DEF EnsureSessionControl, TypeOK
  <2> QED BY <1>2, <2>2, <2>3, <2>4, <2>5 DEF EnsureSessionControl, TypeOK, Rows
<1>3. CASE Revive(s)
  BY <1>3, <1>a DEF Revive, TypeOK
<1>4. CASE Detach(s)
  BY <1>4, <1>a DEF Detach, TypeOK
<1>5. CASE Close(s)
  BY <1>5, <1>a DEF Close, TypeOK
<1>6. CASE PruneClosedSession(s)
  <2>1. batch' \in Rows
    BY <1>6, <1>b, <1>c, UpdateRows DEF PruneClosedSession
  <2> QED BY <1>6, <1>a, <1>b, <2>1 DEF PruneClosedSession, TypeOK, Rows
<1>7. ASSUME NEW pause \in BOOLEAN, SetSessionPaused(s, pause)
      PROVE  TypeOK'
  BY <1>7 DEF SetSessionPaused, TypeOK
<1>8. CASE PrunePause(s)
  BY <1>8 DEF PrunePause, TypeOK
<1> QED BY <1>1, <1>2, <1>3, <1>4, <1>5, <1>6, <1>7, <1>8

LEMMA DiscoverTypes ==
  ASSUME TypeOK, NEW p \in PR, NEW F, NEW S, NEW W, NEW n \in {0, 1},
         DiscoverPullRequest(p, F, S, W, n)
  PROVE  TypeOK'
<1>1. log' \in Seq(PR)
  BY ExtendedType DEF DiscoverPullRequest, TypeOK
<1>2. \A r \in Sess : Attached(r, p) \in Sess
  <2>1. \A r \in Sess, c \in Nat : [r EXCEPT !.pr = p, !.cursor = c] \in Sess
    BY Zenon DEF Sess
  <2>2. \A r \in Sess : r.cursor \in Nat
    BY DEF Sess
  <2> QED BY <2>1, <2>2, HighWaterNat DEF Attached, TypeOK
<1>3. sess' \in [Session -> Sess]
  BY <1>2 DEF DiscoverPullRequest, TypeOK
<1>4. \A s \in Session, r \in Sub : Baselined(s, p, r) \in Sub
  BY HighWaterNat DEF Baselined, Sub, TypeOK
<1>5. sub' \in [Session -> [PR -> Sub]]
  <2>1. \A s \in Session : sub[s] \in [PR -> Sub] /\ Deactivated(s) \in [PR -> Sub]
    BY DeactivatedType DEF TypeOK
  <2>2. \A s \in Session, f \in [PR -> Sub] : [f EXCEPT ![p] = Baselined(s, p, @)] \in [PR -> Sub]
    BY <1>4
  <2> QED BY <2>1, <2>2 DEF DiscoverPullRequest
<1>6. batch' \in Rows
  BY WithoutAutomaticType DEF DiscoverPullRequest, TypeOK, Rows
<1> QED BY <1>1, <1>3, <1>5, <1>6 DEF DiscoverPullRequest, TypeOK, Rows

LEMMA SubscriptionTypes ==
  ASSUME TypeOK, SubscriptionNext
  PROVE  TypeOK'
<1>a. batch \in Rows /\ NoSub \in Sub
      /\ (\A r \in Sub : [r EXCEPT !.state = "active", !.source = "manual"] \in Sub)
      /\ \A r \in Sub : [r EXCEPT !.state = "unsubscribed"] \in Sub
  BY Zenon, Constants DEF TypeOK, Rows, Sub, NoSub
<1>1. ASSUME NEW s \in Session, NEW p \in PR, Subscribe(s, p)
      PROVE  TypeOK'
  <2>1. sub' = [sub EXCEPT ![s][p] = [@ EXCEPT !.state = "active", !.source = "manual"]]
    BY <1>1 DEF Subscribe, TypeOK
  <2>2. sub' \in [Session -> [PR -> Sub]]
    BY <1>a, <2>1 DEF TypeOK
  <2> QED BY <1>1, <2>2 DEF Subscribe, TypeOK
<1>2. ASSUME NEW s \in Session, NEW p \in PR, Unsubscribe(s, p)
      PROVE  TypeOK'
  <2>1. batch' \in Rows
    <3>1. p \in Target
      BY DEF Target
    <3>2. (IF InFlight(batch[s][p]) THEN batch[s][p] ELSE NoBatch) \in Batch
      BY <1>a, <3>1, NoBatchType DEF Rows
    <3> QED BY <1>2, <1>a, <3>1, <3>2, UpdateRow DEF Unsubscribe, Rows
  <2>2. sub' \in [Session -> [PR -> Sub]]
    <3>1. sub' = [sub EXCEPT ![s][p] = [@ EXCEPT !.state = "unsubscribed"]]
      BY <1>2 DEF Unsubscribe, TypeOK
    <3> QED BY <1>a, <3>1 DEF TypeOK
  <2> QED BY <1>2, <2>1, <2>2 DEF Unsubscribe, TypeOK, Rows
<1>3. ASSUME NEW s \in Session, NEW p \in PR, PruneSubscription(s, p)
      PROVE  TypeOK'
  <2>1. batch' \in Rows
    BY <1>3, <1>a, NoBatchType, UpdateRow DEF PruneSubscription, Target
  <2>2. sub' \in [Session -> [PR -> Sub]]
    BY <1>3, <1>a DEF PruneSubscription, TypeOK
  <2> QED BY <1>3, <2>1, <2>2 DEF PruneSubscription, TypeOK, Rows
<1>4. ASSUME NEW s \in Session, NEW p \in PR, RejectPullRequest(s, p)
      PROVE  TypeOK'
  <2>1. Reject({s}, [u \in Session |-> {p}])
    BY <1>4 DEF RejectPullRequest
  <2>2. /\ sess' \in [Session -> Sess] /\ sub' \in [Session -> [PR -> Sub]]
        /\ batch' \in Rows
    BY <2>1, RejectType
  <2> QED BY <1>4, <2>2 DEF RejectPullRequest, TypeOK, Rows
<1>5. ASSUME NEW s \in Session, NEW D \in SUBSET PR, NEW B \in SUBSET PR, ActivateWorktree(s, D, B)
      PROVE  TypeOK'
  <2>1. batch' \in Rows
    BY <1>5, <1>a, WithoutAutomaticType, ResetRowsType, UpdateRows DEF ActivateWorktree
  <2>2. sub' \in [Session -> [PR -> Sub]]
    BY <1>5, DeactivatedType DEF ActivateWorktree, TypeOK
  <2> QED BY <1>5, <2>1, <2>2 DEF ActivateWorktree, TypeOK, Rows
<1> QED BY <1>1, <1>2, <1>3, <1>4, <1>5, DiscoverTypes DEF SubscriptionNext

LEMMA DaemonTypes ==
  ASSUME TypeOK, DaemonNext
  PROVE  TypeOK'
<1>1. ASSUME NEW p \in PR, NEW n \in 0..MaxPerPoll, NEW changed \in BOOLEAN,
             NEW B \in SUBSET Session, Poll(p, n, changed, B)
      PROVE  TypeOK'
  <2>1. Extended(p, n) \in Seq(PR)
    BY ExtendedType, BoundAssumption DEF TypeOK
  <2>2. p \in Target /\ \A s \in Session : Reconciled(s, p, changed) \in Batch
    BY NoBatchType DEF Reconciled, TypeOK, Target
  <2>3. \A s \in Session : BuildCell(Extended(p, n), s, p, Reconciled(s, p, changed)) \in Batch
    BY <2>1, <2>2, BuildCellType
  <2>4. batch' \in Rows
    BY <1>1, <2>2, <2>3 DEF Poll, TypeOK, Rows
  <2>5. log' \in Seq(PR)
    BY <1>1, <2>1 DEF Poll
  <2> QED BY <1>1, <2>4, <2>5 DEF Poll, TypeOK, Rows
<1>2. ASSUME NEW X \in SUBSET Session, SuspendAutomaticSubscriptions(X)
      PROVE  TypeOK'
  <2>1. PICK P : Reject(X, P)
    BY <1>2, Zenon DEF SuspendAutomaticSubscriptions
  <2>2. coordinator' \in {"suspended", coordinator}
    BY <1>2 DEF SuspendAutomaticSubscriptions
  <2> QED BY <1>2, <2>1, <2>2, RejectType DEF SuspendAutomaticSubscriptions, TypeOK, Rows
<1>3. ASSUME NEW D, NEW B, ResetInferredSubscriptionPolicies(D, B)
      PROVE  TypeOK'
  <2>1. batch' \in Rows
    <3>1. \A s \in Session : ResetRows(s, batch[s], D[s], B[s]) \in [Target -> Batch]
      BY ResetRowsType DEF TypeOK
    <3> QED BY <1>3, <3>1 DEF ResetInferredSubscriptionPolicies, Rows
  <2>2. coordinator' \in {"serving", coordinator}
    BY <1>3 DEF ResetInferredSubscriptionPolicies
  <2> QED BY <1>3, <2>1, <2>2 DEF ResetInferredSubscriptionPolicies, TypeOK, Rows
<1>4. ASSUME NEW X \in SUBSET Session, RecoverFromRestart(X)
      PROVE  TypeOK'
  <2>1. \A r \in Sess : [r EXCEPT !.status = "detached"] \in Sess
    BY Zenon DEF Sess
  <2>2. sess' \in [Session -> Sess]
    BY <1>4, <2>1 DEF RecoverFromRestart, TypeOK
  <2>3. batch' \in Rows
    BY <1>4, ReleasedType DEF RecoverFromRestart, TypeOK, Rows
  <2> QED BY <1>4, <2>2, <2>3 DEF RecoverFromRestart, TypeOK, Rows
<1>5. CASE ExpireStaleHandoffs
  BY <1>5, SweptType DEF ExpireStaleHandoffs, TypeOK, Rows
<1>6. CASE Tick
  <2>1. \A b \in Batch : [b EXCEPT !.age = Older(@)] \in Batch
    <3>1. \A b \in Batch : b.age \in Ages
      BY DEF Batch
    <3>2. \A b \in Batch, a \in Ages : [b EXCEPT !.age = a] \in Batch
      BY Zenon DEF Batch
    <3> QED BY <3>1, <3>2, Constants
  <2>2. \A e \in [state: {"none", "open", "settled"}, age: Ages] :
          [e EXCEPT !.age = Older(@)] \in [state: {"none", "open", "settled"}, age: Ages]
    BY Constants
  <2>3. batch' \in Rows
    BY <1>6, <2>1 DEF Tick, TypeOK, Rows
  <2>4. exec' \in [Handoff -> [state: {"none", "open", "settled"}, age: Ages]]
    BY <1>6, <2>2 DEF Tick, TypeOK
  <2> QED BY <1>6, <2>3, <2>4 DEF Tick, TypeOK, Rows
<1>7. CASE Crash
  BY <1>7 DEF Crash, TypeOK
<1> QED BY <1>1, <1>2, <1>3, <1>4, <1>5, <1>6, <1>7 DEF DaemonNext

LEMMA StepTypes ==
  ASSUME TypeOK, [Next]_vars
  PROVE  TypeOK'
<1>1. CASE UNCHANGED vars
  BY <1>1 DEF vars, TypeOK
<1> QED BY <1>1, HostTypes, SessionTypes, SubscriptionTypes, DaemonTypes DEF Next

LEMMA InitTypes == Init => TypeOK
<1> SUFFICES ASSUME Init PROVE TypeOK
  OBVIOUS
<1>1. log \in Seq(PR) /\ paused \in [Session -> BOOLEAN]
  BY DEF Init
<1>2. NoSession \in Sess /\ NoSub \in Sub
  BY Zenon, Constants DEF NoSession, NoSub, Sess, Sub
<1>3. batch \in [Session -> [Target -> Batch]]
  BY NoBatchType DEF Init
<1>4. sess \in [Session -> Sess] /\ sub \in [Session -> [PR -> Sub]]
  BY <1>2 DEF Init
<1>5. NoSettlement \in [state: {"none", "confirmed", "failed"}, session: Session \cup {"none"},
                        count: Nat]
      /\ NoExec \in [state: {"none", "open", "settled"}, age: Ages]
  BY Zenon, Constants DEF NoSettlement, NoExec
<1> QED BY <1>1, <1>3, <1>4, <1>5 DEF Init, TypeOK

(* Every table of the store keeps its type, for any number of sessions and      *)
(* pull requests: no transaction writes a row the schema does not describe.     *)
THEOREM TypeCorrect == Spec => []TypeOK
BY InitTypes, StepTypes, PTL DEF Spec

-----------------------------------------------------------------------------
(* Batches are prefixes of what is pending                                   *)

(* The row b of a subscription r to p holds the events after r's cursor up to upto. *)
(* It is never canceled: only a legacy row is.                                      *)
PrefixRow(lg, p, r, b) ==
  b.state # "none" => /\ r.state # "none" /\ b.upto \in b.evs /\ ~b.canceled
                      /\ b.evs = {i \in After(lg, p, r.cursor) : i <= b.upto}

(* c is gone or holds the events of b. *)
SameEvents(b, c) ==
  c.state # "none" => /\ b.state # "none" /\ c.evs = b.evs /\ c.upto = b.upto
                      /\ c.canceled = b.canceled

(* A known subscription stays known and its cursor stays. *)
SameCursor(r, q) == r.state # "none" => q.state # "none" /\ q.cursor = r.cursor

(* What follows the events logged is new. *)
Extends(lg, lh) == /\ Len(lg) <= Len(lh)
                   /\ \A i \in 1..Len(lg) : lh[i] = lg[i]

LEMMA PrefixKept ==
  ASSUME NEW lg \in Seq(PR), NEW lh \in Seq(PR), Extends(lg, lh), NEW p,
         NEW r, NEW q, SameCursor(r, q), NEW b, NEW c, SameEvents(b, c),
         PrefixRow(lg, p, r, b)
  PROVE  PrefixRow(lh, p, q, c)
<1> SUFFICES ASSUME c.state # "none" PROVE PrefixRow(lh, p, q, c)
  BY DEF PrefixRow
<1>1. /\ r.state # "none" /\ q.state # "none" /\ q.cursor = r.cursor
      /\ c.evs = b.evs /\ c.upto = b.upto /\ b.upto \in b.evs
      /\ c.canceled = b.canceled /\ ~b.canceled
      /\ b.evs = {i \in After(lg, p, r.cursor) : i <= b.upto}
  BY DEF PrefixRow, SameEvents, SameCursor
<1>2. b.upto \in 1..Len(lg)
  BY <1>1 DEF After
<1>3. \A i \in 1..Len(lg) : i \in After(lg, p, r.cursor) <=> i \in After(lh, p, r.cursor)
  BY DEF After, Extends
<1>4. \A i : i \in After(lh, p, r.cursor) /\ i <= b.upto => i \in 1..Len(lg)
  BY <1>2 DEF After
<1>5. \A i : i \in After(lg, p, r.cursor) => i \in 1..Len(lg)
  BY DEF After
<1>6. b.evs = {i \in After(lh, p, r.cursor) : i <= b.upto}
  BY <1>1, <1>3, <1>4, <1>5
<1> QED BY <1>1, <1>6 DEF PrefixRow

LEMMA ExtendedExtends ==
  ASSUME log \in Seq(PR), NEW p \in PR, NEW n \in Nat
  PROVE  Extends(log, Extended(p, n)) /\ Extends(log, log)
<1>1. \A i \in 1..Len(log) : Extended(p, n)[i] = log[i]
  BY DEF Extended
<1> QED BY <1>1, ExtendedType DEF Extends

(* A batch just built is the prefix of what is pending. *)
LEMMA BuiltPrefix ==
  ASSUME NEW lg \in Seq(PR), NEW s, NEW p, NEW b,
         PrefixRow(lg, p, sub[s][p], b)
  PROVE  PrefixRow(lg, p, sub[s][p], BuildCell(lg, s, p, b))
<1> DEFINE pending == After(lg, p, sub[s][p].cursor)
           evs == FirstOf(pending)
<1> SUFFICES ASSUME sub[s][p].state = "active", evs # {},
                    BuildCell(lg, s, p, b) = NewBatch(evs)
             PROVE  PrefixRow(lg, p, sub[s][p], NewBatch(evs))
  BY DEF BuildCell
<1>1. /\ evs \in SUBSET pending /\ IsFiniteSet(evs) /\ pending \in SUBSET Nat
      /\ \A i \in evs : \A j \in pending : j <= i => j \in evs
  BY AfterFinite, FirstOfPrefix
<1>2. Latest(evs) \in evs /\ \A j \in evs : j <= Latest(evs)
  BY <1>1, LatestIsGreatest
<1>3. evs = {i \in pending : i <= Latest(evs)}
  <2> HIDE DEF evs, pending
  <2> QED BY <1>1, <1>2
<1>4. NewBatch(evs).evs = evs /\ NewBatch(evs).upto = Latest(evs) /\ ~NewBatch(evs).canceled
  BY DEF NewBatch, NoBatch
<1> HIDE DEF evs
<1> QED BY <1>2, <1>3, <1>4 DEF PrefixRow

LEMMA RowsKeepEvents ==
  ASSUME NEW b \in Batch
  PROVE  /\ SameEvents(b, b) /\ SameEvents(b, NoBatch)
         /\ SameEvents(b, SweptCell(b))
         /\ b.state # "none" => SameEvents(b, Released(b))
         /\ SameEvents(b, Retried(b))
         /\ \A s, t, h : SameEvents(b, FailedCell(s, t, h, b))
         /\ \A h, size, lease : b.state # "none" => SameEvents(b, HandOff(b, h, size, lease))
<1>1. SameEvents(b, b) /\ SameEvents(b, NoBatch)
  BY DEF SameEvents, NoBatch
<1>2. b.state # "none" => SameEvents(b, Released(b)) /\ SameEvents(b, [Released(b) EXCEPT !.state = "built"])
  BY DEF SameEvents, Released, Batch
<1>3. b.state # "none" => SameEvents(b, [b EXCEPT !.state = "failed", !.age = 0])
  BY DEF SameEvents, Batch
<1>4. SameEvents(b, SweptCell(b))
  BY <1>1, <1>2, <1>3 DEF SweptCell, Expire, Stalled, InFlight
<1>5. SameEvents(b, Retried(b))
  BY <1>1, <1>2 DEF Retried
<1>6. \A s, t, h : SameEvents(b, FailedCell(s, t, h, b))
  <2>1. SameEvents(b, [b EXCEPT !.handoff = NoHandoff, !.size = 0])
    BY DEF SameEvents, Batch
  <2> QED BY <1>1, <1>2, <2>1 DEF FailedCell, InFlight
<1>7. \A h, size, lease : b.state # "none" => SameEvents(b, HandOff(b, h, size, lease))
  BY DEF SameEvents, HandOff, Batch
<1> QED BY <1>1, <1>2, <1>4, <1>5, <1>6, <1>7

PrefixAt(s, p) == PrefixRow(log, p, sub[s][p], batch[s][p])

(* Every row of a subscription is such a prefix. *)
PrefixRows == \A s \in Session, p \in PR : PrefixAt(s, p)

(* Nothing but the row of s and p changed, and that kept its events. *)
LEMMA PrefixAtKept ==
  ASSUME TypeOK, TypeOK', Extends(log, log'), NEW s \in Session, NEW p \in PR,
         SameCursor(sub[s][p], sub'[s][p]), SameEvents(batch[s][p], batch'[s][p]),
         PrefixAt(s, p)
  PROVE  PrefixAt(s, p)'
BY PrefixKept DEF PrefixAt, TypeOK

LEMMA SameRefl ==
  /\ \A r : SameCursor(r, r)
  /\ log \in Seq(PR) => Extends(log, log)
BY DEF SameCursor, Extends

LEMMA SweptPrefix ==
  ASSUME TypeOK, PrefixRows, NEW s \in Session, NEW p \in PR
  PROVE  /\ SameEvents(batch[s][p], Swept[s][p])
         /\ PrefixRow(log, p, sub[s][p], Swept[s][p])
<1>1. p \in Target /\ batch[s][p] \in Batch /\ log \in Seq(PR)
  BY DEF Target, TypeOK
<1>2. SameEvents(batch[s][p], Swept[s][p])
  BY <1>1, RowsKeepEvents DEF Swept
<1>3. PrefixRow(log, p, sub[s][p], batch[s][p])
  BY DEF PrefixRows, PrefixAt
<1> QED BY <1>1, <1>2, <1>3, PrefixKept, SameRefl

LEMMA BundleCellsPrefix ==
  ASSUME TypeOK, PrefixRows, NEW s \in Session, NEW p \in PR
  PROVE  PrefixRow(log, p, sub[s][p], BundleCells(s, Swept[s])[p])
<1> DEFINE w == Swept[s]
           c == [t \in Target |-> IF t \in ActiveSubs(s) THEN BuildCell(log, s, t, w[t]) ELSE w[t]]
<1>1. p \in Target /\ p # Legacy /\ log \in Seq(PR)
  BY NameAssumption DEF Target, TypeOK
<1>2. BundleCells(s, w) = c \/ BundleCells(s, w) = [c EXCEPT ![Legacy] = BuildLegacy(s, @)]
  BY DEF BundleCells
<1>3. BundleCells(s, w)[p] = BuildCell(log, s, p, w[p]) \/ BundleCells(s, w)[p] = w[p]
  BY <1>1, <1>2
<1> HIDE DEF w
<1> QED BY <1>1, <1>3, SweptPrefix, BuiltPrefix DEF w

LEMMA SelectablePrefix ==
  ASSUME TypeOK, PrefixRows, NEW s \in Session, NEW x \in Selectable(s, Swept[s]),
         x.target \in PR
  PROVE  PrefixRow(log, x.target, sub[s][x.target], x.row)
<1> DEFINE w == Swept[s]
           cell(t) == IF t = Legacy
                      THEN IF ActiveSubs(s) = {} THEN BuildLegacy(s, w[t]) ELSE w[t]
                      ELSE BuildCell(log, s, t, w[t])
<1>1. \E t \in Target : \/ x = [target |-> t, row |-> w[t]] /\ Pending(s, t, w[t])
                        \/ x = [target |-> t, row |-> cell(t)] /\ Pending(s, t, cell(t))
  BY Zenon DEF Selectable
<1>3. x.target # Legacy /\ log \in Seq(PR)
  BY NameAssumption DEF TypeOK
<1>4. x.row = w[x.target] \/ x.row = BuildCell(log, s, x.target, w[x.target])
  BY <1>1, <1>3
<1> HIDE DEF w
<1> QED BY <1>3, <1>4, SweptPrefix, BuiltPrefix DEF w

(* A step that confirms the rows T of s and drops them, keeping the others *)
LEMMA ConfirmedPrefix ==
  ASSUME TypeOK, TypeOK', PrefixRows, NEW s \in Session, NEW T \in SUBSET Target,
         Confirm(s, T), UNCHANGED log,
         \A u \in Session, p \in PR :
            IF u = s /\ p \in T THEN batch'[u][p] = NoBatch
            ELSE SameEvents(batch[u][p], batch'[u][p])
  PROVE  PrefixRows'
<1> SUFFICES ASSUME NEW u \in Session, NEW p \in PR PROVE PrefixAt(u, p)'
  BY DEF PrefixRows
<1>1. PrefixAt(u, p)
  BY DEF PrefixRows
<1>2. CASE u = s /\ p \in T
  BY <1>2 DEF PrefixAt, PrefixRow, NoBatch
<1>3. CASE ~(u = s /\ p \in T)
  <2>1. sub'[u][p] = sub[u][p]
    BY <1>3 DEF Confirm, Raised, TypeOK
  <2> QED BY <1>1, <1>3, <2>1, PrefixAtKept, SameRefl DEF TypeOK
<1> QED BY <1>2, <1>3

(* A step that touches no cursor and no event, and rebuilds only rows R(s, p). *)
LEMMA RebuiltPrefix ==
  ASSUME TypeOK, TypeOK', PrefixRows, Extends(log, log'),
         \A u \in Session, p \in PR :
            \/ PrefixRow(log', p, sub'[u][p], batch'[u][p])
            \/ SameCursor(sub[u][p], sub'[u][p]) /\ SameEvents(batch[u][p], batch'[u][p])
  PROVE  PrefixRows'
<1> SUFFICES ASSUME NEW u \in Session, NEW p \in PR PROVE PrefixAt(u, p)'
  BY DEF PrefixRows
<1>1. PrefixAt(u, p)
  BY DEF PrefixRows
<1> QED BY <1>1, PrefixAtKept DEF PrefixAt

LEMMA HostPrefix ==
  ASSUME TypeOK, TypeOK', PrefixRows, HostNext
  PROVE  PrefixRows'
<1> PICK s \in Session : HostNext!(s)
  BY Zenon DEF HostNext
<1> DEFINE Settle == {"confirmed", "failed"}
<1>0. /\ Swept \in Rows /\ batch \in Rows /\ Extends(log, log) /\ \A p \in PR : p \in Target
      /\ \A u \in Session, p \in PR : /\ SameCursor(sub[u][p], sub[u][p])
                                    /\ SameEvents(batch[u][p], batch[u][p])
                                    /\ SameEvents(batch[u][p], Swept[u][p])
  <2>1. \A u \in Session, p \in PR : p \in Target /\ batch[u][p] \in Batch
    BY DEF TypeOK, Target
  <2>2. Swept \in Rows /\ batch \in Rows /\ Extends(log, log)
    BY SweptType, SameRefl DEF TypeOK, Rows
  <2>3. \A u \in Session, p \in PR : SameEvents(batch[u][p], Swept[u][p])
    BY SweptPrefix
  <2>4. \A u \in Session, p \in PR : SameEvents(batch[u][p], batch[u][p])
    BY DEF SameEvents
  <2>5. \A p \in PR : p \in Target
    BY DEF Target
  <2> QED BY <2>2, <2>3, <2>4, <2>5, SameRefl
<1>1. CASE ClaimReminderBundle(s)
  <2> DEFINE c == BundleCells(s, Swept[s])
             m == Members(s, c)
             h == BundleHandoff(s, c)
             row == [t \in Target |-> IF t \in m THEN HandOff(c[t], h, Cardinality(m), NoLease)
                                     ELSE c[t]]
  <2>1. batch' = [Swept EXCEPT ![s] = row] /\ UNCHANGED <<log, sub>>
    BY <1>1, Zenon DEF ClaimReminderBundle
  <2>2. ASSUME NEW p \in PR PROVE PrefixRow(log, p, sub[s][p], row[p])
    <3>1. c[p] \in Batch /\ (p \in m => c[p].state # "none")
      BY <1>0, BundleCellsType DEF Members, Pending, Queued, Rows
    <3>2. PrefixRow(log, p, sub[s][p], c[p])
      BY BundleCellsPrefix
    <3>3. SameEvents(c[p], row[p])
      <4> HIDE DEF c, h
      <4> QED BY <1>0, <3>1, RowsKeepEvents
    <3> HIDE DEF row, c
    <3> QED BY <1>0, <3>2, <3>3, PrefixKept, SameRefl DEF TypeOK
  <2>3. ASSUME NEW u \in Session, NEW p \in PR
        PROVE  \/ PrefixRow(log', p, sub'[u][p], batch'[u][p])
               \/ SameCursor(sub[u][p], sub'[u][p]) /\ SameEvents(batch[u][p], batch'[u][p])
    <3> HIDE DEF row
    <3>1. CASE u = s
      BY <1>0, <2>1, <2>2, <3>1 DEF Rows
    <3>2. CASE u # s
      BY <1>0, <2>1, <3>2 DEF Rows
    <3> QED BY <3>1, <3>2
  <2> QED BY <1>0, <2>1, <2>3, RebuiltPrefix
<1>2. ASSUME NEW h \in Handoff, NEW o \in Settle, AckReminderBundle(s, h, o)
      PROVE  PrefixRows'
  <2>1. CASE o = "confirmed"
    <3>1. /\ batch' = [batch EXCEPT ![s] = [t \in Target |->
                        IF t \in Records(s, h) THEN NoBatch ELSE batch[s][t]]]
          /\ Confirm(s, Records(s, h)) /\ UNCHANGED log
      BY <1>2, <2>1 DEF AckReminderBundle
    <3>2. Records(s, h) \in SUBSET Target
      BY DEF Records
    <3>3. \A u \in Session, p \in PR :
            IF u = s /\ p \in Records(s, h) THEN batch'[u][p] = NoBatch
            ELSE SameEvents(batch[u][p], batch'[u][p])
      BY <1>0, <3>1 DEF Rows
    <3> QED BY <3>1, <3>2, <3>3, ConfirmedPrefix
  <2>2. CASE o = "failed"
    <3>1. /\ batch' = [batch EXCEPT ![s] = [t \in Target |-> FailedCell(s, t, h, batch[s][t])]]
          /\ UNCHANGED <<log, sub>>
      BY <1>2, <2>2 DEF AckReminderBundle
    <3>2. \A u \in Session, p \in PR : SameEvents(batch[u][p], batch'[u][p])
      BY <1>0, <3>1, RowsKeepEvents DEF Rows
    <3> QED BY <1>0, <3>1, <3>2, RebuiltPrefix
  <2> QED BY <2>1, <2>2
<1>x. ASSUME NEW x \in Selectable(s, Swept[s]), NEW r, UNCHANGED <<log, sub>>,
             batch' = [Swept EXCEPT ![s][x.target] = r], SameEvents(x.row, r)
      PROVE  PrefixRows'
  <2>1. ASSUME NEW u \in Session, NEW p \in PR
        PROVE  \/ PrefixRow(log', p, sub'[u][p], batch'[u][p])
               \/ SameCursor(sub[u][p], sub'[u][p]) /\ SameEvents(batch[u][p], batch'[u][p])
    <3>1. CASE u = s /\ p = x.target
      <4>1. PrefixRow(log, p, sub[s][p], x.row)
        BY <3>1, SelectablePrefix
      <4>2. PrefixRow(log, p, sub[s][p], r)
        BY <1>0, <1>x, <4>1, PrefixKept DEF TypeOK
      <4> QED BY <1>0, <1>x, <3>1, <4>2 DEF Rows
    <3>2. CASE ~(u = s /\ p = x.target)
      BY <1>0, <1>x, <3>2 DEF Rows
    <3> QED BY <3>1, <3>2
  <2> QED BY <1>0, <1>x, <2>1, RebuiltPrefix
<1>3. ASSUME NEW lease \in {ClaimLease, Stale}, ClaimReminder(s, lease)
      PROVE  PrefixRows'
  <2>1. PICK x \in Selectable(s, Swept[s]) :
          \/ batch' = [Swept EXCEPT ![s][x.target] =
                          HandOff(Retried(x.row), nextHandoff, 0, lease)]
          \/ batch' = [Swept EXCEPT ![s][x.target] = Retried(x.row)]
    BY <1>3, Zenon DEF ClaimReminder
  <2>2. x.row \in Batch /\ Retried(x.row) \in Batch /\ SameEvents(x.row, Retried(x.row))
    BY <1>0, SelectableType, RetriedType, RowsKeepEvents DEF Rows
  <2>3. x.row.state # "none"
    BY <1>0, SelectableType DEF Queued, Rows
  <2>4. Retried(x.row).state # "none"
    BY <2>2, <2>3 DEF Retried, Released, Batch
  <2>5. SameEvents(x.row, HandOff(Retried(x.row), nextHandoff, 0, lease))
    BY <2>2, <2>4, RowsKeepEvents DEF SameEvents
  <2>6. UNCHANGED <<log, sub>>
    BY <1>3 DEF ClaimReminder
  <2> QED BY <1>x, <2>1, <2>2, <2>5, <2>6
<1>4. ASSUME NEW t \in Target, NEW h, NEW o \in Settle, SettleReminderClaim(s, t, h, o)
      PROVE  PrefixRows'
  <2>1. CASE o = "confirmed"
    <3>1. batch' = [Swept EXCEPT ![s][t] = NoBatch] /\ Confirm(s, {t}) /\ UNCHANGED log
      BY <1>4, <2>1 DEF SettleReminderClaim
    <3>2. \A u \in Session, p \in PR :
            IF u = s /\ p \in {t} THEN batch'[u][p] = NoBatch
            ELSE SameEvents(batch[u][p], batch'[u][p])
      BY <1>0, <3>1 DEF Rows
    <3> QED BY <3>1, <3>2, ConfirmedPrefix
  <2>2. CASE o = "failed"
    <3>1. batch' = [Swept EXCEPT ![s][t] = Released(@)] /\ UNCHANGED <<log, sub>>
          /\ Swept[s][t].state # "none"
      BY <1>4, <2>2 DEF SettleReminderClaim, Settleable, InFlight
    <3>2. SameEvents(Swept[s][t], Released(Swept[s][t]))
      BY <1>0, <3>1, RowsKeepEvents DEF Rows
    <3>3. \A u \in Session, p \in PR : SameEvents(batch[u][p], batch'[u][p])
      BY <1>0, <3>1, <3>2 DEF Rows, SameEvents
    <3> QED BY <1>0, <3>1, <3>3, RebuiltPrefix
  <2> QED BY <2>1, <2>2
<1>d. ASSUME NEW t \in Target, batch' = [batch EXCEPT ![s][t] = NoBatch], Confirm(s, {t}), UNCHANGED log
      PROVE  PrefixRows'
  <2>1. \A u \in Session, p \in PR :
          IF u = s /\ p \in {t} THEN batch'[u][p] = NoBatch
          ELSE SameEvents(batch[u][p], batch'[u][p])
    BY <1>0, <1>d DEF Rows
  <2> QED BY <1>d, <2>1, ConfirmedPrefix
<1>5. CASE ConfirmClaudeHandoff(s)
  <2>1. PICK t \in Target :
          IF batch[s][t].handoff # NoHandoff
          THEN SettleReminderClaim(s, t, batch[s][t].handoff, "confirmed")
          ELSE /\ batch' = [batch EXCEPT ![s][t] = NoBatch]
               /\ Confirm(s, {t})
               /\ UNCHANGED <<log, paused, asked, settlement, exec, nextHandoff, coordinator>>
    BY <1>5, Zenon DEF ConfirmClaudeHandoff
  <2> QED BY <1>4, <1>d, <2>1
<1>6. CASE GetPendingReminder(s)
  <2>1. PICK x \in Selectable(s, Swept[s]) : batch' = [Swept EXCEPT ![s][x.target] = Retried(x.row)]
    BY <1>6, Zenon DEF GetPendingReminder
  <2>2. SameEvents(x.row, Retried(x.row))
    BY <1>0, SelectableType, RowsKeepEvents DEF Rows
  <2>3. UNCHANGED <<log, sub>>
    BY <1>6 DEF GetPendingReminder
  <2> QED BY <1>x, <2>1, <2>2, <2>3
<1>7. ASSUME NEW t \in Target, NEW o \in {"handed_off", "confirmed", "failed"}, AckReminder(s, t, o)
      PROVE  PrefixRows'
  <2>1. CASE o = "confirmed"
    BY <1>7, <1>d, <2>1 DEF AckReminder
  <2>2. CASE o # "confirmed"
    <3>1. /\ \/ batch' = [batch EXCEPT ![s][t] = HandOff(@, NoHandoff, 0, NoLease)]
             \/ batch' = [batch EXCEPT ![s][t] = Released(@)]
          /\ UNCHANGED <<log, sub>> /\ batch[s][t].state # "none"
      BY <1>7, <2>2 DEF AckReminder, HandOverAllowed, InFlight
    <3>2. /\ SameEvents(batch[s][t], HandOff(batch[s][t], NoHandoff, 0, NoLease))
          /\ SameEvents(batch[s][t], Released(batch[s][t]))
      BY <1>0, <3>1, RowsKeepEvents DEF Rows
    <3>3. \A u \in Session, p \in PR : SameEvents(batch[u][p], batch'[u][p])
      BY <1>0, <3>1, <3>2 DEF Rows
    <3> QED BY <1>0, <3>1, <3>3, RebuiltPrefix
  <2> QED BY <2>1, <2>2
<1> QED BY <1>1, <1>2, <1>3, <1>4, <1>5, <1>6, <1>7

(* Dropping a session's automatic subscriptions moves no cursor. *)
LEMMA DeactivatedKeeps ==
  ASSUME TypeOK, NEW s \in Session, NEW p \in PR
  PROVE  /\ SameCursor(sub[s][p], Deactivated(s)[p])
         /\ SameEvents(batch[s][p], WithoutAutomatic(s)[p])
<1>1. p \in Target /\ sub[s][p] \in Sub
  BY DEF TypeOK, Target
<1>2. SameCursor(sub[s][p], Deactivated(s)[p])
  BY <1>1 DEF SameCursor, Deactivated, Sub
<1>3. SameEvents(batch[s][p], WithoutAutomatic(s)[p])
  BY <1>1 DEF SameEvents, WithoutAutomatic, NoBatch
<1> QED BY <1>2, <1>3

LEMMA SessionPrefix ==
  ASSUME TypeOK, TypeOK', PrefixRows, SessionNext
  PROVE  PrefixRows'
<1> PICK s \in Session : SessionNext!(s)
  BY Zenon DEF SessionNext
<1>0. /\ Extends(log, log) /\ batch \in Rows
      /\ \A u \in Session, p \in PR : SameEvents(batch[u][p], batch[u][p])
  BY SameRefl DEF TypeOK, SameEvents, Rows
<1>a. ASSUME UNCHANGED <<log, sub, batch>> PROVE PrefixRows'
  BY <1>0, <1>a, RebuiltPrefix, SameRefl
<1>b. ASSUME UNCHANGED log, batch' = [batch EXCEPT ![s] = [t \in Target |-> NoBatch]],
             \A u \in Session \ {s} : sub'[u] = sub[u]
      PROVE  PrefixRows'
  <2>1. ASSUME NEW u \in Session, NEW p \in PR
        PROVE  \/ PrefixRow(log', p, sub'[u][p], batch'[u][p])
               \/ SameCursor(sub[u][p], sub'[u][p]) /\ SameEvents(batch[u][p], batch'[u][p])
    <3>1. CASE u = s
      BY <1>0, <1>b, <3>1 DEF PrefixRow, NoBatch, Rows, Target
    <3>2. CASE u # s
      BY <1>0, <1>b, <3>2, SameRefl DEF Rows
    <3> QED BY <3>1, <3>2
  <2> QED BY <1>0, <1>b, <2>1, RebuiltPrefix
<1>1. ASSUME NEW q \in PR \cup {NoPR}, NEW changed \in BOOLEAN, NEW pause \in BOOLEAN,
             EnsureSessionControl(s, q, changed, pause)
      PROVE  PrefixRows'
  <2>1. CASE changed
    <3>1. /\ UNCHANGED log /\ batch' = [batch EXCEPT ![s] = [t \in Target |-> NoBatch]]
          /\ sub' = [sub EXCEPT ![s] = Deactivated(s)]
      BY <1>1, <2>1 DEF EnsureSessionControl
    <3> QED BY <1>b, <3>1 DEF TypeOK
  <2>2. CASE ~changed
    BY <1>1, <1>a, <2>2 DEF EnsureSessionControl
  <2> QED BY <2>1, <2>2
<1>2. CASE PruneClosedSession(s)
  <2>1. /\ UNCHANGED log /\ batch' = [batch EXCEPT ![s] = [t \in Target |-> NoBatch]]
        /\ sub' = [sub EXCEPT ![s] = [p \in PR |-> NoSub]]
    BY <1>2 DEF PruneClosedSession
  <2> QED BY <1>b, <2>1 DEF TypeOK
<1>3. CASE RegisterSession(s) \/ Revive(s) \/ Detach(s) \/ Close(s) \/ PrunePause(s)
  BY <1>3, <1>a DEF RegisterSession, Revive, Detach, Close, PrunePause
<1>4. ASSUME NEW pause \in BOOLEAN, SetSessionPaused(s, pause)
      PROVE  PrefixRows'
  BY <1>4, <1>a DEF SetSessionPaused
<1> QED BY <1>1, <1>2, <1>3, <1>4

LEMMA RejectPrefix ==
  ASSUME TypeOK, TypeOK', PrefixRows, NEW X, NEW P, Reject(X, P), UNCHANGED log
  PROVE  PrefixRows'
<1>1. ASSUME NEW u \in Session, NEW p \in PR
      PROVE  SameCursor(sub[u][p], sub'[u][p]) /\ SameEvents(batch[u][p], batch'[u][p])
  <2>1. p # Legacy /\ p \in Target
    BY NameAssumption DEF Target
  <2>2. CASE u \in X
    <3>1. sub'[u][p] = Deactivated(u)[p] /\ batch'[u][p] = WithoutAutomatic(u)[p]
      BY <2>1, <2>2, WithoutAutomaticType DEF Reject
    <3> QED BY <3>1, DeactivatedKeeps
  <2>3. CASE u \notin X
    BY <2>3, SameRefl DEF Reject, SameEvents
  <2> QED BY <2>2, <2>3
<1> QED BY <1>1, RebuiltPrefix, SameRefl DEF TypeOK

LEMMA ResetRowsPrefix ==
  ASSUME TypeOK, PrefixRows, NEW s \in Session, NEW p \in PR,
         NEW rows \in [Target -> Batch], SameEvents(batch[s][p], rows[p]), NEW D, NEW B
  PROVE  PrefixRow(log, p, sub[s][p], ResetRows(s, rows, D, B)[p])
<1>1. p \in Target /\ log \in Seq(PR) /\ PrefixAt(s, p)
  BY DEF PrefixRows, Target, TypeOK
<1>2. PrefixRow(log, p, sub[s][p], rows[p])
  BY <1>1, PrefixKept, SameRefl DEF PrefixAt
<1>3. PrefixRow(log, p, sub[s][p], NoBatch)
  BY DEF PrefixRow, NoBatch
<1> QED BY <1>1, <1>2, <1>3, BuiltPrefix DEF ResetRows

LEMMA SubscriptionPrefix ==
  ASSUME TypeOK, TypeOK', PrefixRows, SubscriptionNext
  PROVE  PrefixRows'
<1>0. /\ Extends(log, log) /\ batch \in Rows
      /\ \A u \in Session, p \in PR :
           /\ SameEvents(batch[u][p], batch[u][p]) /\ SameEvents(batch[u][p], NoBatch)
           /\ p \in Target
  BY SameRefl DEF TypeOK, SameEvents, Rows, NoBatch, Target
<1>1. ASSUME NEW s \in Session, NEW p \in PR, Subscribe(s, p)
      PROVE  PrefixRows'
  <2>1. ASSUME NEW u \in Session, NEW q \in PR PROVE SameCursor(sub[u][q], sub'[u][q])
    BY <1>1 DEF Subscribe, SameCursor, TypeOK, Sub
  <2>2. UNCHANGED <<log, batch>>
    BY <1>1 DEF Subscribe
  <2> QED BY <1>0, <2>1, <2>2, RebuiltPrefix
<1>2. ASSUME NEW s \in Session, NEW p \in PR, Unsubscribe(s, p)
      PROVE  PrefixRows'
  <2>1. ASSUME NEW u \in Session, NEW q \in PR
        PROVE  SameCursor(sub[u][q], sub'[u][q]) /\ SameEvents(batch[u][q], batch'[u][q])
    <3>1. SameCursor(sub[u][q], sub'[u][q])
      BY <1>2 DEF Unsubscribe, SameCursor, TypeOK, Sub
    <3>2. batch'[u][q] = batch[u][q] \/ batch'[u][q] = NoBatch
      BY <1>0, <1>2 DEF Unsubscribe, Rows
    <3> QED BY <1>0, <3>1, <3>2
  <2>2. UNCHANGED log
    BY <1>2 DEF Unsubscribe
  <2> QED BY <1>0, <2>1, <2>2, RebuiltPrefix
<1>3. ASSUME NEW s \in Session, NEW p \in PR, PruneSubscription(s, p)
      PROVE  PrefixRows'
  <2>1. ASSUME NEW u \in Session, NEW q \in PR
        PROVE  \/ PrefixRow(log', q, sub'[u][q], batch'[u][q])
               \/ SameCursor(sub[u][q], sub'[u][q]) /\ SameEvents(batch[u][q], batch'[u][q])
    <3>1. CASE u = s /\ q = p
      BY <1>0, <1>3, <3>1 DEF PruneSubscription, PrefixRow, NoBatch, Rows
    <3>2. CASE ~(u = s /\ q = p)
      <4>1. batch'[u][q] = batch[u][q] /\ sub'[u][q] = sub[u][q]
        BY <1>0, <1>3, <3>2 DEF PruneSubscription, Rows, TypeOK
      <4> QED BY <1>0, <4>1, SameRefl
    <3> QED BY <3>1, <3>2
  <2>2. UNCHANGED log
    BY <1>3 DEF PruneSubscription
  <2> QED BY <1>0, <2>1, <2>2, RebuiltPrefix
<1>4. ASSUME NEW s \in Session, NEW p \in PR, RejectPullRequest(s, p)
      PROVE  PrefixRows'
  BY <1>4, RejectPrefix DEF RejectPullRequest
<1>5. ASSUME NEW s \in Session, NEW D \in SUBSET PR, NEW B \in SUBSET PR, ActivateWorktree(s, D, B)
      PROVE  PrefixRows'
  <2>1. /\ UNCHANGED log /\ sub' = [sub EXCEPT ![s] = Deactivated(s)]
        /\ batch' = [batch EXCEPT ![s] = ResetRows(s, WithoutAutomatic(s), D, B)]
    BY <1>5 DEF ActivateWorktree
  <2>2. ASSUME NEW u \in Session, NEW q \in PR
        PROVE  \/ PrefixRow(log', q, sub'[u][q], batch'[u][q])
               \/ SameCursor(sub[u][q], sub'[u][q]) /\ SameEvents(batch[u][q], batch'[u][q])
    <3>1. CASE u = s
      <4>1. PrefixRow(log, q, sub[s][q], ResetRows(s, WithoutAutomatic(s), D, B)[q])
        BY DeactivatedKeeps, WithoutAutomaticType, ResetRowsPrefix
      <4>2. sub'[s][q] = Deactivated(s)[q] /\ batch'[s][q] = ResetRows(s, WithoutAutomatic(s), D, B)[q]
        BY <1>0, <2>1 DEF Rows, TypeOK
      <4>3. SameEvents(batch'[s][q], batch'[s][q])
        BY DEF SameEvents
      <4>4. PrefixRow(log, q, Deactivated(s)[q], ResetRows(s, WithoutAutomatic(s), D, B)[q])
        BY <1>0, <4>1, <4>2, <4>3, DeactivatedKeeps, PrefixKept DEF TypeOK
      <4> QED BY <2>1, <3>1, <4>2, <4>4
    <3>2. CASE u # s
      BY <1>0, <2>1, <3>2, SameRefl DEF Rows, TypeOK
    <3> QED BY <3>1, <3>2
  <2> QED BY <1>0, <2>1, <2>2, RebuiltPrefix
<1>6. ASSUME NEW p \in PR, NEW F, NEW S, NEW W, NEW n \in {0, 1}, DiscoverPullRequest(p, F, S, W, n)
      PROVE  PrefixRows'
  <2>1. Extends(log, log')
    BY <1>6, ExtendedExtends DEF DiscoverPullRequest, TypeOK
  <2>2. ASSUME NEW u \in Session, NEW q \in PR
        PROVE  SameCursor(sub[u][q], sub'[u][q]) /\ SameEvents(batch[u][q], batch'[u][q])
    <3>1. SameEvents(batch[u][q], batch'[u][q])
      BY <1>0, <1>6, DeactivatedKeeps DEF DiscoverPullRequest
    <3>2. \A r : SameCursor(r, Baselined(u, p, r))
      BY DEF SameCursor, Baselined
    <3> DEFINE r == IF u \in W THEN Deactivated(u) ELSE sub[u]
    <3>3. r \in [PR -> Sub] /\ SameCursor(sub[u][q], r[q])
      BY DeactivatedType, DeactivatedKeeps, SameRefl DEF TypeOK
    <3>4. sub'[u] = IF u \in S THEN [r EXCEPT ![p] = Baselined(u, p, @)] ELSE r
      BY <1>6 DEF DiscoverPullRequest
    <3>5. SameCursor(r[q], sub'[u][q])
      <4> HIDE DEF r
      <4> QED BY <3>2, <3>3, <3>4, SameRefl
    <3>6. SameCursor(sub[u][q], sub'[u][q])
      <4> HIDE DEF r
      <4> QED BY <3>3, <3>5 DEF SameCursor
    <3> QED BY <3>1, <3>6
  <2> QED BY <2>1, <2>2, RebuiltPrefix
<1> QED BY <1>1, <1>2, <1>3, <1>4, <1>5, <1>6 DEF SubscriptionNext

LEMMA DaemonPrefix ==
  ASSUME TypeOK, TypeOK', PrefixRows, DaemonNext
  PROVE  PrefixRows'
<1>0. /\ Extends(log, log) /\ batch \in Rows
      /\ \A u \in Session, p \in PR :
           /\ SameEvents(batch[u][p], batch[u][p]) /\ SameEvents(batch[u][p], NoBatch)
           /\ p \in Target /\ batch[u][p] \in Batch
  <2>1. \A p \in PR : p \in Target
    BY DEF Target
  <2>2. batch \in Rows /\ Extends(log, log)
    BY SameRefl DEF TypeOK, Rows
  <2>3. \A b : SameEvents(b, b) /\ SameEvents(b, NoBatch)
    BY DEF SameEvents, NoBatch
  <2> QED BY <2>1, <2>2, <2>3 DEF Rows
<1>1. ASSUME NEW p \in PR, NEW n \in 0..MaxPerPoll, NEW changed \in BOOLEAN,
             NEW B \in SUBSET Session, Poll(p, n, changed, B)
      PROVE  PrefixRows'
  <2>1. /\ log' = Extended(p, n) /\ Extends(log, log') /\ log' \in Seq(PR) /\ sub' = sub
    BY <1>1, ExtendedExtends, BoundAssumption DEF Poll, TypeOK
  <2>2. ASSUME NEW u \in Session, NEW q \in PR
        PROVE  PrefixRow(log', q, sub'[u][q], batch'[u][q])
    <3>1. PrefixRow(log', q, sub[u][q], batch[u][q])
      BY <1>0, <2>1, PrefixKept, SameRefl DEF PrefixRows, PrefixAt, TypeOK
    <3>2. PrefixRow(log', q, sub[u][q], NoBatch)
      BY DEF PrefixRow, NoBatch
    <3>3. CASE q = p
      <4>1. PrefixRow(log', p, sub[u][p], Reconciled(u, p, changed))
        BY <3>1, <3>2, <3>3 DEF Reconciled
      <4>2. batch'[u][p] \in {Reconciled(u, p, changed), BuildCell(log', u, p, Reconciled(u, p, changed))}
        BY <1>0, <1>1, <2>1 DEF Poll
      <4> QED BY <2>1, <3>3, <4>1, <4>2, BuiltPrefix
    <3>4. CASE q # p
      BY <1>0, <1>1, <2>1, <3>1, <3>4 DEF Poll
    <3> QED BY <3>3, <3>4
  <2> QED BY <2>1, <2>2, RebuiltPrefix
<1>2. ASSUME NEW X \in SUBSET Session, SuspendAutomaticSubscriptions(X)
      PROVE  PrefixRows'
  BY <1>2, RejectPrefix, Zenon DEF SuspendAutomaticSubscriptions
<1>3. ASSUME NEW D, NEW B, ResetInferredSubscriptionPolicies(D, B)
      PROVE  PrefixRows'
  <2>1. UNCHANGED <<log, sub>>
        /\ batch' = [s \in Session |-> ResetRows(s, batch[s], D[s], B[s])]
    BY <1>3 DEF ResetInferredSubscriptionPolicies
  <2>2. ASSUME NEW u \in Session, NEW q \in PR
        PROVE  PrefixRow(log', q, sub'[u][q], batch'[u][q])
    <3>1. PrefixRow(log, q, sub[u][q], ResetRows(u, batch[u], D[u], B[u])[q])
      BY <1>0, ResetRowsPrefix DEF Rows
    <3> QED BY <2>1, <3>1
  <2> QED BY <1>0, <2>1, <2>2, RebuiltPrefix
<1>r. ASSUME UNCHANGED <<log, sub>>,
             \A u \in Session, q \in PR : SameEvents(batch[u][q], batch'[u][q])
      PROVE  PrefixRows'
  BY <1>0, <1>r, RebuiltPrefix, SameRefl
<1>4. ASSUME NEW X \in SUBSET Session, RecoverFromRestart(X)
      PROVE  PrefixRows'
  <2>1. \A u \in Session, q \in PR : SameEvents(batch[u][q], batch'[u][q])
    BY <1>0, <1>4, RowsKeepEvents DEF RecoverFromRestart, InFlight
  <2> QED BY <1>r, <1>4, <2>1 DEF RecoverFromRestart
<1>5. CASE ExpireStaleHandoffs
  BY <1>r, <1>5, SweptPrefix DEF ExpireStaleHandoffs
<1>6. CASE Tick
  <2>1. \A b \in Batch : SameEvents(b, [b EXCEPT !.age = Older(@)])
    BY DEF SameEvents, Batch
  <2>2. \A u \in Session, q \in PR : SameEvents(batch[u][q], batch'[u][q])
    BY <1>0, <1>6, <2>1 DEF Tick
  <2> QED BY <1>r, <1>6, <2>2 DEF Tick
<1>7. CASE Crash
  BY <1>0, <1>r, <1>7 DEF Crash
<1> QED BY <1>1, <1>2, <1>3, <1>4, <1>5, <1>6, <1>7 DEF DaemonNext

(* The inductive invariant: a batch is a prefix of what is pending, in tables   *)
(* that have their types.                                                       *)
PrefixInv == TypeOK /\ PrefixRows

LEMMA PrefixInvariant == Spec => []PrefixInv
<1>1. Init => PrefixInv
  <2>1. Init => PrefixRows
    BY DEF Init, PrefixRows, PrefixAt, PrefixRow, NoBatch, Target
  <2> QED BY <2>1, InitTypes DEF PrefixInv
<1>2. PrefixInv /\ [Next]_vars => PrefixInv'
  <2> SUFFICES ASSUME TypeOK, PrefixRows, [Next]_vars PROVE PrefixInv'
    BY DEF PrefixInv
  <2>1. TypeOK'
    BY StepTypes
  <2>2. CASE UNCHANGED vars
    BY <2>1, <2>2 DEF PrefixInv, PrefixRows, PrefixAt, PrefixRow, vars, After
  <2>3. CASE Next
    BY <2>1, <2>3, HostPrefix, SessionPrefix, SubscriptionPrefix, DaemonPrefix DEF Next, PrefixInv
  <2> QED BY <2>2, <2>3
<1> QED BY <1>1, <1>2, PTL DEF Spec

(* Whatever the sessions, pull requests and batch limit: a subscription's batch *)
(* holds the events from its cursor up to the batch's last one, none left out   *)
(* and none repeated, through builds, retries, rejections and restarts.         *)
THEOREM BatchesArePrefixes == Spec => []BatchIsPendingPrefix
<1>1. PrefixInv => BatchIsPendingPrefix
  BY DEF PrefixInv, PrefixRows, PrefixAt, PrefixRow, BatchIsPendingPrefix
<1> QED BY <1>1, PrefixInvariant, PTL

-----------------------------------------------------------------------------
(* Handoffs: which transactions hand a row over, what therefore holds of      *)
(* handoff ids, and that the store implements ReminderDelivery                *)

(* c is b as it was, or taken back, or another row that is not handed off. *)
Kept(b, c) == /\ c.handoff \in {NoHandoff, b.handoff}
              /\ InFlight(c) => InFlight(b) /\ c.handoff = b.handoff /\ c.evs = b.evs

LEMMA KeptTransitive ==
  ASSUME NEW b, NEW c, NEW d, Kept(b, c), Kept(c, d)
  PROVE  Kept(b, d)
BY DEF Kept

LEMMA RowsKept ==
  ASSUME NEW b \in Batch
  PROVE  /\ Kept(b, b) /\ Kept(b, NoBatch) /\ Kept(b, Released(b)) /\ Kept(b, Retried(b))
         /\ Kept(b, SweptCell(b)) /\ Kept(b, RejectedLegacy(b))
         /\ Kept(b, [b EXCEPT !.age = Older(@)])
         /\ \A s, t, h : Kept(b, FailedCell(s, t, h, b))
         /\ \A lg, s, p : Kept(b, BuildCell(lg, s, p, b))
         /\ \A s : Kept(b, BuildLegacy(s, b))
<1>1. Kept(b, b) /\ Kept(b, NoBatch)
  BY DEF Kept, NoBatch, InFlight
<1>2. Kept(b, Released(b)) /\ Kept(b, [Released(b) EXCEPT !.state = "built"])
  BY DEF Kept, Released, InFlight, Batch
<1>3. Kept(b, [b EXCEPT !.state = "failed", !.age = 0])
  BY DEF Kept, InFlight, Batch
<1>4. Kept(b, SweptCell(b))
  BY <1>1, <1>2, <1>3 DEF SweptCell, Expire
<1>5. Kept(b, RejectedLegacy(b))
  <2>1. \A a : Kept(b, [b EXCEPT !.canceled = TRUE, !.age = a])
    BY DEF Kept, InFlight, Batch
  <2> QED BY <1>1, <2>1 DEF RejectedLegacy
<1>6. \A a : Kept(b, [b EXCEPT !.age = a])
  BY DEF Kept, InFlight, Batch
<1>7. ASSUME NEW s, NEW t, NEW h PROVE Kept(b, FailedCell(s, t, h, b))
  <2>1. ~InFlight(b) => Kept(b, [b EXCEPT !.handoff = NoHandoff, !.size = 0])
    BY DEF Kept, InFlight, Batch
  <2> QED BY <1>1, <1>2, <2>1 DEF FailedCell
<1>8. \A evs : Kept(b, NewBatch(evs))
  BY DEF Kept, NewBatch, NoBatch, InFlight
<1>9. /\ \A lg, s, p : Kept(b, BuildCell(lg, s, p, b))
      /\ \A s : Kept(b, BuildLegacy(s, b))
  BY <1>1, <1>8 DEF BuildCell, BuildLegacy
<1> QED BY <1>1, <1>2, <1>4, <1>5, <1>6, <1>7, <1>9 DEF Retried

LEMMA SweptKept ==
  ASSUME TypeOK, NEW s \in Session, NEW t \in Target
  PROVE  Kept(batch[s][t], Swept[s][t]) /\ Swept[s][t] \in Batch
<1>1. batch[s][t] \in Batch
  BY DEF TypeOK
<1>2. Swept[s][t] = SweptCell(batch[s][t])
  BY DEF Swept
<1> QED BY <1>1, <1>2, RowsKept, SweptCellType

LEMMA BundleCellsKept ==
  ASSUME TypeOK, NEW s \in Session, NEW t \in Target
  PROVE  Kept(batch[s][t], BundleCells(s, Swept[s])[t])
<1> DEFINE w == Swept[s]
           c == [u \in Target |-> IF u \in ActiveSubs(s) THEN BuildCell(log, s, u, w[u]) ELSE w[u]]
<1>1. w[t] \in Batch /\ c[t] \in Batch /\ Kept(batch[s][t], w[t])
  BY SweptKept, BuildCellType DEF TypeOK
<1>2. Kept(w[t], c[t])
  BY <1>1, RowsKept
<1>3. Kept(batch[s][t], c[t])
  BY <1>1, <1>2, KeptTransitive
<1>4. BundleCells(s, w) = c \/ BundleCells(s, w) = [c EXCEPT ![Legacy] = BuildLegacy(s, @)]
  BY DEF BundleCells
<1>5. CASE t = Legacy
  <2>1. Kept(c[t], BuildLegacy(s, c[t]))
    BY <1>1, RowsKept
  <2>2. Kept(batch[s][t], BuildLegacy(s, c[t]))
    BY <1>3, <2>1, KeptTransitive
  <2> QED BY <1>3, <1>4, <1>5, <2>2
<1>6. CASE t # Legacy
  BY <1>3, <1>4, <1>6
<1> QED BY <1>5, <1>6

LEMMA SelectableKept ==
  ASSUME TypeOK, NEW s \in Session, NEW x \in Selectable(s, Swept[s])
  PROVE  x.target \in Target /\ Kept(batch[s][x.target], Retried(x.row)) /\ ~InFlight(Retried(x.row))
<1> DEFINE w == Swept[s]
           cell(t) == IF t = Legacy
                      THEN IF ActiveSubs(s) = {} THEN BuildLegacy(s, w[t]) ELSE w[t]
                      ELSE BuildCell(log, s, t, w[t])
<1>1. \A t \in Target : w[t] \in Batch /\ Kept(batch[s][t], w[t])
  BY SweptKept
<1>2. w \in [Target -> Batch]
  BY SweptType DEF Rows
<1>3. x.target \in Target /\ x.row \in Batch /\ Queued(x.row)
  <2> HIDE DEF w
  <2> QED BY <1>2, SelectableType DEF w
<1>4. x.row = w[x.target] \/ x.row = cell(x.target)
  <2>1. \E t \in Target : x = [target |-> t, row |-> w[t]] \/ x = [target |-> t, row |-> cell(t)]
    BY Zenon DEF Selectable
  <2> HIDE DEF cell, w
  <2> QED BY <2>1
<1>5. Kept(w[x.target], x.row)
  BY <1>1, <1>3, <1>4, RowsKept
<1>6. Kept(x.row, Retried(x.row))
  BY <1>3, RowsKept
<1>7. Kept(batch[s][x.target], Retried(x.row))
  BY <1>1, <1>3, <1>5, <1>6, KeptTransitive
<1>8. ~InFlight(Retried(x.row))
  BY <1>3 DEF Queued, InFlight, Retried, Released, Batch
<1> QED BY <1>3, <1>7, <1>8

-----------------------------------------------------------------------------
(* Everything but three transactions only takes rows back                    *)

AllKept == \A u \in Session, t \in Target : Kept(batch[u][t], batch'[u][t])

LEMMA KeptSelf ==
  ASSUME TypeOK, NEW u \in Session, NEW t \in Target
  PROVE  /\ batch[u][t] \in Batch /\ Kept(batch[u][t], batch[u][t])
         /\ Kept(batch[u][t], NoBatch) /\ Kept(batch[u][t], Released(batch[u][t]))
<1>1. batch[u][t] \in Batch
  BY DEF TypeOK
<1> QED BY <1>1, RowsKept

LEMMA AckKeeps ==
  ASSUME TypeOK, NEW s \in Session, NEW h, NEW o, AckReminderBundle(s, h, o)
  PROVE  AllKept
<1>0. batch \in Rows
  BY DEF TypeOK, Rows
<1>1. \/ batch' = [batch EXCEPT ![s] = [t \in Target |->
                     IF t \in Records(s, h) THEN NoBatch ELSE batch[s][t]]]
      \/ batch' = [batch EXCEPT ![s] = [t \in Target |-> FailedCell(s, t, h, batch[s][t])]]
  BY DEF AckReminderBundle
<1>2. ASSUME NEW u \in Session, NEW t \in Target PROVE Kept(batch[u][t], batch'[u][t])
  <2>1. \/ batch'[u][t] = batch[u][t] \/ batch'[u][t] = NoBatch
        \/ batch'[u][t] = FailedCell(s, t, h, batch[u][t])
    BY <1>0, <1>1 DEF Rows
  <2> QED BY <2>1, KeptSelf, RowsKept
<1> QED BY <1>2 DEF AllKept

LEMMA HostKeeps ==
  ASSUME TypeOK, HostNext
  PROVE  \/ AllKept
         \/ \E s \in Session : ClaimReminderBundle(s)
         \/ \E s \in Session, lease \in {ClaimLease, Stale} :
              ClaimReminder(s, lease) /\ sess[s].status = "active"
         \/ \E s \in Session, t \in Target : AckReminder(s, t, "handed_off")
<1> PICK s \in Session : HostNext!(s)
  BY Zenon DEF HostNext
<1>0. Swept \in Rows /\ batch \in Rows
  BY SweptType DEF TypeOK, Rows
<1>1. ASSUME NEW h \in Handoff, NEW o \in {"confirmed", "failed"}, AckReminderBundle(s, h, o)
      PROVE  AllKept
  BY <1>1, AckKeeps
<1>x. ASSUME NEW x \in Selectable(s, Swept[s]), batch' = [Swept EXCEPT ![s][x.target] = Retried(x.row)]
      PROVE  AllKept
  BY <1>0, <1>x, SelectableKept, SweptKept DEF AllKept, Rows
<1>2. ASSUME NEW lease \in {ClaimLease, Stale}, ClaimReminder(s, lease), sess[s].status # "active"
      PROVE  AllKept
  BY <1>2, <1>x, Zenon DEF ClaimReminder
<1>3. ASSUME NEW t \in Target, NEW h, NEW o \in {"confirmed", "failed"}, SettleReminderClaim(s, t, h, o)
      PROVE  AllKept
  <2>1. \/ batch' = [Swept EXCEPT ![s][t] = NoBatch] \/ batch' = [Swept EXCEPT ![s][t] = Released(@)]
    BY <1>3 DEF SettleReminderClaim
  <2>2. ASSUME NEW u \in Session, NEW v \in Target PROVE Kept(batch[u][v], batch'[u][v])
    <3>1. \/ batch'[u][v] = Swept[u][v] \/ batch'[u][v] = NoBatch
          \/ batch'[u][v] = Released(Swept[u][v])
      BY <1>0, <2>1 DEF Rows
    <3>2. Kept(Swept[u][v], Released(Swept[u][v]))
      BY SweptKept, RowsKept
    <3>3. Kept(batch[u][v], Released(Swept[u][v]))
      BY <3>2, SweptKept, KeptTransitive
    <3> QED BY <3>1, <3>3, SweptKept, KeptSelf
  <2> QED BY <2>2 DEF AllKept
<1>d. ASSUME NEW t \in Target,
             \/ batch' = [batch EXCEPT ![s][t] = NoBatch]
             \/ batch' = [batch EXCEPT ![s][t] = Released(@)]
      PROVE  AllKept
  <2>1. ASSUME NEW u \in Session, NEW v \in Target PROVE Kept(batch[u][v], batch'[u][v])
    <3>1. \/ batch'[u][v] = batch[u][v] \/ batch'[u][v] = NoBatch
          \/ batch'[u][v] = Released(batch[u][v])
      BY <1>0, <1>d DEF Rows
    <3> QED BY <3>1, KeptSelf
  <2> QED BY <2>1 DEF AllKept
<1>4. CASE ConfirmClaudeHandoff(s)
  BY <1>3, <1>4, <1>d, Zenon DEF ConfirmClaudeHandoff
<1>5. CASE GetPendingReminder(s)
  BY <1>5, <1>x, Zenon DEF GetPendingReminder
<1>6. ASSUME NEW t \in Target, NEW o \in {"handed_off", "confirmed", "failed"}, AckReminder(s, t, o),
             o # "handed_off"
      PROVE  AllKept
  BY <1>6, <1>d DEF AckReminder
<1> QED BY <1>1, <1>2, <1>3, <1>4, <1>5, <1>6

LEMMA SessionKeeps ==
  ASSUME TypeOK, SessionNext
  PROVE  AllKept
<1> PICK s \in Session : SessionNext!(s)
  BY Zenon DEF SessionNext
<1>1. batch' = batch \/ batch' = [batch EXCEPT ![s] = [t \in Target |-> NoBatch]]
  BY DEF RegisterSession, EnsureSessionControl, Revive, Detach, Close, PruneClosedSession,
         SetSessionPaused, PrunePause
<1>2. ASSUME NEW u \in Session, NEW t \in Target PROVE Kept(batch[u][t], batch'[u][t])
  <2>1. batch \in Rows
    BY DEF TypeOK, Rows
  <2>2. batch'[u][t] = batch[u][t] \/ batch'[u][t] = NoBatch
    BY <1>1, <2>1 DEF Rows
  <2> QED BY <2>2, KeptSelf
<1> QED BY <1>2 DEF AllKept

LEMMA WithoutAutomaticKept ==
  ASSUME TypeOK, NEW s \in Session, NEW t \in Target
  PROVE  /\ WithoutAutomatic(s)[t] \in Batch
         /\ Kept(batch[s][t], WithoutAutomatic(s)[t])
<1>1. WithoutAutomatic(s)[t] = batch[s][t] \/ WithoutAutomatic(s)[t] = NoBatch
  BY DEF WithoutAutomatic
<1> QED BY <1>1, KeptSelf, NoBatchType

LEMMA RejectKeeps ==
  ASSUME TypeOK, NEW X, NEW P, Reject(X, P)
  PROVE  AllKept
<1>1. ASSUME NEW u \in Session, NEW t \in Target PROVE Kept(batch[u][t], batch'[u][t])
  <2>1. \/ batch'[u][t] = batch[u][t] \/ batch'[u][t] = WithoutAutomatic(u)[t]
        \/ batch'[u][t] = RejectedLegacy(WithoutAutomatic(u)[t])
    BY WithoutAutomaticType DEF Reject
  <2>2. Kept(batch[u][t], RejectedLegacy(WithoutAutomatic(u)[t]))
    BY WithoutAutomaticKept, RowsKept, KeptTransitive
  <2> QED BY <2>1, <2>2, WithoutAutomaticKept, KeptSelf
<1> QED BY <1>1 DEF AllKept

LEMMA ResetRowsKept ==
  ASSUME TypeOK, NEW s \in Session, NEW rows \in [Target -> Batch], NEW t \in Target,
         Kept(batch[s][t], rows[t]), NEW D, NEW B
  PROVE  Kept(batch[s][t], ResetRows(s, rows, D, B)[t])
<1> DEFINE b == IF InFlight(rows[t]) THEN rows[t] ELSE NoBatch
<1>1. b \in Batch /\ Kept(rows[t], b)
  BY RowsKept, NoBatchType
<1>2. Kept(b, BuildCell(log, s, t, b))
  <2> HIDE DEF b
  <2> QED BY <1>1, RowsKept
<1>3. \/ ResetRows(s, rows, D, B)[t] = rows[t] \/ ResetRows(s, rows, D, B)[t] = b
      \/ ResetRows(s, rows, D, B)[t] = BuildCell(log, s, t, b)
  BY DEF ResetRows
<1> HIDE DEF b
<1> QED BY <1>1, <1>2, <1>3, KeptTransitive

LEMMA SubscriptionKeeps ==
  ASSUME TypeOK, SubscriptionNext
  PROVE  AllKept
<1>d. ASSUME NEW s \in Session, NEW p \in PR,
             batch' = batch \/ \E r \in {batch[s][p], NoBatch} : batch' = [batch EXCEPT ![s][p] = r]
      PROVE  AllKept
  <2>1. ASSUME NEW u \in Session, NEW t \in Target PROVE Kept(batch[u][t], batch'[u][t])
    <3>1. batch \in Rows
      BY DEF TypeOK, Rows
    <3>2. batch'[u][t] = batch[u][t] \/ batch'[u][t] = NoBatch
      BY <1>d, <3>1 DEF Rows
    <3> QED BY <3>2, KeptSelf
  <2> QED BY <2>1 DEF AllKept
<1>1. ASSUME NEW s \in Session, NEW p \in PR,
             Subscribe(s, p) \/ Unsubscribe(s, p) \/ PruneSubscription(s, p)
      PROVE  AllKept
  BY <1>1, <1>d DEF Subscribe, Unsubscribe, PruneSubscription
<1>2. ASSUME NEW s \in Session, NEW p \in PR, RejectPullRequest(s, p)
      PROVE  AllKept
  BY <1>2, RejectKeeps, Zenon DEF RejectPullRequest
<1>3. ASSUME NEW s \in Session, NEW D \in SUBSET PR, NEW B \in SUBSET PR, ActivateWorktree(s, D, B)
      PROVE  AllKept
  <2>1. ASSUME NEW u \in Session, NEW t \in Target PROVE Kept(batch[u][t], batch'[u][t])
    <3>1. batch' = [batch EXCEPT ![s] = ResetRows(s, WithoutAutomatic(s), D, B)]
      BY <1>3 DEF ActivateWorktree
    <3>2. CASE u = s
      <4>1. batch'[s][t] = ResetRows(s, WithoutAutomatic(s), D, B)[t]
        BY <3>1 DEF TypeOK
      <4> QED BY <3>2, <4>1, WithoutAutomaticKept, WithoutAutomaticType, ResetRowsKept
    <3>3. CASE u # s
      <4>1. batch'[u][t] = batch[u][t]
        BY <3>1, <3>3 DEF TypeOK
      <4> QED BY <4>1, KeptSelf
    <3> QED BY <3>2, <3>3
  <2> QED BY <2>1 DEF AllKept
<1>4. ASSUME NEW p \in PR, NEW F, NEW S, NEW W, NEW n \in {0, 1}, DiscoverPullRequest(p, F, S, W, n)
      PROVE  AllKept
  BY <1>4, WithoutAutomaticKept, KeptSelf DEF DiscoverPullRequest, AllKept
<1> QED BY <1>1, <1>2, <1>3, <1>4 DEF SubscriptionNext

LEMMA DaemonKeeps ==
  ASSUME TypeOK, DaemonNext
  PROVE  AllKept
<1>1. ASSUME NEW p \in PR, NEW n \in 0..MaxPerPoll, NEW changed \in BOOLEAN,
             NEW B \in SUBSET Session, Poll(p, n, changed, B)
      PROVE  AllKept
  <2>1. ASSUME NEW u \in Session, NEW t \in Target PROVE Kept(batch[u][t], batch'[u][t])
    <3> DEFINE r == Reconciled(u, p, changed)
    <3>1. t = p => r \in Batch /\ Kept(batch[u][t], r)
      BY KeptSelf, NoBatchType DEF Reconciled
    <3>2. t = p => Kept(batch[u][t], BuildCell(Extended(p, n), u, p, r))
      <4> HIDE DEF r
      <4> QED BY <3>1, RowsKept, KeptTransitive
    <3>3. \/ t # p /\ batch'[u][t] = batch[u][t]
          \/ t = p /\ batch'[u][t] \in {r, BuildCell(Extended(p, n), u, p, r)}
      BY <1>1 DEF Poll
    <3> HIDE DEF r
    <3> QED BY <3>1, <3>2, <3>3, KeptSelf
  <2> QED BY <2>1 DEF AllKept
<1>2. ASSUME NEW X \in SUBSET Session, SuspendAutomaticSubscriptions(X)
      PROVE  AllKept
  BY <1>2, RejectKeeps, Zenon DEF SuspendAutomaticSubscriptions
<1>3. ASSUME NEW D, NEW B, ResetInferredSubscriptionPolicies(D, B)
      PROVE  AllKept
  <2>1. ASSUME NEW u \in Session, NEW t \in Target PROVE Kept(batch[u][t], batch'[u][t])
    <3>1. batch[u] \in [Target -> Batch] /\ Kept(batch[u][t], batch[u][t])
      BY KeptSelf DEF TypeOK
    <3>2. batch'[u][t] = ResetRows(u, batch[u], D[u], B[u])[t]
      BY <1>3 DEF ResetInferredSubscriptionPolicies
    <3> QED BY <3>1, <3>2, ResetRowsKept
  <2> QED BY <2>1 DEF AllKept
<1>4. ASSUME NEW X \in SUBSET Session, RecoverFromRestart(X)
      PROVE  AllKept
  BY <1>4, KeptSelf DEF RecoverFromRestart, AllKept
<1>5. CASE ExpireStaleHandoffs
  BY <1>5, SweptKept DEF ExpireStaleHandoffs, AllKept
<1>6. CASE Tick
  BY <1>6, KeptSelf, RowsKept DEF Tick, AllKept
<1>7. CASE Crash
  BY <1>7, KeptSelf DEF Crash, AllKept
<1> QED BY <1>1, <1>2, <1>3, <1>4, <1>5, <1>6, <1>7 DEF DaemonNext

-----------------------------------------------------------------------------
(* The three transactions that hand rows over                                *)

(* Session s gets rows under h; whatever else it has in flight under an id,    *)
(* it has under h, and the other rows are kept.                                *)
HandsOver(s, h) ==
  /\ ~paused[s]
  /\ \A u \in Session, t \in Target :
       \/ Kept(batch[u][t], batch'[u][t])
       \/ u = s /\ batch'[u][t].handoff = h
  /\ \A t \in Target : InFlight(batch'[s][t]) /\ batch'[s][t].handoff # NoHandoff
                       => batch'[s][t].handoff = h

(* h is fresh, or unsettled and already an id of session s *)
Grantable(s, h) ==
  \/ h = nextHandoff
  \/ settlement[h].state = "none" /\ \E t \in Target : batch[s][t].handoff = h

(* Every id in a row has been issued. *)
HandoffsIssued == \A s \in Session, t \in Target : batch[s][t].handoff < nextHandoff

(* The id a bundle goes out under *)
LEMMA BundleGrants ==
  ASSUME TypeOK, NEW s \in Session
  PROVE  Grantable(s, BundleHandoff(s, BundleCells(s, Swept[s])))
<1> DEFINE c == BundleCells(s, Swept[s])
           h == BundleHandoff(s, c)
<1>1. h = nextHandoff \/ h \in ReusableHandoffs(s, c)
  BY DEF BundleHandoff
<1>2. ASSUME h \in ReusableHandoffs(s, c)
      PROVE  settlement[h].state = "none" /\ \E t \in Target : batch[s][t].handoff = h
  <2> HIDE DEF h
  <2>1. h # NoHandoff /\ settlement[h].state = "none"
    BY <1>2 DEF ReusableHandoffs
  <2>2. PICK t \in Target : c[t].handoff = h
    BY <1>2 DEF ReusableHandoffs, Members
  <2> QED BY BundleCellsKept, <2>1, <2>2 DEF Kept
<1> HIDE DEF h
<1> QED BY <1>1, <1>2 DEF Grantable, h

(* The rows a claim finds or builds when nothing is in flight after the sweep *)
LEMMA BundleIdle ==
  ASSUME TypeOK, NEW s \in Session, NothingInFlight(s), NEW t \in Target
  PROVE  ~InFlight(BundleCells(s, Swept[s])[t])
<1> DEFINE c == BundleCells(s, Swept[s])
           w == Swept[s]
           d == [u \in Target |-> IF u \in ActiveSubs(s) THEN BuildCell(log, s, u, w[u]) ELSE w[u]]
<1>1. ~InFlight(w[t])
  BY DEF NothingInFlight
<1>2. c = d \/ c = [d EXCEPT ![Legacy] = BuildLegacy(s, @)]
  BY DEF BundleCells
<1>3. w[t] \in Batch /\ d[t] \in Batch /\ Kept(w[t], d[t]) /\ Kept(d[t], BuildLegacy(s, d[t]))
  BY SweptKept, BuildCellType, RowsKept DEF TypeOK
<1>4. c[t] \in {d[t], BuildLegacy(s, d[t])}
  <2> HIDE DEF c
  <2> QED BY <1>2
<1> HIDE DEF d, w
<1>5. ~InFlight(c[t])
  <2> HIDE DEF c
  <2> QED BY <1>1, <1>3, <1>4 DEF Kept
<1> QED BY <1>5

LEMMA BundleHandsOver ==
  ASSUME TypeOK, HandoffsIssued, NEW s \in Session, ClaimReminderBundle(s)
  PROVE  \E h \in Handoff : /\ HandsOver(s, h) /\ Grantable(s, h) /\ h < nextHandoff'
                            /\ nextHandoff' >= nextHandoff /\ settlement' = settlement
<1> DEFINE c == BundleCells(s, Swept[s])
           m == Members(s, c)
           h == BundleHandoff(s, c)
           row == [t \in Target |-> IF t \in m THEN HandOff(c[t], h, Cardinality(m), NoLease)
                                   ELSE c[t]]
<1>1. /\ batch' = [Swept EXCEPT ![s] = row] /\ h \in Handoff /\ NothingInFlight(s)
      /\ nextHandoff' = IF h = nextHandoff THEN h + 1 ELSE nextHandoff
      /\ settlement' = settlement /\ Deliverable(s)
  BY Zenon DEF ClaimReminderBundle
<1>2. \A t \in Target : Kept(batch[s][t], c[t]) /\ c[t] \in Batch
  BY BundleCellsKept, BundleCellsType, SweptType DEF Rows
<1>3. \A t \in Target : ~InFlight(c[t])
  BY <1>1, BundleIdle
<1>4. Grantable(s, h)
  BY BundleGrants
<1>5. h < nextHandoff' /\ nextHandoff' >= nextHandoff
  <2>1. h \in Nat /\ nextHandoff \in Nat
    BY <1>1, BoundAssumption DEF Handoff, TypeOK
  <2>2. h = nextHandoff \/ \E t \in Target : batch[s][t].handoff = h
    BY <1>4 DEF Grantable
  <2>3. h < nextHandoff \/ h = nextHandoff
    <3> HIDE DEF h
    <3> QED BY <2>2 DEF HandoffsIssued
  <2> HIDE DEF h
  <2> QED BY <1>1, <2>1, <2>3
<1>6. HandsOver(s, h)
  <2>1. ~paused[s]
    BY <1>1 DEF Deliverable
  <2>2. ASSUME NEW t \in Target
        PROVE  /\ Kept(batch[s][t], batch'[s][t]) \/ batch'[s][t].handoff = h
               /\ InFlight(batch'[s][t]) => batch'[s][t].handoff = h
    <3>1. batch'[s][t] = row[t]
      <4> HIDE DEF row
      <4> QED BY <1>1, SweptType DEF Rows
    <3>2. CASE t \in m
      <4>1. HandOff(c[t], h, Cardinality(m), NoLease).handoff = h
        <5> HIDE DEF c, h, m
        <5> QED BY <1>2 DEF HandOff, Batch
      <4> QED BY <3>1, <3>2, <4>1
    <3>3. CASE t \notin m
      <4> HIDE DEF c, h, m
      <4> QED BY <1>2, <1>3, <3>1, <3>3
    <3> QED BY <3>2, <3>3
  <2>3. ASSUME NEW u \in Session \ {s}, NEW t \in Target PROVE Kept(batch[u][t], batch'[u][t])
    <3> HIDE DEF row
    <3>1. batch'[u][t] = Swept[u][t]
      BY <1>1, SweptType DEF Rows
    <3> QED BY <3>1, SweptKept
  <2> HIDE DEF h
  <2> QED BY <2>1, <2>2, <2>3 DEF HandsOver
<1> HIDE DEF h
<1> QED BY <1>1, <1>4, <1>5, <1>6

LEMMA ReminderHandsOver ==
  ASSUME TypeOK, NEW s \in Session, NEW lease, ClaimReminder(s, lease), sess[s].status = "active"
  PROVE  \E h \in Handoff : /\ HandsOver(s, h) /\ Grantable(s, h) /\ h < nextHandoff'
                            /\ nextHandoff' >= nextHandoff /\ settlement' = settlement
<1>1. PICK x \in Selectable(s, Swept[s]) :
        /\ nextHandoff \in Handoff
        /\ batch' = [Swept EXCEPT ![s][x.target] = HandOff(Retried(x.row), nextHandoff, 0, lease)]
        /\ nextHandoff' = nextHandoff + 1
  BY Zenon DEF ClaimReminder
<1>2. ~paused[s] /\ ~Contended(s) /\ settlement' = settlement
  BY DEF ClaimReminder
<1>3. x.target \in Target /\ Retried(x.row) \in Batch
  BY SelectableKept, SelectableType, RetriedType, SweptType DEF Rows
<1>4. HandOff(Retried(x.row), nextHandoff, 0, lease).handoff = nextHandoff
  BY <1>3 DEF HandOff, Batch
<1>5. ASSUME NEW u \in Session, NEW t \in Target
      PROVE  \/ batch'[u][t] = Swept[u][t]
             \/ u = s /\ batch'[u][t].handoff = nextHandoff
  BY <1>1, <1>3, <1>4, SweptType DEF Rows
<1>6. \A t \in Target : InFlight(batch'[s][t]) /\ batch'[s][t].handoff # NoHandoff
                        => batch'[s][t].handoff = nextHandoff
  BY <1>2, <1>5 DEF Contended
<1>7. HandsOver(s, nextHandoff)
  BY <1>2, <1>5, <1>6, SweptKept DEF HandsOver
<1> QED BY <1>1, <1>2, <1>7, BoundAssumption DEF Grantable, Handoff

(* A row taken by a v1 host is in flight under no id. *)
LEMMA AckHandsOver ==
  ASSUME TypeOK, NEW s \in Session, NEW t \in Target, AckReminder(s, t, "handed_off")
  PROVE  /\ ~paused[s] /\ batch'[s][t].handoff = NoHandoff
         /\ \A u \in Session, v \in Target : Kept(batch[u][v], batch'[u][v]) \/ (u = s /\ v = t)
         /\ UNCHANGED <<settlement, nextHandoff>>
<1>1. /\ ~paused[s] /\ batch' = [batch EXCEPT ![s][t] = HandOff(@, NoHandoff, 0, NoLease)]
      /\ UNCHANGED <<settlement, nextHandoff>>
  BY DEF AckReminder, HandOverAllowed
<1>2. batch \in Rows
  BY DEF TypeOK, Rows
<1>3. HandOff(batch[s][t], NoHandoff, 0, NoLease).handoff = NoHandoff
  BY KeptSelf DEF HandOff, Batch
<1> QED BY <1>1, <1>2, <1>3, KeptSelf DEF Rows

-----------------------------------------------------------------------------
(* What holds of handoff ids                                                 *)

(* No id is settled before it is issued. *)
UnissuedUnsettled == \A h \in Handoff : h >= nextHandoff => settlement[h].state = "none"

(* The rows of two sessions never carry the same id. *)
HandoffsOwned ==
  \A s, u \in Session : \A t, v \in Target :
    batch[s][t].handoff # NoHandoff /\ batch[s][t].handoff = batch[u][v].handoff => s = u

(* The inductive invariant of the handoff ids. *)
HandoffInv == /\ TypeOK /\ HandoffsIssued /\ UnissuedUnsettled /\ HandoffsOwned
              /\ OneHandoffInFlight /\ SettledHandoffIdle

LEMMA StepCases ==
  ASSUME TypeOK, Next
  PROVE  \/ AllKept
         \/ \E s \in Session : ClaimReminderBundle(s)
         \/ \E s \in Session, lease \in {ClaimLease, Stale} :
              ClaimReminder(s, lease) /\ sess[s].status = "active"
         \/ \E s \in Session, t \in Target : AckReminder(s, t, "handed_off")
BY HostKeeps, SessionKeeps, SubscriptionKeeps, DaemonKeeps, Zenon DEF Next

LEMMA LedgerSteps ==
  ASSUME TypeOK, Next
  PROVE  /\ nextHandoff' >= nextHandoff
         /\ \/ settlement' = settlement
            \/ \E s \in Session, h \in Handoff, o \in {"confirmed", "failed"} :
                 AckReminderBundle(s, h, o)
<1>0. nextHandoff \in Nat
  BY DEF TypeOK
<1>u. ASSUME UNCHANGED <<settlement, nextHandoff>>
      PROVE  nextHandoff' >= nextHandoff /\ settlement' = settlement
  BY <1>0, <1>u
<1>1. CASE HostNext
  <2> PICK s \in Session : HostNext!(s)
    BY <1>1, Zenon DEF HostNext
  <2>1. CASE ClaimReminderBundle(s)
    <3>1. (nextHandoff' = nextHandoff \/ nextHandoff' = nextHandoff + 1) /\ settlement' = settlement
      <4> DEFINE h == BundleHandoff(s, BundleCells(s, Swept[s]))
      <4>1. nextHandoff' = IF h = nextHandoff THEN h + 1 ELSE nextHandoff
        BY <2>1 DEF ClaimReminderBundle
      <4>2. settlement' = settlement
        BY <2>1 DEF ClaimReminderBundle
      <4> QED BY <4>1, <4>2
    <3> QED BY <1>0, <3>1
  <2>2. ASSUME NEW h \in Handoff, NEW o \in {"confirmed", "failed"}, AckReminderBundle(s, h, o)
        PROVE  nextHandoff' >= nextHandoff
    BY <1>0, <2>2 DEF AckReminderBundle
  <2>3. ASSUME NEW lease, ClaimReminder(s, lease)
        PROVE  nextHandoff' >= nextHandoff /\ settlement' = settlement
    <3>1. (nextHandoff' = nextHandoff \/ nextHandoff' = nextHandoff + 1) /\ settlement' = settlement
      BY <2>3, Zenon DEF ClaimReminder
    <3> QED BY <1>0, <3>1
  <2>4. ASSUME NEW t, NEW h, NEW o, SettleReminderClaim(s, t, h, o)
        PROVE  nextHandoff' >= nextHandoff /\ settlement' = settlement
    BY <1>u, <2>4 DEF SettleReminderClaim
  <2>5. CASE ConfirmClaudeHandoff(s)
    BY <1>u, <2>4, <2>5 DEF ConfirmClaudeHandoff
  <2>6. CASE GetPendingReminder(s)
    BY <1>u, <2>6 DEF GetPendingReminder
  <2>7. ASSUME NEW t, NEW o, AckReminder(s, t, o)
        PROVE  nextHandoff' >= nextHandoff /\ settlement' = settlement
    BY <1>u, <2>7 DEF AckReminder
  <2> QED BY <2>1, <2>2, <2>3, <2>4, <2>5, <2>6, <2>7
<1>2. CASE SessionNext
  BY <1>2, <1>u DEF SessionNext, RegisterSession, EnsureSessionControl, Revive, Detach, Close,
                    PruneClosedSession, SetSessionPaused, PrunePause
<1>3. CASE SubscriptionNext
  BY <1>3, <1>u DEF SubscriptionNext, Subscribe, Unsubscribe, PruneSubscription, RejectPullRequest,
                    ActivateWorktree, DiscoverPullRequest
<1>4. CASE DaemonNext
  BY <1>4, <1>u, Zenon DEF DaemonNext, Poll, SuspendAutomaticSubscriptions,
                    ResetInferredSubscriptionPolicies, RecoverFromRestart, ExpireStaleHandoffs,
                    Tick, Crash
<1> QED BY <1>1, <1>2, <1>3, <1>4 DEF Next

LEMMA HandOverInv ==
  ASSUME HandoffInv, TypeOK', NEW s \in Session, NEW h \in Handoff,
         HandsOver(s, h), Grantable(s, h), h < nextHandoff', nextHandoff' >= nextHandoff,
         settlement' = settlement
  PROVE  HandoffInv'
<1>0. /\ nextHandoff \in Nat \ {0} /\ nextHandoff' \in Nat /\ h # NoHandoff
      /\ \A u \in Session, t \in Target : batch[u][t].handoff \in Nat
  BY BoundAssumption DEF HandoffInv, TypeOK, Batch, Handoff, NoHandoff
<1>a. ASSUME NEW u \in Session, NEW t \in Target
      PROVE  \/ Kept(batch[u][t], batch'[u][t])
             \/ u = s /\ batch'[u][t].handoff = h
  BY DEF HandsOver
<1>b. settlement[h].state = "none"
  BY <1>0 DEF Grantable, HandoffInv, UnissuedUnsettled
<1>1. HandoffsIssued'
  <2> SUFFICES ASSUME NEW u \in Session, NEW t \in Target
               PROVE  batch'[u][t].handoff < nextHandoff'
    BY DEF HandoffsIssued
  <2>1. batch[u][t].handoff < nextHandoff
    BY DEF HandoffInv, HandoffsIssued
  <2> QED BY <1>0, <1>a, <2>1 DEF Kept, NoHandoff
<1>2. UnissuedUnsettled'
  BY <1>0 DEF HandoffInv, UnissuedUnsettled, Handoff
<1>3. HandoffsOwned'
  <2> SUFFICES ASSUME NEW u \in Session, NEW v \in Session, NEW t \in Target, NEW w \in Target,
                      batch'[u][t].handoff # NoHandoff,
                      batch'[u][t].handoff = batch'[v][w].handoff
               PROVE  u = v
    BY DEF HandoffsOwned
  <2>1. \A x \in Session, y \in Target : batch[x][y].handoff = h => x = s
    BY <1>0 DEF Grantable, HandoffInv, HandoffsIssued, HandoffsOwned
  <2>2. CASE batch[u][t].handoff = batch'[u][t].handoff /\ batch[v][w].handoff = batch'[v][w].handoff
    BY <2>2 DEF HandoffInv, HandoffsOwned
  <2>3. CASE batch[u][t].handoff # batch'[u][t].handoff
    BY <1>a, <2>1, <2>3 DEF Kept
  <2>4. CASE batch[v][w].handoff # batch'[v][w].handoff
    BY <1>a, <2>1, <2>4 DEF Kept
  <2> QED BY <2>2, <2>3, <2>4
<1>4. OneHandoffInFlight'
  <2> SUFFICES ASSUME NEW u \in Session, NEW t \in Target, NEW v \in Target,
                      InFlight(batch'[u][t]), batch'[u][t].handoff # NoHandoff,
                      InFlight(batch'[u][v]), batch'[u][v].handoff # NoHandoff
               PROVE  batch'[u][t].handoff = batch'[u][v].handoff
    BY DEF OneHandoffInFlight, InFlight
  <2>1. CASE u = s
    BY <2>1 DEF HandsOver
  <2>2. CASE u # s
    BY <1>a, <2>2 DEF Kept, HandoffInv, OneHandoffInFlight
  <2> QED BY <2>1, <2>2
<1>5. SettledHandoffIdle'
  <2> SUFFICES ASSUME NEW u \in Session, NEW g \in Handoff, settlement[g].state # "none",
                      NEW t \in Target, InFlight(batch'[u][t]), batch'[u][t].handoff = g
               PROVE  FALSE
    BY DEF SettledHandoffIdle, Records, InFlight
  <2>1. g # h
    BY <1>b
  <2>2. InFlight(batch[u][t]) /\ batch[u][t].handoff = g
    BY <1>a, <2>1 DEF Kept
  <2> QED BY <2>2 DEF HandoffInv, SettledHandoffIdle, Records
<1> QED BY <1>1, <1>2, <1>3, <1>4, <1>5 DEF HandoffInv

(* An acknowledgement leaves nothing in flight under its id. *)
LEMMA AckClears ==
  ASSUME TypeOK, NEW s \in Session, NEW h \in Handoff, NEW o, AckReminderBundle(s, h, o),
         NEW t \in Target
  PROVE  ~(InFlight(batch'[s][t]) /\ batch'[s][t].handoff = h)
<1>0. h # NoHandoff
  BY BoundAssumption DEF Handoff, NoHandoff
<1>1. batch \in Rows /\ batch[s][t] \in Batch
  BY DEF TypeOK, Rows
<1>2. \/ batch' = [batch EXCEPT ![s] = [v \in Target |->
                     IF v \in Records(s, h) THEN NoBatch ELSE batch[s][v]]]
      \/ batch' = [batch EXCEPT ![s] = [v \in Target |-> FailedCell(s, v, h, batch[s][v])]]
  BY DEF AckReminderBundle
<1>3. \/ batch'[s][t] = IF t \in Records(s, h) THEN NoBatch ELSE batch[s][t]
      \/ batch'[s][t] = FailedCell(s, t, h, batch[s][t])
  BY <1>1, <1>2 DEF Rows
<1>4. FailedCell(s, t, h, batch[s][t]).handoff # h \/ ~InFlight(FailedCell(s, t, h, batch[s][t]))
  <2>1. Released(batch[s][t]).handoff = NoHandoff /\ NoBatch.handoff = NoHandoff
    BY <1>1 DEF Released, Batch, NoBatch
  <2>2. [batch[s][t] EXCEPT !.handoff = NoHandoff, !.size = 0].handoff = NoHandoff
    BY <1>1 DEF Batch
  <2> QED BY <1>0, <2>1, <2>2 DEF FailedCell
<1>5. ~InFlight(NoBatch)
  BY DEF InFlight, NoBatch
<1> QED BY <1>3, <1>4, <1>5 DEF Records

(* Steps that hand nothing over, or a row under no id *)
LEMMA KeptInv ==
  ASSUME HandoffInv, TypeOK', Next,
         \A u \in Session, t \in Target :
            Kept(batch[u][t], batch'[u][t]) \/ batch'[u][t].handoff = NoHandoff
  PROVE  HandoffInv'
<1>0. /\ nextHandoff \in Nat \ {0} /\ nextHandoff' \in Nat /\ nextHandoff' >= nextHandoff
      /\ \A g \in Handoff : g \in Nat /\ g # NoHandoff
      /\ \A u \in Session, t \in Target : batch[u][t].handoff \in Nat
  <2>1. nextHandoff \in Nat \ {0} /\ nextHandoff' \in Nat
    BY DEF HandoffInv, TypeOK
  <2>2. nextHandoff' >= nextHandoff
    BY LedgerSteps DEF HandoffInv
  <2>3. \A g \in Handoff : g \in Nat /\ g # NoHandoff
    BY BoundAssumption DEF Handoff, NoHandoff
  <2>4. \A u \in Session, t \in Target : batch[u][t].handoff \in Nat
    BY BoundAssumption DEF HandoffInv, TypeOK, Batch, Handoff, NoHandoff
  <2> QED BY <2>1, <2>2, <2>3, <2>4
<1>a. ASSUME NEW u \in Session, NEW t \in Target
      PROVE  /\ batch'[u][t].handoff \in {NoHandoff, batch[u][t].handoff}
             /\ InFlight(batch'[u][t]) /\ batch'[u][t].handoff # NoHandoff => InFlight(batch[u][t])
  BY DEF Kept
<1>1. HandoffsIssued'
  <2> SUFFICES ASSUME NEW u \in Session, NEW t \in Target
               PROVE  batch'[u][t].handoff < nextHandoff'
    BY DEF HandoffsIssued
  <2>1. batch[u][t].handoff < nextHandoff
    BY DEF HandoffInv, HandoffsIssued
  <2> QED BY <1>0, <1>a, <2>1 DEF NoHandoff
<1>2. HandoffsOwned'
  BY <1>a DEF HandoffInv, HandoffsOwned
<1>3. OneHandoffInFlight'
  <2> SUFFICES ASSUME NEW u \in Session, NEW t \in Target, NEW v \in Target,
                      InFlight(batch'[u][t]), batch'[u][t].handoff # NoHandoff,
                      InFlight(batch'[u][v]), batch'[u][v].handoff # NoHandoff
               PROVE  batch'[u][t].handoff = batch'[u][v].handoff
    BY DEF OneHandoffInFlight, InFlight
  <2> QED BY <1>a DEF HandoffInv, OneHandoffInFlight
<1>b. ASSUME NEW u \in Session, NEW g \in Handoff, NEW t \in Target,
             InFlight(batch'[u][t]), batch'[u][t].handoff = g
      PROVE  t \in Records(u, g)
  BY <1>0, <1>a, <1>b DEF Records
<1>4. CASE settlement' = settlement
  <2>1. UnissuedUnsettled'
    BY <1>0, <1>4 DEF HandoffInv, UnissuedUnsettled
  <2>2. SettledHandoffIdle'
    <3> SUFFICES ASSUME NEW u \in Session, NEW g \in Handoff, settlement[g].state # "none",
                        NEW t \in Target, InFlight(batch'[u][t]), batch'[u][t].handoff = g
                 PROVE  FALSE
      BY <1>4 DEF SettledHandoffIdle, Records, InFlight
    <3> QED BY <1>b DEF HandoffInv, SettledHandoffIdle
  <2> QED BY <1>1, <1>2, <1>3, <2>1, <2>2 DEF HandoffInv
<1>5. ASSUME NEW s \in Session, NEW h \in Handoff, NEW o \in {"confirmed", "failed"},
             AckReminderBundle(s, h, o)
      PROVE  HandoffInv'
  <2>1. PICK r \in Target : InFlight(batch[s][r]) /\ batch[s][r].handoff = h
    BY <1>5 DEF AckReminderBundle, Records
  <2>2. \A g \in Handoff : g # h => settlement'[g] = settlement[g]
    BY <1>5 DEF AckReminderBundle, HandoffInv, TypeOK
  <2>3. h < nextHandoff
    BY <2>1 DEF HandoffInv, HandoffsIssued
  <2>4. UnissuedUnsettled'
    BY <1>0, <2>2, <2>3 DEF HandoffInv, UnissuedUnsettled
  <2>5. ASSUME NEW t \in Target PROVE ~(InFlight(batch'[s][t]) /\ batch'[s][t].handoff = h)
    BY <1>5, AckClears DEF HandoffInv
  <2>6. SettledHandoffIdle'
    <3> SUFFICES ASSUME NEW u \in Session, NEW g \in Handoff, settlement'[g].state # "none",
                        NEW t \in Target, InFlight(batch'[u][t]), batch'[u][t].handoff = g
                 PROVE  FALSE
      BY DEF SettledHandoffIdle, Records, InFlight
    <3>1. InFlight(batch[u][t]) /\ batch[u][t].handoff = g
      BY <1>b DEF Records
    <3>2. CASE g # h
      BY <2>2, <3>1, <3>2 DEF HandoffInv, SettledHandoffIdle, Records
    <3>3. CASE g = h
      <4>1. u = s
        BY <1>0, <2>1, <3>1, <3>3 DEF HandoffInv, HandoffsOwned
      <4> QED BY <2>5, <3>3, <4>1
    <3> QED BY <3>2, <3>3
  <2> QED BY <1>1, <1>2, <1>3, <2>4, <2>6 DEF HandoffInv
<1> QED BY <1>4, <1>5, LedgerSteps DEF HandoffInv

LEMMA HandoffStep ==
  ASSUME HandoffInv, Next
  PROVE  HandoffInv'
<1>0. TypeOK /\ TypeOK' /\ HandoffsIssued
  BY StepTypes DEF HandoffInv
<1>1. CASE AllKept
  BY <1>0, <1>1, KeptInv DEF AllKept
<1>2. ASSUME NEW s \in Session, ClaimReminderBundle(s) PROVE HandoffInv'
  BY <1>0, <1>2, BundleHandsOver, HandOverInv
<1>3. ASSUME NEW s \in Session, NEW lease, ClaimReminder(s, lease), sess[s].status = "active"
      PROVE  HandoffInv'
  BY <1>0, <1>3, ReminderHandsOver, HandOverInv
<1>4. ASSUME NEW s \in Session, NEW t \in Target, AckReminder(s, t, "handed_off")
      PROVE  HandoffInv'
  BY <1>0, <1>4, AckHandsOver, KeptInv
<1> QED BY <1>0, <1>1, <1>2, <1>3, <1>4, StepCases

LEMMA HandoffInvInit == Init => HandoffInv
<1> SUFFICES ASSUME Init PROVE HandoffInv
  OBVIOUS
<1>1. TypeOK
  BY InitTypes
<1>2. \A s \in Session, t \in Target : batch[s][t] = NoBatch
  BY DEF Init
<1>3. NoBatch.handoff = NoHandoff /\ ~InFlight(NoBatch) /\ nextHandoff = 1 /\ NoHandoff = 0
  BY DEF NoBatch, InFlight, Init, NoHandoff
<1>4. \A h \in Handoff : settlement[h].state = "none"
  BY DEF Init, NoSettlement
<1> QED BY <1>1, <1>2, <1>3, <1>4 DEF HandoffInv, HandoffsIssued, UnissuedUnsettled, HandoffsOwned,
                                      OneHandoffInFlight, SettledHandoffIdle

LEMMA HandoffInvariant == Spec => []HandoffInv
<1>1. HandoffInv /\ UNCHANGED vars => HandoffInv'
  <2> SUFFICES ASSUME HandoffInv, UNCHANGED vars PROVE HandoffInv'
    OBVIOUS
  <2>1. TypeOK'
    BY StepTypes DEF HandoffInv
  <2> QED BY <2>1 DEF vars, HandoffInv, HandoffsIssued, UnissuedUnsettled, HandoffsOwned,
                      OneHandoffInFlight, SettledHandoffIdle, Records
<1>2. HandoffInv /\ [Next]_vars => HandoffInv'
  BY <1>1, HandoffStep
<1> QED BY <1>2, HandoffInvInit, PTL DEF Spec

(* However many hooks, plugins and daemon instances claim for one session, the  *)
(* rows it has in flight under an id are in flight under one id.                *)
THEOREM ClaimsExclude == Spec => []OneHandoffInFlight
<1>1. HandoffInv => OneHandoffInFlight
  BY DEF HandoffInv
<1> QED BY <1>1, HandoffInvariant, PTL

(* No row is ever in flight under an id an acknowledgement has settled: a       *)
(* reused id is always one nobody has settled.                                  *)
THEOREM SettledIsFinal == Spec => []SettledHandoffIdle
<1>1. HandoffInv => SettledHandoffIdle
  BY DEF HandoffInv
<1> QED BY <1>1, HandoffInvariant, PTL

(* What was asked is done: a request changes both, and nothing else but the pruning *)
(* of a pause whose session is gone changes either.                                 *)
PauseAsAsked ==
  /\ asked \in [Session -> BOOLEAN] /\ paused \in [Session -> BOOLEAN]
  /\ \A s \in Session : asked[s] => paused[s]

LEMMA PauseKept ==
  ASSUME PauseAsAsked, [Next]_vars
  PROVE  PauseAsAsked'
<1>u. UNCHANGED <<paused, asked>> => PauseAsAsked'
  BY DEF PauseAsAsked
<1>1. CASE HostNext
  <2>1. ASSUME NEW u, \/ ClaimReminderBundle(u) \/ GetPendingReminder(u)
                     \/ \E lease : ClaimReminder(u, lease)
                     \/ \E h, outcome : AckReminderBundle(u, h, outcome)
                     \/ \E t, state : AckReminder(u, t, state)
        PROVE  UNCHANGED <<paused, asked>>
    BY <2>1, Zenon DEF ClaimReminderBundle, GetPendingReminder, ClaimReminder, AckReminderBundle,
                       AckReminder
  <2>2. ASSUME NEW u, NEW t, NEW h, NEW outcome, SettleReminderClaim(u, t, h, outcome)
        PROVE  UNCHANGED <<paused, asked>>
    BY <2>2, Zenon DEF SettleReminderClaim
  <2>3. ASSUME NEW u, ConfirmClaudeHandoff(u) PROVE UNCHANGED <<paused, asked>>
    BY <2>2, <2>3, Zenon DEF ConfirmClaudeHandoff
  <2> QED BY <1>u, <1>1, <2>1, <2>2, <2>3, Zenon DEF HostNext
<1>2. CASE SessionNext
  <2> PICK u \in Session : SessionNext!(u)
    BY <1>2, Zenon DEF SessionNext
  <2>1. CASE RegisterSession(u) \/ Revive(u) \/ Detach(u) \/ Close(u) \/ PruneClosedSession(u)
    BY <1>u, <2>1, Zenon DEF RegisterSession, Revive, Detach, Close, PruneClosedSession
  <2>2. ASSUME NEW pause \in BOOLEAN,
               \/ \E q \in PR \cup {NoPR}, changed \in BOOLEAN : EnsureSessionControl(u, q, changed, pause)
               \/ SetSessionPaused(u, pause)
        PROVE  PauseAsAsked'
    <3>1. paused' = [paused EXCEPT ![u] = pause] /\ asked' = [asked EXCEPT ![u] = pause]
      BY <2>2 DEF EnsureSessionControl, SetSessionPaused
    <3> QED BY <3>1 DEF PauseAsAsked
  <2>3. CASE PrunePause(u)
    BY <2>3 DEF PrunePause, PauseAsAsked
  <2> QED BY <2>1, <2>2, <2>3
<1>3. CASE SubscriptionNext
  <2>1. ASSUME NEW u, NEW q, \/ Subscribe(u, q) \/ Unsubscribe(u, q)
                              \/ PruneSubscription(u, q) \/ RejectPullRequest(u, q)
        PROVE  UNCHANGED <<paused, asked>>
    BY <2>1, Zenon DEF Subscribe, Unsubscribe, PruneSubscription, RejectPullRequest
  <2>2. ASSUME NEW u, NEW D, NEW B, ActivateWorktree(u, D, B)
        PROVE  UNCHANGED <<paused, asked>>
    BY <2>2, Zenon DEF ActivateWorktree
  <2>3. ASSUME NEW q, NEW F, NEW S, NEW W, NEW n, DiscoverPullRequest(q, F, S, W, n)
        PROVE  UNCHANGED <<paused, asked>>
    BY <2>3, Zenon DEF DiscoverPullRequest
  <2> QED BY <1>u, <1>3, <2>1, <2>2, <2>3, Zenon DEF SubscriptionNext
<1>4. CASE DaemonNext
  BY <1>u, <1>4, Zenon DEF DaemonNext, Poll, SuspendAutomaticSubscriptions,
       ResetInferredSubscriptionPolicies, RecoverFromRestart, ExpireStaleHandoffs, Tick, Crash
<1>5. CASE UNCHANGED vars
  BY <1>u, <1>5 DEF vars
<1> QED BY <1>1, <1>2, <1>3, <1>4, <1>5 DEF Next

LEMMA PausedAsAsked == Spec => []PauseAsAsked
<1>1. Init => PauseAsAsked
  BY DEF Init, PauseAsAsked
<1> QED BY <1>1, PauseKept, PTL DEF Spec

(* A session that was asked to pause is handed nothing, whatever was built, fetched *)
(* or claimed before, and whatever happens to the session and the daemon.           *)
THEOREM PauseHolds == Spec => PausedGetsNothing
<1>1. HandoffInv /\ PauseAsAsked /\ [Next]_vars =>
        [\A s \in Session : asked[s] =>
           \A t \in Target : ~InFlight(batch[s][t]) => ~InFlight(batch'[s][t])]_vars
  <2> SUFFICES ASSUME HandoffInv, PauseAsAsked, Next, NEW s \in Session, asked[s]
               PROVE  \A t \in Target : ~InFlight(batch[s][t]) => ~InFlight(batch'[s][t])
    OBVIOUS
  <2>p. paused[s]
    BY DEF PauseAsAsked
  <2>0. TypeOK /\ HandoffsIssued
    BY DEF HandoffInv
  <2>t. ASSUME NEW t \in Target, ~InFlight(batch[s][t]) PROVE ~InFlight(batch'[s][t])
    <3>1. ASSUME NEW u \in Session, NEW h, HandsOver(u, h) PROVE ~InFlight(batch'[s][t])
      BY <2>p, <2>t, <3>1 DEF HandsOver, Kept
    <3>2. CASE AllKept
      BY <2>t, <3>2 DEF AllKept, Kept
    <3>3. ASSUME NEW u \in Session, ClaimReminderBundle(u) PROVE ~InFlight(batch'[s][t])
      BY <2>0, <3>1, <3>3, BundleHandsOver
    <3>4. ASSUME NEW u \in Session, NEW lease, ClaimReminder(u, lease), sess[u].status = "active"
          PROVE  ~InFlight(batch'[s][t])
      BY <2>0, <3>1, <3>4, ReminderHandsOver
    <3>5. ASSUME NEW u \in Session, NEW v \in Target, AckReminder(u, v, "handed_off")
          PROVE  ~InFlight(batch'[s][t])
      BY <2>0, <2>p, <2>t, <3>5, AckHandsOver DEF Kept
    <3> QED BY <2>0, <3>2, <3>3, <3>4, <3>5, StepCases
  <2> QED BY <2>t
<1> QED BY <1>1, HandoffInvariant, PausedAsAsked, PTL DEF Spec, PausedGetsNothing

(* docs/protocol.md: "A repeated confirmation returns the original result."     *)
(* The acknowledgement that settles an id and every later one with the same     *)
(* outcome get the same answer, whatever else the store does in between.        *)
THEOREM AcknowledgedAlike == Spec => AckIsRepeatable
<1>1. HandoffInv /\ HandoffInv' /\ [Next]_vars =>
        [\A s \in Session, h \in Handoff, o \in {"confirmed", "failed"} :
           (settlement[h].state = o /\ settlement[h].session = s)' =>
             AckReply(s, h, o)' = AckReply(s, h, o)]_vars
  <2> SUFFICES ASSUME HandoffInv, HandoffInv', Next,
                      NEW s \in Session, NEW h \in Handoff, NEW o \in {"confirmed", "failed"},
                      settlement'[h].state = o, settlement'[h].session = s
               PROVE  AckReply(s, h, o)' = AckReply(s, h, o)
    OBVIOUS
  <2>1. AckReply(s, h, o)' = settlement'[h].count
    <3>1. Records(s, h)' = {}
      BY DEF HandoffInv, SettledHandoffIdle
    <3> QED BY <3>1 DEF AckReply
  <2>2. CASE settlement'[h] = settlement[h]
    <3>1. Records(s, h) = {}
      BY <2>2 DEF HandoffInv, SettledHandoffIdle
    <3> QED BY <2>1, <2>2, <3>1 DEF AckReply
  <2>3. CASE settlement'[h] # settlement[h]
    <3>0. TypeOK
      BY DEF HandoffInv
    <3>1. PICK u \in Session, g \in Handoff, x \in {"confirmed", "failed"} :
            AckReminderBundle(u, g, x)
      BY <2>3, <3>0, LedgerSteps
    <3>2. settlement' = IF settlement[g].state # "none" THEN settlement
                        ELSE [settlement EXCEPT ![g] =
                               [state |-> x, session |-> u, count |-> Cardinality(Records(u, g))]]
      BY <3>1 DEF AckReminderBundle
    <3>3. g = h /\ settlement'[h] = [state |-> x, session |-> u, count |-> Cardinality(Records(u, h))]
      BY <2>3, <3>0, <3>2 DEF TypeOK
    <3>4. u = s /\ settlement'[h].count = Cardinality(Records(s, h))
      BY <3>3
    <3>5. Records(s, h) # {} /\ \A t \in Records(s, h) : batch[s][t].size = Cardinality(Records(s, h))
      BY <3>1, <3>3, <3>4 DEF AckReminderBundle
    <3>6. AckReply(s, h, o) = Cardinality(Records(s, h))
      BY <3>5 DEF AckReply
    <3> QED BY <2>1, <3>4, <3>6
  <2> QED BY <2>2, <2>3
<1> QED BY <1>1, HandoffInvariant, PTL DEF Spec, AckIsRepeatable

-----------------------------------------------------------------------------
(* Dropped subscriptions                                                     *)

Unbuilt(b) == b.state # "built"

(* A dropped subscription has no batch that waits to be handed over. *)
NoneWaiting ==
  \A s \in Session, p \in PR : sub[s][p].state # "active" => Unbuilt(batch[s][p])

LEMMA UnbuiltRows ==
  ASSUME NEW b \in Batch
  PROVE  /\ Unbuilt(NoBatch) /\ Unbuilt(Released(b))
         /\ \A h, size, lease : HandOff(b, h, size, lease).state = "handed_off"
         /\ Unbuilt(b) => Unbuilt(SweptCell(b)) /\ \A s, t, h : Unbuilt(FailedCell(s, t, h, b))
<1>1. Unbuilt(NoBatch) /\ Unbuilt(Released(b))
  BY DEF Unbuilt, NoBatch, Released, Batch
<1>2. \A h, size, lease : HandOff(b, h, size, lease).state = "handed_off"
  BY DEF HandOff, Batch
<1>3. Unbuilt([b EXCEPT !.state = "failed", !.age = 0])
  BY DEF Unbuilt, Batch
<1>4. Unbuilt(b) => Unbuilt(SweptCell(b))
  BY <1>1, <1>3 DEF SweptCell, Expire
<1>5. Unbuilt(b) => Unbuilt([b EXCEPT !.handoff = NoHandoff, !.size = 0])
  BY DEF Unbuilt, Batch
<1>6. Unbuilt(b) => \A s, t, h : Unbuilt(FailedCell(s, t, h, b))
  BY <1>1, <1>5 DEF FailedCell
<1> QED BY <1>1, <1>2, <1>4, <1>6

(* Confirming moves cursors and leaves subscriptions active or dropped. *)
LEMMA ConfirmedStates ==
  ASSUME TypeOK, NEW u \in Session, NEW T, Confirm(u, T), NEW s \in Session, NEW p \in PR
  PROVE  sub'[s][p].state = sub[s][p].state
<1>1. Raised(u, T)[p].state = sub[u][p].state
  BY DEF Raised, TypeOK, Sub
<1>2. sub'[s] = IF s = u THEN Raised(u, T) ELSE sub[s]
  BY DEF Confirm, TypeOK
<1> QED BY <1>1, <1>2

(* The rows of a dropped subscription that a sweep, a build and a selection leave *)
LEMMA DroppedRows ==
  ASSUME TypeOK, NoneWaiting, NEW s \in Session, NEW p \in PR, sub[s][p].state # "active"
  PROVE  /\ p \in Target /\ p # Legacy /\ Unbuilt(Swept[s][p])
         /\ BundleCells(s, Swept[s])[p] = Swept[s][p]
         /\ p \notin Members(s, BundleCells(s, Swept[s]))
         /\ \A x \in Selectable(s, Swept[s]) : x.target # p
<1>1. p \in Target /\ p # Legacy /\ p \notin ActiveSubs(s)
  BY NameAssumption DEF Target, ActiveSubs
<1>2. Unbuilt(Swept[s][p])
  BY <1>1, UnbuiltRows DEF NoneWaiting, Swept, TypeOK
<1>3. BundleCells(s, Swept[s])[p] = Swept[s][p]
  <2> DEFINE w == Swept[s]
             c == [t \in Target |-> IF t \in ActiveSubs(s) THEN BuildCell(log, s, t, w[t]) ELSE w[t]]
  <2>1. c[p] = w[p] /\ DOMAIN c = Target
    BY <1>1
  <2>2. BundleCells(s, w) = c \/ BundleCells(s, w) = [c EXCEPT ![Legacy] = BuildLegacy(s, @)]
    BY DEF BundleCells
  <2> HIDE DEF c
  <2> QED BY <1>1, <2>1, <2>2
<1>4. p \notin Members(s, BundleCells(s, Swept[s]))
  BY <1>1 DEF Members, Pending
<1>5. \A x \in Selectable(s, Swept[s]) : x.target # p
  BY <1>1 DEF Selectable, Pending
<1> QED BY <1>1, <1>2, <1>3, <1>4, <1>5

LEMMA HostWaits ==
  ASSUME TypeOK, NoneWaiting, HostNext
  PROVE  NoneWaiting'
<1> SUFFICES ASSUME NEW s \in Session, NEW p \in PR, sub'[s][p].state # "active"
             PROVE  Unbuilt(batch'[s][p])
  BY DEF NoneWaiting, Unbuilt
<1>t. p \in Target
  BY DEF Target
<1>0. p \in Target /\ batch[s][p] \in Batch /\ batch \in Rows /\ Swept \in Rows
  BY <1>t, SweptType DEF TypeOK, Rows
<1>d. ASSUME sub[s][p].state # "active" PROVE Unbuilt(batch[s][p]) /\ Unbuilt(Swept[s][p])
  BY <1>d, DroppedRows DEF NoneWaiting
<1> PICK u \in Session : HostNext!(u)
  BY Zenon DEF HostNext
<1>1. CASE ClaimReminderBundle(u)
  <2> DEFINE c == BundleCells(u, Swept[u])
             m == Members(u, c)
             h == BundleHandoff(u, c)
             row == [t \in Target |-> IF t \in m THEN HandOff(c[t], h, Cardinality(m), NoLease)
                                      ELSE c[t]]
  <2>1. batch' = [Swept EXCEPT ![u] = row] /\ sub' = sub
    BY <1>1, Zenon DEF ClaimReminderBundle
  <2>2. batch'[s][p] = IF u = s THEN row[p] ELSE Swept[s][p]
    <3> HIDE DEF row
    <3> QED BY <1>0, <2>1 DEF Rows
  <2>3. u = s => row[p] = Swept[s][p]
    BY <1>0, <2>1, DroppedRows
  <2> HIDE DEF row
  <2> QED BY <1>d, <2>1, <2>2, <2>3
<1>2. ASSUME NEW h, NEW o, AckReminderBundle(u, h, o) PROVE Unbuilt(batch'[s][p])
  <2>1. sub[s][p].state # "active"
    BY <1>2, ConfirmedStates DEF AckReminderBundle
  <2>2. \/ batch'[s][p] = batch[s][p] \/ batch'[s][p] = NoBatch
        \/ batch'[s][p] = FailedCell(s, p, h, batch[s][p])
    BY <1>0, <1>2 DEF AckReminderBundle, Rows
  <2> QED BY <1>0, <1>d, <2>1, <2>2, UnbuiltRows
<1>3. ASSUME NEW x \in Selectable(u, Swept[u]), NEW r, sub' = sub,
             batch' = [Swept EXCEPT ![u][x.target] = r]
      PROVE  Unbuilt(batch'[s][p])
  <2>1. u = s => x.target # p
    BY <1>3, DroppedRows
  <2>2. batch'[s][p] = Swept[s][p]
    BY <1>0, <1>3, <2>1 DEF Rows
  <2> QED BY <1>3, <1>d, <2>2
<1>4. ASSUME NEW lease, ClaimReminder(u, lease) PROVE Unbuilt(batch'[s][p])
  <2>1. PICK x \in Selectable(u, Swept[u]) : \E r : batch' = [Swept EXCEPT ![u][x.target] = r]
    BY <1>4, Zenon DEF ClaimReminder
  <2>2. sub' = sub
    BY <1>4 DEF ClaimReminder
  <2> QED BY <1>3, <2>1, <2>2
<1>5. CASE GetPendingReminder(u)
  <2>1. PICK x \in Selectable(u, Swept[u]) : \E r : batch' = [Swept EXCEPT ![u][x.target] = r]
    BY <1>5, Zenon DEF GetPendingReminder
  <2>2. sub' = sub
    BY <1>5 DEF GetPendingReminder
  <2> QED BY <1>3, <2>1, <2>2
<1>6. ASSUME NEW t \in Target, NEW h, NEW o, SettleReminderClaim(u, t, h, o)
      PROVE  Unbuilt(batch'[s][p])
  <2>1. sub[s][p].state # "active"
    BY <1>6, ConfirmedStates DEF SettleReminderClaim
  <2>2. \E r \in {NoBatch, Released(Swept[u][t])} : batch' = [Swept EXCEPT ![u][t] = r]
    BY <1>6 DEF SettleReminderClaim
  <2>3. batch'[s][p] \in {Swept[s][p], NoBatch, Released(Swept[s][p])}
    BY <1>0, <2>2 DEF Rows
  <2>4. Swept[s][p] \in Batch
    BY <1>0 DEF Rows
  <2> QED BY <1>d, <2>1, <2>3, <2>4, UnbuiltRows
<1>7. CASE ConfirmClaudeHandoff(u)
  <2>1. PICK t \in Target :
          \/ SettleReminderClaim(u, t, batch[u][t].handoff, "confirmed")
          \/ batch' = [batch EXCEPT ![u][t] = NoBatch] /\ Confirm(u, {t})
    BY <1>7, Zenon DEF ConfirmClaudeHandoff
  <2>2. CASE batch' = [batch EXCEPT ![u][t] = NoBatch] /\ Confirm(u, {t})
    <3>1. sub[s][p].state # "active"
      BY <2>2, ConfirmedStates
    <3>2. batch'[s][p] \in {batch[s][p], NoBatch}
      BY <1>0, <2>2 DEF Rows
    <3> QED BY <1>0, <1>d, <3>1, <3>2, UnbuiltRows
  <2> QED BY <1>6, <2>1, <2>2
<1>8. ASSUME NEW t \in Target, NEW o, AckReminder(u, t, o) PROVE Unbuilt(batch'[s][p])
  <2>1. sub[s][p].state # "active"
    BY <1>8, ConfirmedStates DEF AckReminder
  <2>2. \E r \in {NoBatch, Released(batch[u][t]), HandOff(batch[u][t], NoHandoff, 0, NoLease)} :
          batch' = [batch EXCEPT ![u][t] = r]
    BY <1>8 DEF AckReminder
  <2>3. batch'[s][p] \in {batch[s][p], NoBatch, Released(batch[s][p]),
                          HandOff(batch[s][p], NoHandoff, 0, NoLease)}
    BY <1>0, <2>2 DEF Rows
  <2> QED BY <1>0, <1>d, <2>1, <2>3, UnbuiltRows DEF Unbuilt
<1> QED BY <1>1, <1>2, <1>4, <1>5, <1>6, <1>7, <1>8

(* A step is over both: what it drops, it leaves no batch waiting of. *)
LEMMA SessionWaits ==
  ASSUME TypeOK, NoneWaiting, SessionNext
  PROVE  NoneWaiting'
<1> SUFFICES ASSUME NEW s \in Session, NEW p \in PR, sub'[s][p].state # "active"
             PROVE  Unbuilt(batch'[s][p])
  BY DEF NoneWaiting, Unbuilt
<1>0. p \in Target /\ batch \in Rows
  BY DEF Target, TypeOK, Rows
<1> PICK u \in Session : SessionNext!(u)
  BY Zenon DEF SessionNext
<1>1. \/ batch' = batch /\ sub' = sub
      \/ /\ batch' = [batch EXCEPT ![u] = [t \in Target |-> NoBatch]]
         /\ \E r : sub' = [sub EXCEPT ![u] = r]
  BY DEF RegisterSession, EnsureSessionControl, Revive, Detach, Close, PruneClosedSession,
         SetSessionPaused, PrunePause
<1>2. CASE u = s /\ batch' = [batch EXCEPT ![u] = [t \in Target |-> NoBatch]]
  BY <1>0, <1>2 DEF Rows, Unbuilt, NoBatch
<1>3. CASE ~(u = s /\ batch' = [batch EXCEPT ![u] = [t \in Target |-> NoBatch]])
  <2>1. batch'[s] = batch[s] /\ sub'[s] = sub[s]
    BY <1>0, <1>1, <1>3 DEF Rows, TypeOK
  <2> QED BY <2>1 DEF NoneWaiting
<1> QED BY <1>2, <1>3

(* What goes with the subscriptions that are dropped by themselves *)
LEMMA DeactivatedRows ==
  ASSUME TypeOK, NoneWaiting, NEW s \in Session, NEW p \in PR, Deactivated(s)[p].state # "active"
  PROVE  Unbuilt(WithoutAutomatic(s)[p])
<1>1. p \in Target /\ batch[s][p] \in Batch /\ sub[s][p] \in Sub
  BY DEF Target, TypeOK
<1>2. CASE Automatic(s, p)
  BY <1>1, <1>2 DEF WithoutAutomatic, Unbuilt, InFlight, NoBatch
<1>3. CASE ~Automatic(s, p)
  BY <1>1, <1>3 DEF WithoutAutomatic, Deactivated, NoneWaiting
<1> QED BY <1>2, <1>3

LEMMA RejectWaits ==
  ASSUME TypeOK, NoneWaiting, NEW X, NEW P, Reject(X, P)
  PROVE  NoneWaiting'
<1> SUFFICES ASSUME NEW s \in Session, NEW p \in PR, sub'[s][p].state # "active"
             PROVE  Unbuilt(batch'[s][p])
  BY DEF NoneWaiting, Unbuilt
<1>0. p \in Target /\ p # Legacy
  BY NameAssumption DEF Target
<1>1. sub'[s] = (IF s \in X THEN Deactivated(s) ELSE sub[s])
  BY Zenon DEF Reject
<1>2. batch'[s] = (IF s \in X THEN [WithoutAutomatic(s) EXCEPT ![Legacy] = RejectedLegacy(@)]
                   ELSE batch[s])
  BY Zenon DEF Reject
<1>3. s \in X => batch'[s][p] = WithoutAutomatic(s)[p]
  BY <1>0, <1>2, WithoutAutomaticType
<1> QED BY <1>1, <1>2, <1>3, DeactivatedRows DEF NoneWaiting

(* A row that is reset is built again only for a subscription that is active. *)
LEMMA ResetWaits ==
  ASSUME NEW s, NEW rows, NEW t \in Target, NEW D, NEW B,
         sub[s][t].state = "active" \/ Unbuilt(rows[t])
  PROVE  sub[s][t].state = "active" \/ Unbuilt(ResetRows(s, rows, D, B)[t])
BY DEF ResetRows, BuildCell, Unbuilt, InFlight, NoBatch

LEMMA SubscriptionWaits ==
  ASSUME TypeOK, NoneWaiting, SubscriptionNext
  PROVE  NoneWaiting'
<1> SUFFICES ASSUME NEW s \in Session, NEW p \in PR, sub'[s][p].state # "active"
             PROVE  Unbuilt(batch'[s][p])
  BY DEF NoneWaiting, Unbuilt
<1>t. p \in Target /\ PR \subseteq Target
  BY DEF Target
<1>0. /\ p \in Target /\ batch \in Rows /\ batch[s][p] \in Batch
      /\ sub \in [Session -> [PR -> Sub]] /\ PR \subseteq Target
  BY <1>t DEF TypeOK, Rows
<1>1. ASSUME NEW u \in Session, NEW q \in PR, Subscribe(u, q) PROVE Unbuilt(batch'[s][p])
  <2>1. sub[s][p].state # "active"
    BY <1>0, <1>1 DEF Subscribe, Sub
  <2> QED BY <1>1, <2>1 DEF Subscribe, NoneWaiting
<1>2. ASSUME NEW u \in Session, NEW q \in PR, Unsubscribe(u, q) \/ PruneSubscription(u, q)
      PROVE  Unbuilt(batch'[s][p])
  <2>1. PICK b \in {NoBatch, IF InFlight(batch[u][q]) THEN batch[u][q] ELSE NoBatch} :
          batch' = [batch EXCEPT ![u][q] = b]
    BY <1>2 DEF Unsubscribe, PruneSubscription
  <2>2. CASE u = s /\ q = p
    <3>1. batch'[s][p] = b
      BY <1>0, <2>1, <2>2 DEF Rows
    <3> QED BY <2>1, <2>2, <3>1 DEF Unbuilt, InFlight, NoBatch
  <2>3. CASE ~(u = s /\ q = p)
    <3>1. batch'[s][p] = batch[s][p]
      BY <1>0, <2>1, <2>3 DEF Rows
    <3>2. sub'[s][p] = sub[s][p]
      BY <1>0, <1>2, <2>3 DEF Unsubscribe, PruneSubscription
    <3> QED BY <3>1, <3>2 DEF NoneWaiting
  <2> QED BY <2>2, <2>3
<1>3. ASSUME NEW u \in Session, NEW q \in PR, RejectPullRequest(u, q) PROVE Unbuilt(batch'[s][p])
  <2>1. Reject({u}, [v \in Session |-> {q}])
    BY <1>3 DEF RejectPullRequest
  <2> QED BY <2>1, RejectWaits DEF NoneWaiting, Unbuilt
<1>4. ASSUME NEW u \in Session, NEW D, NEW B, ActivateWorktree(u, D, B) PROVE Unbuilt(batch'[s][p])
  <2>1. /\ D \subseteq {q \in PR : sub[u][q].state = "active" /\ ~Automatic(u, q)}
        /\ sub' = [sub EXCEPT ![u] = Deactivated(u)]
        /\ batch' = [batch EXCEPT ![u] = ResetRows(u, WithoutAutomatic(u), D, B)]
    BY <1>4 DEF ActivateWorktree, ActiveSubs
  <2>2. CASE u = s
    <3>1. Deactivated(s)[p].state # "active" /\ batch'[s][p] = ResetRows(s, WithoutAutomatic(s), D, B)[p]
      BY <1>0, <2>1, <2>2 DEF Rows
    <3>2. p \notin D
      BY <2>1, <2>2, <3>1 DEF Deactivated
    <3>3. ResetRows(s, WithoutAutomatic(s), D, B)[p] = WithoutAutomatic(s)[p]
      BY <1>0, <3>2 DEF ResetRows
    <3> QED BY <3>1, <3>3, DeactivatedRows
  <2>3. CASE u # s
    BY <1>0, <2>1, <2>3 DEF Rows, NoneWaiting
  <2> QED BY <2>2, <2>3
<1>5. ASSUME NEW q \in PR, NEW F, NEW S, NEW W, NEW n, DiscoverPullRequest(q, F, S, W, n)
      PROVE  Unbuilt(batch'[s][p])
  <2> DEFINE r == IF s \in W THEN Deactivated(s) ELSE sub[s]
  <2>1. sub'[s] = (IF s \in S THEN [r EXCEPT ![q] = Baselined(s, q, @)] ELSE r)
    BY <1>5 DEF DiscoverPullRequest
  <2>2. batch'[s] = (IF s \in W THEN WithoutAutomatic(s) ELSE batch[s])
    BY <1>5 DEF DiscoverPullRequest
  <2>3. r \in [PR -> Sub]
    BY DeactivatedType DEF TypeOK
  <2>4. r[p].state # "active"
    <3> HIDE DEF r
    <3>1. CASE s \in S /\ p = q
      BY <2>1, <2>3, <3>1 DEF Baselined
    <3>2. CASE ~(s \in S /\ p = q)
      BY <2>1, <2>3, <3>2
    <3> QED BY <3>1, <3>2
  <2> QED BY <2>2, <2>4, DeactivatedRows DEF NoneWaiting
<1> QED BY <1>1, <1>2, <1>3, <1>4, <1>5 DEF SubscriptionNext

LEMMA DaemonWaits ==
  ASSUME TypeOK, NoneWaiting, DaemonNext
  PROVE  NoneWaiting'
<1> SUFFICES ASSUME NEW s \in Session, NEW p \in PR, sub'[s][p].state # "active"
             PROVE  Unbuilt(batch'[s][p])
  BY DEF NoneWaiting, Unbuilt
<1>0. p \in Target /\ batch[s][p] \in Batch
  BY DEF Target, TypeOK
<1>d. ASSUME sub' = sub PROVE sub[s][p].state # "active" /\ Unbuilt(batch[s][p])
  BY <1>d DEF NoneWaiting
<1>1. ASSUME NEW q \in PR, NEW n, NEW changed, NEW B, Poll(q, n, changed, B)
      PROVE  Unbuilt(batch'[s][p])
  <2>1. sub' = sub
    BY <1>1 DEF Poll
  <2>2. batch'[s][p] \in {batch[s][p], Reconciled(s, p, changed),
                          BuildCell(Extended(q, n), s, p, Reconciled(s, p, changed))}
    BY <1>0, <1>1 DEF Poll
  <2>3. Reconciled(s, p, changed) = batch[s][p]
    BY <1>d, <2>1 DEF Reconciled
  <2>4. BuildCell(Extended(q, n), s, p, batch[s][p]) = batch[s][p]
    BY <1>d, <2>1 DEF BuildCell
  <2> QED BY <1>d, <2>1, <2>2, <2>3, <2>4
<1>2. ASSUME NEW X, SuspendAutomaticSubscriptions(X) PROVE Unbuilt(batch'[s][p])
  <2>1. \E P : Reject(X, P)
    BY <1>2, Zenon DEF SuspendAutomaticSubscriptions
  <2> QED BY <2>1, RejectWaits DEF NoneWaiting, Unbuilt
<1>3. ASSUME NEW D, NEW B, ResetInferredSubscriptionPolicies(D, B) PROVE Unbuilt(batch'[s][p])
  <2>1. sub' = sub /\ batch'[s][p] = ResetRows(s, batch[s], D[s], B[s])[p]
    BY <1>3 DEF ResetInferredSubscriptionPolicies
  <2> QED BY <1>0, <1>d, <2>1, ResetWaits
<1>4. CASE \/ \E X \in SUBSET Session : RecoverFromRestart(X)
           \/ ExpireStaleHandoffs \/ Tick \/ Crash
  <2>1. sub' = sub
    BY <1>4 DEF RecoverFromRestart, ExpireStaleHandoffs, Tick, Crash
  <2>2. \/ batch'[s][p] \in {batch[s][p], Released(batch[s][p]), Swept[s][p]}
        \/ batch'[s][p] = [batch[s][p] EXCEPT !.age = Older(@)]
    BY <1>0, <1>4 DEF RecoverFromRestart, ExpireStaleHandoffs, Tick, Crash
  <2>3. [batch[s][p] EXCEPT !.age = Older(@)].state = batch[s][p].state
    BY <1>0 DEF Batch
  <2>4. Unbuilt(Swept[s][p]) /\ Unbuilt(Released(batch[s][p]))
    BY <1>0, <1>d, <2>1, DroppedRows, UnbuiltRows
  <2> QED BY <1>d, <2>1, <2>2, <2>3, <2>4 DEF Unbuilt
<1> QED BY <1>1, <1>2, <1>3, <1>4 DEF DaemonNext

LEMMA NoneWaits == Spec => []NoneWaiting
<1>1. Init => NoneWaiting
  BY DEF Init, NoneWaiting, Target, Unbuilt, NoBatch
<1>2. TypeOK /\ NoneWaiting /\ [Next]_vars => NoneWaiting'
  <2>1. CASE UNCHANGED vars
    BY <2>1 DEF vars, NoneWaiting
  <2> QED BY <2>1, HostWaits, SessionWaits, SubscriptionWaits, DaemonWaits DEF Next
<1> QED BY <1>1, <1>2, TypeCorrect, PTL DEF Spec

(* Nothing of a dropped subscription is handed over, by whatever host and however *)
(* it was dropped: its batch went with it, or was out and is not built again.     *)
THEOREM DropsHold == Spec => DroppedGetsNothing
<1>1. HandoffInv /\ NoneWaiting /\ [Next]_vars =>
        [\A s \in Session, p \in PR :
           sub[s][p].state # "active" /\ ~InFlight(batch[s][p]) => ~InFlight(batch'[s][p])]_vars
  <2> SUFFICES ASSUME HandoffInv, NoneWaiting, Next, NEW s \in Session, NEW p \in PR,
                      sub[s][p].state # "active", ~InFlight(batch[s][p])
               PROVE  ~InFlight(batch'[s][p])
    OBVIOUS
  <2>0. TypeOK /\ p \in Target /\ Unbuilt(batch[s][p]) /\ Swept \in Rows /\ batch \in Rows
    BY SweptType DEF HandoffInv, NoneWaiting, Target, TypeOK, Rows
  <2>s. ~InFlight(Swept[s][p])
    BY <2>0, SweptKept DEF Kept
  <2>1. CASE AllKept
    BY <2>0, <2>1 DEF AllKept, Kept
  <2>2. ASSUME NEW u \in Session, ClaimReminderBundle(u) PROVE ~InFlight(batch'[s][p])
    <3> DEFINE c == BundleCells(u, Swept[u])
               m == Members(u, c)
               h == BundleHandoff(u, c)
               row == [t \in Target |-> IF t \in m THEN HandOff(c[t], h, Cardinality(m), NoLease)
                                        ELSE c[t]]
    <3>1. batch' = [Swept EXCEPT ![u] = row]
      BY <2>2, Zenon DEF ClaimReminderBundle
    <3>2. batch'[s][p] = IF u = s THEN row[p] ELSE Swept[s][p]
      <4> HIDE DEF row
      <4> QED BY <2>0, <3>1 DEF Rows
    <3>3. u = s => row[p] = Swept[s][p]
      BY <2>0, DroppedRows
    <3> HIDE DEF row
    <3> QED BY <2>s, <3>2, <3>3
  <2>3. ASSUME NEW u \in Session, NEW lease, ClaimReminder(u, lease) PROVE ~InFlight(batch'[s][p])
    <3>1. PICK x \in Selectable(u, Swept[u]) : \E r : batch' = [Swept EXCEPT ![u][x.target] = r]
      BY <2>3, Zenon DEF ClaimReminder
    <3>2. u = s => x.target # p
      BY <2>0, <3>1, DroppedRows
    <3> QED BY <2>0, <2>s, <3>1, <3>2 DEF Rows
  <2>4. ASSUME NEW u \in Session, NEW t \in Target, AckReminder(u, t, "handed_off")
        PROVE  ~InFlight(batch'[s][p])
    <3>1. batch[u][t].state = "built" /\ \E r : batch' = [batch EXCEPT ![u][t] = r]
      BY <2>4, Zenon DEF AckReminder, HandOverAllowed
    <3>2. ~(u = s /\ t = p)
      BY <2>0, <3>1 DEF Unbuilt
    <3> QED BY <2>0, <3>1, <3>2 DEF Rows
  <2> QED BY <2>0, <2>1, <2>2, <2>3, <2>4, StepCases
<1> QED BY <1>1, HandoffInvariant, NoneWaits, PTL DEF Spec, DroppedGetsNothing

-----------------------------------------------------------------------------
(* Bundles stay whole                                                        *)

(* The sessions whose rows only bundles hand over *)
BundleOnly == BundleHosts \ (LeaseHosts \cup PollHosts)

(* c is b as it is in flight, unless b was overdue. *)
Carried(b, c) ==
  /\ InFlight(c) => /\ InFlight(b) /\ c.handoff = b.handoff /\ c.size = b.size
                    /\ c.lease = b.lease /\ c.age <= b.age
  /\ InFlight(b) /\ b.lease = NoLease /\ ~InFlight(c) => b.age > Stale

(* The step carries the rows of s, and the executions they are in flight under. *)
Carries(s) ==
  /\ \A t \in Target : Carried(batch[s][t], batch'[s][t])
  /\ \A t \in Target : InFlight(batch[s][t]) =>
                         exec'[batch[s][t].handoff] = exec[batch[s][t].handoff]

Clears(s) == \A t \in Target : ~InFlight(batch'[s][t])

(* What is in flight for these sessions is part of a whole bundle, unless the *)
(* execution of the bundle is overdue; no row is overdue before it is.        *)
Whole(s, b) ==
  /\ b.handoff # NoHandoff /\ b.lease = NoLease
  /\ exec[b.handoff].state = "open" /\ b.age <= exec[b.handoff].age
  /\ exec[b.handoff].age <= Stale => b.size = Cardinality(Records(s, b.handoff))

WholeInv ==
  \A s \in BundleOnly, t \in Target : InFlight(batch[s][t]) => Whole(s, batch[s][t])

LEMMA AgesNat ==
  /\ Stale \in Nat \ {0} /\ ClaimLease \in Nat \ {0} /\ Ages \subseteq Nat
  /\ \A b \in Batch : b.age \in Nat
BY BoundAssumption DEF Ages, Batch

LEMMA CarriedTransitive ==
  ASSUME NEW b \in Batch, NEW c \in Batch, NEW d \in Batch, Carried(b, c), Carried(c, d)
  PROVE  Carried(b, d)
BY AgesNat DEF Carried

LEMMA RowsCarried ==
  ASSUME NEW b \in Batch
  PROVE  /\ Carried(b, b) /\ Carried(b, SweptCell(b)) /\ Carried(b, RejectedLegacy(b))
         /\ \A lg, s, p : Carried(b, BuildCell(lg, s, p, b))
         /\ \A s : Carried(b, BuildLegacy(s, b))
         /\ ~InFlight(b) => Carried(b, NoBatch)
<1>0. b.age \in Nat /\ Stale \in Nat /\ ClaimLease \in Nat
  BY AgesNat
<1>1. Carried(b, b)
  BY <1>0 DEF Carried
<1>2. ~InFlight(b) => Carried(b, NoBatch) /\ \A evs : Carried(b, NewBatch(evs))
  BY DEF Carried, NewBatch, NoBatch, InFlight
<1>3. Carried(b, SweptCell(b))
  <2>1. ~InFlight(Released(b)) /\ ~InFlight([b EXCEPT !.state = "failed", !.age = 0]) /\ ~InFlight(NoBatch)
    BY DEF Released, NoBatch, InFlight, Batch
  <2>2. CASE Stalled(b)
    <3>1. ~InFlight(SweptCell(b))
      BY <2>1, <2>2 DEF SweptCell, Expire
    <3> QED BY <2>2, <3>1 DEF Carried, Stalled
  <2>3. CASE ~Stalled(b)
    <3>1. SweptCell(b) = b \/ (b.state = "failed" /\ SweptCell(b) = NoBatch)
      BY <2>3 DEF SweptCell, Expire
    <3> QED BY <1>1, <1>2, <3>1 DEF InFlight
  <2> QED BY <2>2, <2>3
<1>4. Carried(b, RejectedLegacy(b))
  <2>1. CASE InFlight(b)
    <3> DEFINE a == IF b.lease = NoLease THEN 0 ELSE b.age
    <3>1. RejectedLegacy(b) = [b EXCEPT !.canceled = TRUE, !.age = a]
      BY <2>1 DEF RejectedLegacy
    <3>2. a \in Nat /\ a <= b.age
      BY <1>0
    <3> HIDE DEF a
    <3> QED BY <2>1, <3>1, <3>2 DEF Carried, InFlight, Batch
  <2>2. CASE ~InFlight(b)
    BY <1>2, <2>2 DEF RejectedLegacy
  <2> QED BY <2>1, <2>2
<1>5. /\ \A lg, s, p : Carried(b, BuildCell(lg, s, p, b))
      /\ \A s : Carried(b, BuildLegacy(s, b))
  BY <1>1, <1>2 DEF BuildCell, BuildLegacy
<1> QED BY <1>1, <1>2, <1>3, <1>4, <1>5

LEMMA SweptCarried ==
  ASSUME TypeOK, NEW s \in Session, NEW t \in Target
  PROVE  Carried(batch[s][t], Swept[s][t]) /\ Swept[s][t] \in Batch
<1>1. batch[s][t] \in Batch
  BY DEF TypeOK
<1>2. Swept[s][t] = SweptCell(batch[s][t])
  BY DEF Swept
<1> QED BY <1>1, <1>2, RowsCarried, SweptCellType

LEMMA CarriedSelf ==
  ASSUME TypeOK, NEW s \in Session, NEW t \in Target
  PROVE  /\ batch[s][t] \in Batch /\ Carried(batch[s][t], batch[s][t])
         /\ ~InFlight(batch[s][t]) => Carried(batch[s][t], NoBatch)
<1>1. batch[s][t] \in Batch
  BY DEF TypeOK
<1> QED BY <1>1, RowsCarried

LEMMA WithoutAutomaticCarried ==
  ASSUME TypeOK, NEW s \in Session, NEW t \in Target
  PROVE  Carried(batch[s][t], WithoutAutomatic(s)[t])
BY CarriedSelf DEF WithoutAutomatic

LEMMA ResetRowsCarried ==
  ASSUME TypeOK, NEW s \in Session, NEW rows \in [Target -> Batch], NEW t \in Target,
         Carried(batch[s][t], rows[t]), NEW D, NEW B
  PROVE  Carried(batch[s][t], ResetRows(s, rows, D, B)[t])
<1> DEFINE b == IF InFlight(rows[t]) THEN rows[t] ELSE NoBatch
<1>0. log \in Seq(PR) /\ batch[s][t] \in Batch /\ rows[t] \in Batch
  BY DEF TypeOK
<1>1. b \in Batch /\ Carried(rows[t], b)
  BY <1>0, RowsCarried, NoBatchType
<1>2. BuildCell(log, s, t, b) \in Batch /\ Carried(b, BuildCell(log, s, t, b))
  <2> HIDE DEF b
  <2> QED BY <1>0, <1>1, RowsCarried, BuildCellType
<1>3. \/ ResetRows(s, rows, D, B)[t] = rows[t] \/ ResetRows(s, rows, D, B)[t] = b
      \/ ResetRows(s, rows, D, B)[t] = BuildCell(log, s, t, b)
  BY DEF ResetRows
<1> HIDE DEF b
<1>4. Carried(batch[s][t], b)
  BY <1>0, <1>1, CarriedTransitive
<1>5. Carried(batch[s][t], BuildCell(log, s, t, b))
  BY <1>0, <1>1, <1>2, <1>4, CarriedTransitive
<1> QED BY <1>3, <1>4, <1>5

(* The rows and the execution of one session that a step does not touch *)
LEMMA Untouched ==
  ASSUME TypeOK, NEW s \in Session, batch'[s] \in {batch[s], Swept[s]}, exec' = exec
  PROVE  Carries(s)
BY SweptCarried, CarriedSelf DEF Carries

LEMMA HostCarries ==
  ASSUME HandoffInv, WholeInv, NEW s \in BundleOnly, HostNext
  PROVE  Carries(s) \/ Clears(s) \/ ClaimReminderBundle(s)
<1>0. TypeOK /\ s \in Session /\ s \notin LeaseHosts /\ s \notin PollHosts
  BY HostAssumption DEF HandoffInv, BundleOnly
<1>r. batch \in Rows /\ Swept \in Rows
  BY <1>0, SweptType DEF TypeOK, Rows
<1>l. ASSUME NEW t \in Target
      PROVE  /\ InFlight(Swept[s][t]) => Swept[s][t].lease = NoLease
             /\ InFlight(batch[s][t]) => /\ batch[s][t].handoff # NoHandoff
                                         /\ batch[s][t].lease = NoLease
  <2>1. InFlight(batch[s][t]) => batch[s][t].handoff # NoHandoff /\ batch[s][t].lease = NoLease
    BY DEF WholeInv, Whole
  <2> QED BY <1>0, <2>1, SweptCarried DEF Carried
<1> PICK u \in Session : HostNext!(u)
  BY Zenon DEF HostNext
<1>1. CASE ClaimReminderBundle(u) /\ u # s
  <2> DEFINE h == BundleHandoff(u, BundleCells(u, Swept[u]))
  <2>1. /\ \E r : batch' = [Swept EXCEPT ![u] = r]
        /\ exec' = [exec EXCEPT ![h] = [state |-> "open", age |-> 0]] /\ h \in Handoff
    BY <1>1, Zenon DEF ClaimReminderBundle
  <2>2. Grantable(u, h)
    BY <1>0, BundleGrants
  <2> HIDE DEF h
  <2>3. batch'[s] = Swept[s]
    BY <1>0, <1>1, <1>r, <2>1 DEF Rows
  <2>4. ASSUME NEW t \in Target, InFlight(batch[s][t]) PROVE batch[s][t].handoff # h
    <3>1. batch[s][t].handoff # NoHandoff /\ batch[s][t].handoff < nextHandoff
      BY <1>0, <1>l, <2>4 DEF HandoffInv, HandoffsIssued
    <3>2. nextHandoff \in Nat
      BY <1>0 DEF TypeOK
    <3>3. \A v \in Target : batch[u][v].handoff = batch[s][t].handoff => u = s
      BY <1>0, <3>1 DEF HandoffInv, HandoffsOwned
    <3> QED BY <1>1, <2>2, <3>1, <3>2, <3>3 DEF Grantable
  <2>5. \A g : g # h => exec'[g] = exec[g] \/ g \notin Handoff
    BY <1>0, <2>1 DEF TypeOK
  <2>6. \A t \in Target : InFlight(batch[s][t]) => batch[s][t].handoff \in Handoff
    BY <1>0, <1>l DEF TypeOK, Batch
  <2> QED BY <1>0, <2>3, <2>4, <2>5, <2>6, SweptCarried DEF Carries
<1>2. ASSUME NEW h \in Handoff, NEW o \in {"confirmed", "failed"}, AckReminderBundle(u, h, o)
      PROVE  Carries(s) \/ Clears(s)
  <2>0. h # NoHandoff
    BY BoundAssumption DEF Handoff, NoHandoff
  <2>1. PICK r \in Target : InFlight(batch[u][r]) /\ batch[u][r].handoff = h
    BY <1>2 DEF AckReminderBundle, Records
  <2>2. CASE u = s
    <3>1. AllKept
      BY <1>0, <1>2, AckKeeps
    <3>2. ASSUME NEW t \in Target, InFlight(batch'[s][t]) PROVE FALSE
      <4>1. InFlight(batch[s][t]) /\ batch'[s][t].handoff = batch[s][t].handoff
        BY <1>0, <3>1, <3>2 DEF AllKept, Kept
      <4>2. batch[s][t].handoff = h
        BY <1>0, <1>l, <2>0, <2>1, <2>2, <4>1 DEF HandoffInv, OneHandoffInFlight
      <4> QED BY <1>0, <1>2, <2>2, <3>2, <4>1, <4>2, AckClears
    <3> QED BY <3>2 DEF Clears
  <2>3. CASE u # s
    <3>1. batch'[s] = batch[s]
      <4>1. \E r2 : batch' = [batch EXCEPT ![u] = r2]
        BY <1>2 DEF AckReminderBundle
      <4> QED BY <1>0, <1>r, <2>3, <4>1 DEF Rows
    <3>2. \A g \in Handoff : g # h => exec'[g] = exec[g]
      BY <1>0, <1>2 DEF AckReminderBundle, TypeOK
    <3>3. \A t \in Target : InFlight(batch[s][t]) =>
            batch[s][t].handoff # h /\ batch[s][t].handoff \in Handoff
      BY <1>0, <1>l, <2>0, <2>1, <2>3 DEF HandoffInv, HandoffsOwned, TypeOK, Batch
    <3> QED BY <1>0, <3>1, <3>2, <3>3, CarriedSelf DEF Carries
  <2> QED BY <2>2, <2>3
<1>3. ASSUME NEW lease, ClaimReminder(u, lease) PROVE Carries(s)
  <2>1. u # s /\ exec' = exec
    BY <1>0, <1>3 DEF ClaimReminder
  <2>2. \E t, r : batch' = [Swept EXCEPT ![u][t] = r]
    BY <1>3, Zenon DEF ClaimReminder
  <2>3. batch'[s] = Swept[s]
    BY <1>0, <1>r, <2>1, <2>2 DEF Rows
  <2> QED BY <1>0, <2>1, <2>3, Untouched
<1>4. ASSUME NEW t \in Target, NEW h \in Handoff, NEW o \in {"confirmed", "failed"},
             SettleReminderClaim(u, t, h, o)
      PROVE  Carries(s)
  <2>1. u # s /\ exec' = exec
    BY <1>l, <1>4 DEF SettleReminderClaim, Settleable
  <2>2. \E r : batch' = [Swept EXCEPT ![u][t] = r]
    BY <1>4, Zenon DEF SettleReminderClaim
  <2>3. batch'[s] = Swept[s]
    BY <1>0, <1>r, <2>1, <2>2 DEF Rows
  <2> QED BY <1>0, <2>1, <2>3, Untouched
<1>5. CASE ConfirmClaudeHandoff(u)
  <2>1. PICK t \in Target :
          /\ InFlight(batch[u][t])
          /\ IF batch[u][t].handoff # NoHandoff
             THEN SettleReminderClaim(u, t, batch[u][t].handoff, "confirmed")
             ELSE batch' = [batch EXCEPT ![u][t] = NoBatch] /\ exec' = exec
    BY <1>5 DEF ConfirmClaudeHandoff, CurrentHandoff
  <2>2. CASE batch[u][t].handoff # NoHandoff
    <3>1. batch[u][t].handoff \in Handoff
      BY <1>0, <2>2 DEF TypeOK, Batch
    <3> QED BY <1>4, <2>1, <2>2, <3>1
  <2>3. CASE batch[u][t].handoff = NoHandoff
    <3>1. u # s /\ exec' = exec
      BY <1>l, <2>1, <2>3
    <3>2. batch'[s] = batch[s]
      BY <1>0, <1>r, <2>1, <2>3, <3>1 DEF Rows
    <3> QED BY <1>0, <3>1, <3>2, Untouched
  <2> QED BY <2>2, <2>3
<1>6. CASE GetPendingReminder(u)
  <2>1. u # s /\ exec' = exec
    BY <1>0, <1>6 DEF GetPendingReminder
  <2>2. \E t, r : batch' = [Swept EXCEPT ![u][t] = r]
    BY <1>6, Zenon DEF GetPendingReminder
  <2>3. batch'[s] = Swept[s]
    BY <1>0, <1>r, <2>1, <2>2 DEF Rows
  <2> QED BY <1>0, <2>1, <2>3, Untouched
<1>7. ASSUME NEW t \in Target, NEW o \in {"handed_off", "confirmed", "failed"}, AckReminder(u, t, o)
      PROVE  Carries(s)
  <2>1. u # s /\ exec' = exec
    BY <1>0, <1>7 DEF AckReminder
  <2>2. \E r : batch' = [batch EXCEPT ![u][t] = r]
    BY <1>7, Zenon DEF AckReminder
  <2>3. batch'[s] = batch[s]
    BY <1>0, <1>r, <2>1, <2>2 DEF Rows
  <2> QED BY <1>0, <2>1, <2>3, Untouched
<1> QED BY <1>1, <1>2, <1>3, <1>4, <1>5, <1>6, <1>7

LEMMA SessionCarries ==
  ASSUME TypeOK, NEW s \in Session, SessionNext
  PROVE  Carries(s) \/ Clears(s)
<1> PICK u \in Session : SessionNext!(u)
  BY Zenon DEF SessionNext
<1>1. /\ batch' = batch \/ batch' = [batch EXCEPT ![u] = [t \in Target |-> NoBatch]]
      /\ exec' = exec
  BY DEF RegisterSession, EnsureSessionControl, Revive, Detach, Close, PruneClosedSession,
         SetSessionPaused, PrunePause
<1>2. batch'[s] = batch[s] \/ batch'[s] = [t \in Target |-> NoBatch]
  BY <1>1 DEF TypeOK
<1>3. ~InFlight(NoBatch)
  BY DEF NoBatch, InFlight
<1> QED BY <1>1, <1>2, <1>3, Untouched DEF Clears

LEMMA RejectCarries ==
  ASSUME TypeOK, NEW s \in Session, NEW X, NEW P, Reject(X, P), exec' = exec
  PROVE  Carries(s)
<1>1. ASSUME NEW t \in Target PROVE Carried(batch[s][t], batch'[s][t])
  <2>0. WithoutAutomatic(s)[t] \in Batch
    BY WithoutAutomaticType
  <2>1. \/ batch'[s][t] = batch[s][t] \/ batch'[s][t] = WithoutAutomatic(s)[t]
        \/ batch'[s][t] = RejectedLegacy(WithoutAutomatic(s)[t])
    BY WithoutAutomaticType DEF Reject
  <2>2. Carried(WithoutAutomatic(s)[t], RejectedLegacy(WithoutAutomatic(s)[t]))
    BY <2>0, RowsCarried
  <2>3. Carried(batch[s][t], RejectedLegacy(WithoutAutomatic(s)[t]))
    BY <2>0, <2>2, WithoutAutomaticCarried, CarriedSelf, RejectedLegacyType, CarriedTransitive
  <2> QED BY <2>1, <2>3, WithoutAutomaticCarried, CarriedSelf
<1> QED BY <1>1 DEF Carries

LEMMA SubscriptionCarries ==
  ASSUME TypeOK, WholeInv, NEW s \in BundleOnly, SubscriptionNext
  PROVE  Carries(s)
<1>0. s \in Session /\ batch \in Rows
  BY HostAssumption DEF BundleOnly, TypeOK, Rows
<1>1. ASSUME NEW u \in Session, NEW p \in PR, Subscribe(u, p) PROVE Carries(s)
  BY <1>0, <1>1, Untouched DEF Subscribe
<1>2. ASSUME NEW u \in Session, NEW p \in PR, Unsubscribe(u, p) PROVE Carries(s)
  <2>1. /\ batch' = [batch EXCEPT ![u][p] = IF InFlight(@) THEN @ ELSE NoBatch]
        /\ exec' = exec /\ p \in Target
    BY <1>2 DEF Unsubscribe, Target
  <2>2. \A t \in Target : \/ batch'[s][t] = batch[s][t]
                          \/ batch'[s][t] = NoBatch /\ ~InFlight(batch[s][t])
    BY <1>0, <2>1 DEF Rows
  <2> QED BY <1>0, <2>1, <2>2, CarriedSelf DEF Carries
<1>3. ASSUME NEW u \in Session, NEW p \in PR, PruneSubscription(u, p) PROVE Carries(s)
  <2>1. /\ batch' = [batch EXCEPT ![u][p] = NoBatch] /\ exec' = exec
        /\ InFlight(batch[u][p]) => Stalled(batch[u][p])
    BY <1>3 DEF PruneSubscription
  <2>2. ASSUME NEW t \in Target PROVE Carried(batch[s][t], batch'[s][t])
    <3>1. batch'[s][t] = batch[s][t] \/ (batch'[s][t] = NoBatch /\ u = s /\ t = p)
      BY <1>0, <2>1 DEF Rows
    <3>2. InFlight(batch[s][t]) /\ u = s /\ t = p => Carried(batch[s][t], NoBatch)
      BY <2>1 DEF Carried, Stalled, NoBatch, InFlight
    <3> QED BY <1>0, <3>1, <3>2, CarriedSelf
  <2> QED BY <2>1, <2>2 DEF Carries
<1>4. ASSUME NEW u \in Session, NEW p \in PR, RejectPullRequest(u, p) PROVE Carries(s)
  <2>1. Reject({u}, [v \in Session |-> {p}]) /\ exec' = exec
    BY <1>4 DEF RejectPullRequest
  <2> QED BY <1>0, <2>1, RejectCarries
<1>5. ASSUME NEW u \in Session, NEW D \in SUBSET PR, NEW B \in SUBSET PR, ActivateWorktree(u, D, B)
      PROVE  Carries(s)
  <2>1. batch' = [batch EXCEPT ![u] = ResetRows(u, WithoutAutomatic(u), D, B)] /\ exec' = exec
    BY <1>5 DEF ActivateWorktree
  <2>2. CASE u = s
    <3>1. batch'[s] = ResetRows(s, WithoutAutomatic(s), D, B)
      BY <1>0, <2>1, <2>2 DEF Rows
    <3>2. \A t \in Target : Carried(batch[s][t], batch'[s][t])
      BY <1>0, <3>1, WithoutAutomaticCarried, WithoutAutomaticType, ResetRowsCarried
    <3> QED BY <2>1, <3>2 DEF Carries
  <2>3. CASE u # s
    <3>1. batch'[s] = batch[s]
      BY <1>0, <2>1, <2>3 DEF Rows
    <3> QED BY <1>0, <2>1, <3>1, Untouched
  <2> QED BY <2>2, <2>3
<1>6. ASSUME NEW p \in PR, NEW F, NEW S, NEW W, NEW n \in {0, 1}, DiscoverPullRequest(p, F, S, W, n)
      PROVE  Carries(s)
  <2>1. exec' = exec /\ (batch'[s] = batch[s] \/ batch'[s] = WithoutAutomatic(s))
    BY <1>0, <1>6 DEF DiscoverPullRequest
  <2> QED BY <1>0, <2>1, WithoutAutomaticCarried, CarriedSelf DEF Carries
<1> QED BY <1>1, <1>2, <1>3, <1>4, <1>5, <1>6 DEF SubscriptionNext

LEMMA DaemonCarries ==
  ASSUME TypeOK, NEW s \in Session, DaemonNext
  PROVE  Carries(s) \/ Clears(s) \/ Tick
<1>1. ASSUME NEW p \in PR, NEW n \in 0..MaxPerPoll, NEW changed \in BOOLEAN,
             NEW B \in SUBSET Session, Poll(p, n, changed, B)
      PROVE  Carries(s)
  <2>0. Extended(p, n) \in Seq(PR)
    BY BoundAssumption, ExtendedType DEF TypeOK
  <2>1. ASSUME NEW t \in Target PROVE Carried(batch[s][t], batch'[s][t])
    <3> DEFINE r == Reconciled(s, p, changed)
    <3>1. t = p => r \in Batch /\ Carried(batch[s][t], r)
      BY CarriedSelf, NoBatchType DEF Reconciled, Queued, InFlight
    <3>2. t = p => Carried(batch[s][t], BuildCell(Extended(p, n), s, p, r))
      <4> HIDE DEF r
      <4> QED BY <2>0, <3>1, RowsCarried, CarriedSelf, BuildCellType, CarriedTransitive
    <3>3. \/ t # p /\ batch'[s][t] = batch[s][t]
          \/ t = p /\ batch'[s][t] \in {r, BuildCell(Extended(p, n), s, p, r)}
      BY <1>1 DEF Poll
    <3> HIDE DEF r
    <3> QED BY <3>1, <3>2, <3>3, CarriedSelf
  <2>2. exec' = exec
    BY <1>1 DEF Poll
  <2> QED BY <2>1, <2>2 DEF Carries
<1>2. ASSUME NEW X \in SUBSET Session, SuspendAutomaticSubscriptions(X)
      PROVE  Carries(s)
  BY <1>2, RejectCarries, Zenon DEF SuspendAutomaticSubscriptions
<1>3. ASSUME NEW D, NEW B, ResetInferredSubscriptionPolicies(D, B)
      PROVE  Carries(s)
  <2>1. ASSUME NEW t \in Target PROVE Carried(batch[s][t], batch'[s][t])
    <3>1. batch[s] \in [Target -> Batch] /\ Carried(batch[s][t], batch[s][t])
      BY CarriedSelf DEF TypeOK
    <3>2. batch'[s][t] = ResetRows(s, batch[s], D[s], B[s])[t]
      BY <1>3 DEF ResetInferredSubscriptionPolicies
    <3> QED BY <3>1, <3>2, ResetRowsCarried
  <2> QED BY <1>3, <2>1 DEF Carries, ResetInferredSubscriptionPolicies
<1>4. ASSUME NEW X \in SUBSET Session, RecoverFromRestart(X)
      PROVE  Clears(s)
  <2>1. \A t \in Target : batch'[s][t] = IF InFlight(batch[s][t]) THEN Released(batch[s][t])
                                         ELSE batch[s][t]
    BY <1>4 DEF RecoverFromRestart
  <2>2. \A b \in Batch : ~InFlight(Released(b))
    BY DEF Released, InFlight, Batch
  <2> QED BY <2>1, <2>2 DEF Clears, TypeOK
<1>5. CASE ExpireStaleHandoffs
  BY <1>5, Untouched DEF ExpireStaleHandoffs
<1>6. CASE Crash
  BY <1>6, Untouched DEF Crash
<1> QED BY <1>1, <1>2, <1>3, <1>4, <1>5, <1>6 DEF DaemonNext

LEMMA CarriesWhole ==
  ASSUME TypeOK, TypeOK', WholeInv, NEW s \in BundleOnly, Carries(s),
         NEW t \in Target, InFlight(batch'[s][t])
  PROVE  Whole(s, batch[s][t])'
<1> DEFINE b == batch[s][t]
           c == batch'[s][t]
<1> PICK h : h = b.handoff
  OBVIOUS
<1>0. s \in Session /\ b \in Batch /\ TypeOK
  BY HostAssumption DEF BundleOnly, TypeOK
<1>1. /\ InFlight(b) /\ c.handoff = h /\ c.size = b.size /\ c.lease = b.lease /\ c.age <= b.age
      /\ exec'[h] = exec[h]
  BY DEF Carries, Carried
<1>2. Whole(s, b)
  BY <1>1 DEF WholeInv
<1>3. ASSUME exec[h].age <= Stale PROVE Records(s, h)' = Records(s, h)
  <2>1. ASSUME NEW r \in Target, InFlight(batch'[s][r]), batch'[s][r].handoff = h
        PROVE  InFlight(batch[s][r]) /\ batch[s][r].handoff = h
    BY <2>1 DEF Carries, Carried
  <2>2. ASSUME NEW r \in Target, InFlight(batch[s][r]), batch[s][r].handoff = h
        PROVE  InFlight(batch'[s][r]) /\ batch'[s][r].handoff = h
    <3>1. batch[s][r].lease = NoLease /\ batch[s][r].age <= exec[h].age
      BY <2>2 DEF WholeInv, Whole
    <3>2. batch[s][r].age \in Nat /\ exec[h].age \in Nat /\ Stale \in Nat
      <4>1. batch[s][r] \in Batch /\ h \in Handoff
        BY <1>0, <1>2 DEF TypeOK, Batch, Whole
      <4>2. exec[h].age \in Ages
        BY <4>1 DEF TypeOK
      <4> QED BY <4>1, <4>2, AgesNat
    <3>3. ~(batch[s][r].age > Stale)
      BY <1>3, <3>1, <3>2
    <3> QED BY <2>2, <3>1, <3>3 DEF Carries, Carried
  <2> QED BY <2>1, <2>2 DEF Records, InFlight
<1>4. c \in Batch /\ c.age \in Nat
  BY <1>0, AgesNat DEF TypeOK
<1>5. h # NoHandoff /\ h \in Handoff /\ b.age \in Nat /\ exec[h].age \in Nat
  BY <1>0, <1>2, AgesNat DEF Whole, TypeOK, Batch
<1> QED BY <1>1, <1>2, <1>3, <1>4, <1>5 DEF Whole

LEMMA TickWhole ==
  ASSUME TypeOK, WholeInv, NEW s \in BundleOnly, Tick,
         NEW t \in Target, InFlight(batch'[s][t])
  PROVE  Whole(s, batch[s][t])'
<1> DEFINE b == batch[s][t]
<1> PICK h : h = b.handoff
  OBVIOUS
<1>0. s \in Session /\ b \in Batch
  BY HostAssumption DEF BundleOnly, TypeOK
<1>1. ASSUME NEW r \in Target
      PROVE  batch'[s][r] = IF InFlight(batch[s][r]) THEN [batch[s][r] EXCEPT !.age = Older(@)]
                            ELSE batch[s][r]
  BY <1>0 DEF Tick
<1>2. ASSUME NEW r \in Target
      PROVE  /\ InFlight(batch'[s][r]) = InFlight(batch[s][r])
             /\ batch'[s][r].handoff = batch[s][r].handoff
             /\ batch'[s][r].size = batch[s][r].size /\ batch'[s][r].lease = batch[s][r].lease
             /\ InFlight(batch[s][r]) => batch'[s][r].age = Older(batch[s][r].age)
  <2>1. batch[s][r] \in Batch
    BY <1>0 DEF TypeOK
  <2> QED BY <1>1, <2>1 DEF Batch, InFlight
<1>3. InFlight(b) /\ Whole(s, b)
  BY <1>2 DEF WholeInv
<1>4. h \in Handoff /\ b.age \in Nat /\ exec[h].age \in Nat /\ Stale \in Nat
  BY <1>0, <1>3, AgesNat DEF Whole, TypeOK, Batch
<1>5. exec'[h].state = "open" /\ exec'[h].age = Older(exec[h].age)
  BY <1>3, <1>4 DEF Tick, Whole, TypeOK
<1>6. Older(b.age) <= Older(exec[h].age) /\ (Older(exec[h].age) <= Stale => exec[h].age <= Stale)
  BY <1>3, <1>4 DEF Older, Whole
<1>7. Records(s, h)' = Records(s, h)
  BY <1>2 DEF Records, InFlight
<1> QED BY <1>2, <1>3, <1>5, <1>6, <1>7 DEF Whole

LEMMA ClaimWhole ==
  ASSUME TypeOK, NEW s \in BundleOnly, ClaimReminderBundle(s),
         NEW t \in Target, InFlight(batch'[s][t])
  PROVE  Whole(s, batch[s][t])'
<1> DEFINE c == BundleCells(s, Swept[s])
           m == Members(s, c)
           h == BundleHandoff(s, c)
           row == [u \in Target |-> IF u \in m THEN HandOff(c[u], h, Cardinality(m), NoLease)
                                   ELSE c[u]]
<1>0. s \in Session
  BY HostAssumption DEF BundleOnly
<1>1. /\ batch' = [Swept EXCEPT ![s] = row] /\ h \in Handoff /\ NothingInFlight(s)
      /\ exec' = [exec EXCEPT ![h] = [state |-> "open", age |-> 0]]
  BY Zenon DEF ClaimReminderBundle
<1>2. \A u \in Target : c[u] \in Batch
  BY <1>0, BundleCellsType, SweptType DEF Rows
<1>3. \A u \in Target : ~InFlight(c[u])
  BY <1>0, <1>1, BundleIdle
<1>4. ASSUME NEW u \in Target
      PROVE  /\ InFlight(batch'[s][u]) <=> u \in m
             /\ u \in m => /\ batch'[s][u].handoff = h /\ batch'[s][u].size = Cardinality(m)
                           /\ batch'[s][u].lease = NoLease /\ batch'[s][u].age = 0
  <2>1. batch'[s][u] = IF u \in m THEN HandOff(c[u], h, Cardinality(m), NoLease) ELSE c[u]
    <3>1. batch'[s] = row
      <4> HIDE DEF row
      <4> QED BY <1>0, <1>1, SweptType DEF Rows
    <3> QED BY <3>1
  <2> HIDE DEF c, h, m
  <2> QED BY <1>2, <1>3, <2>1 DEF HandOff, Batch, InFlight
<1>5. m \subseteq Target
  BY DEF Members
<1> HIDE DEF c, h, m, row
<1> PICK g, n : g = h /\ n = m
  OBVIOUS
<1>6. Records(s, g)' = n
  BY <1>4, <1>5 DEF Records, InFlight
<1>7. exec'[h] = [state |-> "open", age |-> 0] /\ h # NoHandoff
  BY <1>1, BoundAssumption DEF TypeOK, Handoff, NoHandoff
<1>8. exec'[h].age <= exec'[h].age /\ exec'[h].age = 0
  BY <1>7
<1> QED BY <1>4, <1>6, <1>7, <1>8 DEF Whole

LEMMA WholeStep ==
  ASSUME HandoffInv, WholeInv, Next
  PROVE  WholeInv'
<1> SUFFICES ASSUME NEW s \in BundleOnly, NEW t \in Target, InFlight(batch'[s][t])
             PROVE  Whole(s, batch[s][t])'
  BY DEF WholeInv, InFlight, BundleOnly
<1>0. TypeOK /\ TypeOK' /\ s \in Session
  BY HostAssumption, StepTypes DEF HandoffInv, BundleOnly
<1>1. Carries(s) \/ Clears(s) \/ ClaimReminderBundle(s) \/ Tick
  BY <1>0, HostCarries, SessionCarries, SubscriptionCarries, DaemonCarries DEF Next
<1> QED BY <1>0, <1>1, CarriesWhole, TickWhole, ClaimWhole DEF Clears

(* Whatever happens to the subscriptions of a session that bundles serve, a    *)
(* bundle it has in flight has as many rows as its claim handed over, until     *)
(* its execution is overdue.                                                    *)
THEOREM BundlesStayWhole == Spec => []BundleWhole
<1>1. Init => WholeInv
  <2> SUFFICES ASSUME Init PROVE WholeInv
    OBVIOUS
  <2>1. \A s \in BundleOnly, t \in Target : ~InFlight(batch[s][t])
    BY HostAssumption DEF Init, BundleOnly, NoBatch, InFlight
  <2> QED BY <2>1 DEF WholeInv
<1>2. WholeInv /\ UNCHANGED vars => WholeInv'
  BY DEF vars, WholeInv, Whole, Records, InFlight
<1>3. HandoffInv /\ WholeInv /\ [Next]_vars => WholeInv'
  BY <1>2, WholeStep
<1>4. WholeInv => BundleWhole
  BY DEF WholeInv, Whole, BundleWhole, BundleOnly
<1> QED BY <1>1, <1>3, <1>4, HandoffInvariant, PTL DEF Spec

-----------------------------------------------------------------------------
(* The refinement                                                            *)

(* The queue of a subscription r whose row is b *)
QueueOf(r, b) == [followed |-> r.state # "none", cursor |-> r.cursor,
                  offered  |-> IF InFlight(b) THEN b.evs ELSE {}]

-----------------------------------------------------------------------------
(* What a step does to a subscription, unless it confirms the row: nothing the *)
(* queue knows of, or it starts at an event logged, or it is forgotten.        *)

SubStep(r, q) ==
  \/ q.cursor = r.cursor /\ (q.state = "none" <=> r.state = "none")
  \/ r.state = "none" /\ q.state # "none" /\ q.cursor \in 0..Len(log)
  \/ q = NoSub

AllSubsStep == \A u \in Session, p \in PR : SubStep(sub[u][p], sub'[u][p])

(* The step confirms the rows T of s, which are in flight. *)
Confirms(s, T) ==
  /\ Confirm(s, T) /\ UNCHANGED log
  /\ \A t \in T : InFlight(batch[s][t]) /\ batch'[s][t] = NoBatch
  /\ \A u \in Session, t \in Target : u # s \/ t \notin T => Kept(batch[u][t], batch'[u][t])

(* Every cursor is at an event logged, or at 0. *)
CursorsLogged == \A s \in Session, p \in PR : sub[s][p].cursor <= Len(log)

LEMMA SubStepRefl == \A r : SubStep(r, r)
BY DEF SubStep

(* An acknowledgement, a settlement and the confirmation of the older hosts      *)
(* confirm what is in flight.                                                    *)
LEMMA BundleConfirms ==
  ASSUME TypeOK, NEW s \in Session, NEW h \in Handoff, AckReminderBundle(s, h, "confirmed")
  PROVE  Records(s, h) \in SUBSET Target /\ Confirms(s, Records(s, h))
<1>1. /\ Records(s, h) \in SUBSET Target /\ \A t \in Records(s, h) : InFlight(batch[s][t])
      /\ Confirm(s, Records(s, h)) /\ UNCHANGED log
      /\ batch' = [batch EXCEPT ![s] = [t \in Target |->
                     IF t \in Records(s, h) THEN NoBatch ELSE batch[s][t]]]
  BY DEF AckReminderBundle, Records
<1>2. \A u \in Session, t \in Target :
        batch'[u][t] = IF u = s /\ t \in Records(s, h) THEN NoBatch ELSE batch[u][t]
  BY <1>1 DEF TypeOK
<1> QED BY <1>1, <1>2, KeptSelf DEF Confirms

LEMMA SettlementConfirms ==
  ASSUME TypeOK, NEW s \in Session, NEW t \in Target, NEW h,
         SettleReminderClaim(s, t, h, "confirmed")
  PROVE  Confirms(s, {t})
<1>1. /\ batch' = [Swept EXCEPT ![s][t] = NoBatch] /\ InFlight(Swept[s][t])
      /\ Confirm(s, {t}) /\ UNCHANGED log
  BY DEF SettleReminderClaim, Settleable
<1>2. InFlight(batch[s][t])
  BY <1>1, SweptKept DEF Kept
<1>3. \A u \in Session, v \in Target :
        batch'[u][v] = IF u = s /\ v = t THEN NoBatch ELSE Swept[u][v]
  BY <1>1, SweptType DEF Rows
<1> QED BY <1>1, <1>2, <1>3, SweptKept DEF Confirms

LEMMA RowConfirms ==
  ASSUME TypeOK, NEW s \in Session, NEW t \in Target, InFlight(batch[s][t]),
         Confirm(s, {t}), UNCHANGED log, batch' = [batch EXCEPT ![s][t] = NoBatch]
  PROVE  Confirms(s, {t})
<1>1. \A u \in Session, v \in Target :
        batch'[u][v] = IF u = s /\ v = t THEN NoBatch ELSE batch[u][v]
  BY DEF TypeOK
<1> QED BY <1>1, KeptSelf DEF Confirms

LEMMA ClaudeConfirms ==
  ASSUME TypeOK, NEW s \in Session, ConfirmClaudeHandoff(s)
  PROVE  \E t \in Target : Confirms(s, {t})
<1>1. PICK t \in Target :
        /\ InFlight(batch[s][t])
        /\ IF batch[s][t].handoff # NoHandoff
           THEN SettleReminderClaim(s, t, batch[s][t].handoff, "confirmed")
           ELSE batch' = [batch EXCEPT ![s][t] = NoBatch] /\ Confirm(s, {t}) /\ UNCHANGED log
  BY Zenon DEF ConfirmClaudeHandoff, CurrentHandoff
<1> QED BY <1>1, SettlementConfirms, RowConfirms

(* Requests of hosts move a cursor only by confirming. *)
LEMMA HostSubs ==
  ASSUME TypeOK, HostNext
  PROVE  AllSubsStep \/ \E s \in Session, T \in SUBSET Target : Confirms(s, T)
<1> PICK s \in Session : HostNext!(s)
  BY Zenon DEF HostNext
<1>s. ASSUME UNCHANGED sub PROVE AllSubsStep
  BY <1>s, SubStepRefl DEF AllSubsStep
<1>t. ASSUME NEW t \in Target, Confirms(s, {t})
      PROVE  \E T \in SUBSET Target : Confirms(s, T)
  BY <1>t
<1>1. ASSUME NEW h \in Handoff, AckReminderBundle(s, h, "confirmed")
      PROVE  \E T \in SUBSET Target : Confirms(s, T)
  BY <1>1, BundleConfirms
<1>2. ASSUME NEW t \in Target, NEW h, SettleReminderClaim(s, t, h, "confirmed")
      PROVE  \E T \in SUBSET Target : Confirms(s, T)
  BY <1>2, <1>t, SettlementConfirms
<1>3. CASE ConfirmClaudeHandoff(s)
  BY <1>3, <1>t, ClaudeConfirms
<1>4. ASSUME NEW t \in Target, NEW o \in {"handed_off", "confirmed", "failed"}, AckReminder(s, t, o)
      PROVE  AllSubsStep \/ \E T \in SUBSET Target : Confirms(s, T)
  BY <1>4, <1>s, <1>t, RowConfirms DEF AckReminder
<1>5. ASSUME NEW h \in Handoff, AckReminderBundle(s, h, "failed")
      PROVE  AllSubsStep
  BY <1>5, <1>s DEF AckReminderBundle
<1>6. ASSUME NEW t \in Target, NEW h, SettleReminderClaim(s, t, h, "failed")
      PROVE  AllSubsStep
  BY <1>6, <1>s DEF SettleReminderClaim
<1>7. CASE ClaimReminderBundle(s)
  BY <1>7, <1>s DEF ClaimReminderBundle
<1>8. ASSUME NEW lease, ClaimReminder(s, lease) PROVE AllSubsStep
  BY <1>8, <1>s DEF ClaimReminder
<1>9. CASE GetPendingReminder(s)
  BY <1>9, <1>s DEF GetPendingReminder
<1> QED BY <1>1, <1>2, <1>3, <1>4, <1>5, <1>6, <1>7, <1>8, <1>9

LEMMA DeactivatedStep ==
  ASSUME TypeOK, NEW s \in Session, NEW p \in PR
  PROVE  SubStep(sub[s][p], Deactivated(s)[p])
<1>1. sub[s][p] \in Sub
  BY DEF TypeOK
<1> QED BY <1>1 DEF SubStep, Deactivated, Automatic, Sub

LEMMA HighWaterLogged ==
  ASSUME TypeOK, NEW p \in PR
  PROVE  HighWater(p) \in 0..Len(log)
<1> DEFINE S == After(log, p, 0)
<1>1. log \in Seq(PR)
  BY DEF TypeOK
<1>2. IsFiniteSet(S) /\ S \in SUBSET Nat
  BY <1>1, AfterFinite
<1>3. S # {} => Latest(S) \in S
  BY <1>2, LatestIsGreatest
<1>4. \A i \in S : i \in 1..Len(log)
  BY <1>1 DEF After
<1> QED BY <1>1, <1>3, <1>4 DEF HighWater

(* Without hosts, a subscription keeps its cursor, starts or is forgotten. *)
LEMMA OtherSubs ==
  ASSUME TypeOK, CursorsLogged, SessionNext \/ SubscriptionNext \/ DaemonNext
  PROVE  AllSubsStep
<1>s. ASSUME UNCHANGED sub PROVE AllSubsStep
  BY <1>s, SubStepRefl DEF AllSubsStep
<1>d. ASSUME NEW s \in Session,
             \/ sub' = [sub EXCEPT ![s] = Deactivated(s)]
             \/ sub' = [sub EXCEPT ![s] = [p \in PR |-> NoSub]]
      PROVE  AllSubsStep
  <2>1. ASSUME NEW u \in Session, NEW p \in PR PROVE SubStep(sub[u][p], sub'[u][p])
    <3>1. sub'[u] = sub[u] \/ sub'[u] = Deactivated(u) \/ sub'[u] = [r \in PR |-> NoSub]
      <4>1. sub \in [Session -> [PR -> Sub]]
        BY DEF TypeOK
      <4> QED BY <1>d, <4>1, Zenon
    <3>2. SubStep(sub[u][p], NoSub)
      BY DEF SubStep
    <3> QED BY <3>1, <3>2, SubStepRefl, DeactivatedStep
  <2> QED BY <2>1 DEF AllSubsStep
<1>r. ASSUME NEW X, NEW P, Reject(X, P) PROVE AllSubsStep
  BY <1>r, SubStepRefl, DeactivatedStep DEF Reject, AllSubsStep
<1>1. ASSUME NEW s \in Session, NEW q, NEW changed \in BOOLEAN, NEW pause,
             EnsureSessionControl(s, q, changed, pause)
      PROVE  AllSubsStep
  BY <1>1, <1>s, <1>d DEF EnsureSessionControl
<1>2. ASSUME NEW s \in Session,
             \/ RegisterSession(s) \/ Revive(s) \/ Detach(s) \/ Close(s) \/ PrunePause(s)
             \/ \E pause \in BOOLEAN : SetSessionPaused(s, pause)
      PROVE  AllSubsStep
  BY <1>2, <1>s DEF RegisterSession, Revive, Detach, Close, SetSessionPaused, PrunePause
<1>3. ASSUME NEW s \in Session, PruneClosedSession(s) PROVE AllSubsStep
  BY <1>3, <1>d DEF PruneClosedSession
<1>4. CASE SessionNext
  BY <1>1, <1>2, <1>3, <1>4, Zenon DEF SessionNext
<1>5. ASSUME NEW s \in Session, NEW p \in PR, Subscribe(s, p)
      PROVE  AllSubsStep
  <2>1. sub' = [sub EXCEPT ![s][p] = [sub[s][p] EXCEPT !.state = "active", !.source = "manual"]]
    BY <1>5 DEF Subscribe, TypeOK
  <2>2. SubStep(sub[s][p], [sub[s][p] EXCEPT !.state = "active", !.source = "manual"])
    BY DEF SubStep, TypeOK, Sub, CursorsLogged
  <2> QED BY <2>1, <2>2, SubStepRefl DEF AllSubsStep, TypeOK
<1>6. ASSUME NEW s \in Session, NEW p \in PR, Unsubscribe(s, p)
      PROVE  AllSubsStep
  <2>1. sub[s][p].state # "none" /\ sub[s][p] \in Sub
        /\ sub' = [sub EXCEPT ![s][p] = [sub[s][p] EXCEPT !.state = "unsubscribed"]]
    BY <1>6 DEF Unsubscribe, TypeOK
  <2>2. SubStep(sub[s][p], [sub[s][p] EXCEPT !.state = "unsubscribed"])
    BY <2>1 DEF SubStep, Sub
  <2> QED BY <2>1, <2>2, SubStepRefl DEF AllSubsStep, TypeOK
<1>7. ASSUME NEW s \in Session, NEW p \in PR, PruneSubscription(s, p)
      PROVE  AllSubsStep
  <2>1. sub' = [sub EXCEPT ![s][p] = NoSub]
    BY <1>7 DEF PruneSubscription
  <2>2. SubStep(sub[s][p], NoSub)
    BY DEF SubStep
  <2> QED BY <2>1, <2>2, SubStepRefl DEF AllSubsStep, TypeOK
<1>8. ASSUME NEW s \in Session, NEW D, NEW B, ActivateWorktree(s, D, B)
      PROVE  AllSubsStep
  BY <1>8, <1>d DEF ActivateWorktree
<1>9. ASSUME NEW p \in PR, NEW F, NEW S, NEW W, NEW n, DiscoverPullRequest(p, F, S, W, n)
      PROVE  AllSubsStep
  <2>1. ASSUME NEW u \in Session, NEW q \in PR PROVE SubStep(sub[u][q], sub'[u][q])
    <3> DEFINE r == IF u \in W THEN Deactivated(u) ELSE sub[u]
    <3>1. /\ r \in [PR -> Sub] /\ SubStep(sub[u][q], r[q])
          /\ r[q].state = "none" <=> sub[u][q].state = "none"
          /\ r[q].cursor = sub[u][q].cursor
      <4>1. sub[u] \in [PR -> Sub] /\ Deactivated(u) \in [PR -> Sub]
        BY DeactivatedType DEF TypeOK
      <4>2. /\ Deactivated(u)[q].state = "none" <=> sub[u][q].state = "none"
            /\ Deactivated(u)[q].cursor = sub[u][q].cursor
        BY <4>1 DEF Deactivated, Automatic, Sub
      <4> QED BY <4>1, <4>2, SubStepRefl, DeactivatedStep
    <3>2. sub'[u] = IF u \in S THEN [r EXCEPT ![p] = Baselined(u, p, @)] ELSE r
      BY <1>9 DEF DiscoverPullRequest
    <3> HIDE DEF r
    <3>3. SubStep(sub[u][p], Baselined(u, p, r[p])) \/ q # p
      BY <3>1, HighWaterLogged DEF Baselined, SubStep
    <3> QED BY <3>1, <3>2, <3>3
  <2> QED BY <2>1 DEF AllSubsStep
<1>10. CASE SubscriptionNext
  <2>1. ASSUME NEW s \in Session, NEW p \in PR, RejectPullRequest(s, p) PROVE AllSubsStep
    BY <2>1, <1>r, Zenon DEF RejectPullRequest
  <2> QED BY <1>5, <1>6, <1>7, <1>8, <1>9, <1>10, <2>1 DEF SubscriptionNext
<1>11. CASE DaemonNext
  <2>1. ASSUME NEW X, SuspendAutomaticSubscriptions(X) PROVE AllSubsStep
    BY <2>1, <1>r, Zenon DEF SuspendAutomaticSubscriptions
  <2>2. ASSUME NEW p, NEW n, NEW changed, NEW B, Poll(p, n, changed, B) PROVE AllSubsStep
    BY <2>2, <1>s DEF Poll
  <2>3. ASSUME NEW D, NEW B, ResetInferredSubscriptionPolicies(D, B) PROVE AllSubsStep
    BY <2>3, <1>s DEF ResetInferredSubscriptionPolicies
  <2>4. ASSUME NEW X, RecoverFromRestart(X) PROVE AllSubsStep
    BY <2>4, <1>s DEF RecoverFromRestart
  <2>5. CASE ExpireStaleHandoffs \/ Tick \/ Crash
    BY <2>5, <1>s DEF ExpireStaleHandoffs, Tick, Crash
  <2> QED BY <1>11, <2>1, <2>2, <2>3, <2>4, <2>5, Zenon DEF DaemonNext
<1> QED BY <1>4, <1>10, <1>11

-----------------------------------------------------------------------------
(* What a step does to a row that it hands over.                               *)

(* A row in flight comes out of the sweep with its events, handed off or failed. *)
LEMMA SweptInFlight ==
  ASSUME TypeOK, PrefixRows, NEW s \in Session, NEW p \in PR, InFlight(batch[s][p])
  PROVE  /\ Swept[s][p].evs = batch[s][p].evs
         /\ InFlight(Swept[s][p]) \/ Queued(Swept[s][p])
<1> DEFINE b == batch[s][p]
<1>1. p \in Target /\ b \in Batch /\ ~b.canceled
  BY DEF TypeOK, PrefixRows, PrefixAt, PrefixRow, InFlight, Target
<1>2. Swept[s][p] = SweptCell(b)
  BY <1>1 DEF Swept
<1>3. Expire(b) = b \/ Expire(b) = Released(b) \/ Expire(b) = [b EXCEPT !.state = "failed", !.age = 0]
  BY DEF Expire
<1> HIDE DEF b
<1>4. SweptCell(b).evs = b.evs /\ (InFlight(SweptCell(b)) \/ Queued(SweptCell(b)))
  <2>1. \A c \in {b, Released(b), [b EXCEPT !.state = "failed", !.age = 0]} :
          /\ c.evs = b.evs /\ c.canceled = b.canceled
          /\ c = b \/ Queued(c)
    BY <1>1 DEF Released, Queued, Batch
  <2>2. SweptCell(b) = Expire(b)
    BY <1>1, <1>3, <2>1 DEF SweptCell
  <2>3. InFlight(b)
    BY DEF b
  <2> QED BY <1>3, <2>1, <2>2, <2>3
<1> QED BY <1>2, <1>4 DEF b

(* The row of u and p is kept or handed over; if it was in flight, with its events. *)
HandedOver(u, p) ==
  \/ Kept(batch[u][p], batch'[u][p])
  \/ InFlight(batch'[u][p]) /\ (InFlight(batch[u][p]) => batch'[u][p].evs = batch[u][p].evs)

LEMMA BundleHanded ==
  ASSUME TypeOK, PrefixRows, NEW s \in Session, ClaimReminderBundle(s)
  PROVE  \A u \in Session, p \in PR : HandedOver(u, p)
<1> SUFFICES ASSUME NEW u \in Session, NEW p \in PR PROVE HandedOver(u, p)
  OBVIOUS
<1> DEFINE c == BundleCells(s, Swept[s])
           m == Members(s, c)
           h == BundleHandoff(s, c)
           row == [t \in Target |-> IF t \in m THEN HandOff(c[t], h, Cardinality(m), NoLease)
                                   ELSE c[t]]
<1>1. batch' = [Swept EXCEPT ![s] = row] /\ NothingInFlight(s)
  BY Zenon DEF ClaimReminderBundle
<1>2. p \in Target /\ p # Legacy /\ Kept(batch[s][p], c[p]) /\ c[p] \in Batch
  <2>1. p \in Target /\ p # Legacy
    BY NameAssumption DEF Target
  <2>2. Swept[s] \in [Target -> Batch]
    BY SweptType DEF Rows
  <2> QED BY <2>1, <2>2, BundleCellsKept, BundleCellsType
<1>3. InFlight(batch[s][p]) => c[p].evs = batch[s][p].evs
  <2> SUFFICES ASSUME InFlight(batch[s][p]) PROVE c[p].evs = batch[s][p].evs
    OBVIOUS
  <2>1. Swept[s][p].evs = batch[s][p].evs /\ Queued(Swept[s][p])
    BY <1>1, <1>2, SweptInFlight DEF NothingInFlight
  <2>2. BuildCell(log, s, p, Swept[s][p]) = Swept[s][p]
    BY <2>1 DEF BuildCell
  <2>3. c[p] = Swept[s][p]
    BY <1>2, <2>2 DEF BundleCells
  <2> QED BY <2>1, <2>3
<1>4. HandOff(c[p], h, Cardinality(m), NoLease).evs = c[p].evs
      /\ InFlight(HandOff(c[p], h, Cardinality(m), NoLease))
  <2> HIDE DEF c, h, m
  <2> QED BY <1>2 DEF HandOff, InFlight, Batch
<1>5. CASE u = s
  <2>1. batch'[s][p] = row[p]
    <3> HIDE DEF row
    <3> QED BY <1>1, SweptType DEF Rows
  <2>2. batch'[s][p] = c[p] \/ batch'[s][p] = HandOff(c[p], h, Cardinality(m), NoLease)
    BY <1>2, <2>1
  <2> HIDE DEF c, h, m, row
  <2> QED BY <1>2, <1>3, <1>4, <1>5, <2>2 DEF HandedOver
<1>6. CASE u # s
  <2> HIDE DEF row
  <2>1. batch'[u][p] = Swept[u][p]
    BY <1>1, <1>6, SweptType DEF Rows
  <2> QED BY <1>2, <2>1, SweptKept DEF HandedOver
<1> QED BY <1>5, <1>6

LEMMA ReminderHanded ==
  ASSUME TypeOK, PrefixRows, NEW s \in Session, NEW lease, ClaimReminder(s, lease),
         sess[s].status = "active"
  PROVE  \A u \in Session, p \in PR : HandedOver(u, p)
<1> SUFFICES ASSUME NEW u \in Session, NEW p \in PR PROVE HandedOver(u, p)
  OBVIOUS
<1>1. PICK x \in Selectable(s, Swept[s]) :
        batch' = [Swept EXCEPT ![s][x.target] = HandOff(Retried(x.row), nextHandoff, 0, lease)]
  BY Zenon DEF ClaimReminder
<1>2. x.target \in Target /\ x.row \in Batch /\ Retried(x.row) \in Batch /\ Queued(x.row)
  BY SelectableKept, SelectableType, RetriedType, SweptType DEF Rows
<1>3. CASE u = s /\ p = x.target
  <2> DEFINE w == Swept[s]
             cell(t) == IF t = Legacy
                        THEN IF ActiveSubs(s) = {} THEN BuildLegacy(s, w[t]) ELSE w[t]
                        ELSE BuildCell(log, s, t, w[t])
             r == HandOff(Retried(x.row), nextHandoff, 0, lease)
  <2>1. x.row = w[p] \/ x.row = cell(p)
    <3>1. \E t \in Target : x = [target |-> t, row |-> w[t]] \/ x = [target |-> t, row |-> cell(t)]
      BY Zenon DEF Selectable
    <3> HIDE DEF cell, w
    <3> QED BY <1>3, <3>1
  <2>2. InFlight(batch[s][p]) => x.row.evs = batch[s][p].evs
    <3>1. InFlight(batch[s][p]) => w[p].evs = batch[s][p].evs /\ (InFlight(w[p]) \/ Queued(w[p]))
      BY SweptInFlight
    <3>2. x.row = w[p] \/ x.row = BuildCell(log, s, p, w[p])
      BY <2>1, NameAssumption
    <3> HIDE DEF w, cell
    <3> QED BY <3>1, <3>2 DEF BuildCell
  <2>3. r.evs = x.row.evs /\ InFlight(r)
    BY <1>2 DEF HandOff, Retried, Released, InFlight, Batch
  <2>4. batch'[s][p] = r
    <3> HIDE DEF w, cell
    <3> QED BY <1>1, <1>2, <1>3, SweptType DEF Rows
  <2> QED BY <1>3, <2>2, <2>3, <2>4 DEF HandedOver
<1>4. CASE ~(u = s /\ p = x.target)
  <2>1. p \in Target
    BY DEF Target
  <2>2. batch'[u][p] = Swept[u][p]
    BY <1>1, <1>2, <1>4, <2>1, SweptType DEF Rows
  <2> QED BY <2>1, <2>2, SweptKept DEF HandedOver
<1> QED BY <1>3, <1>4

LEMMA AckHanded ==
  ASSUME TypeOK, NEW s \in Session, NEW t \in Target, AckReminder(s, t, "handed_off")
  PROVE  \A u \in Session, p \in PR : HandedOver(u, p)
<1>1. /\ batch' = [batch EXCEPT ![s][t] = HandOff(@, NoHandoff, 0, NoLease)]
      /\ batch[s][t].state = "built"
  BY DEF AckReminder, HandOverAllowed
<1>2. batch \in Rows /\ \A p \in PR : p \in Target
  BY DEF TypeOK, Rows, Target
<1>3. InFlight(HandOff(batch[s][t], NoHandoff, 0, NoLease)) /\ ~InFlight(batch[s][t])
  BY <1>1, <1>2 DEF HandOff, InFlight, Batch, Rows
<1>4. ASSUME NEW u \in Session, NEW p \in PR PROVE HandedOver(u, p)
  <2>1. \/ batch'[u][p] = batch[u][p]
        \/ u = s /\ p = t /\ batch'[u][p] = HandOff(batch[s][t], NoHandoff, 0, NoLease)
    BY <1>1, <1>2 DEF Rows
  <2> QED BY <1>2, <1>3, <2>1, KeptSelf DEF HandedOver
<1> QED BY <1>4

(* A step keeps all rows, or it is a claim, which leaves the subscriptions alone. *)
LEMMA RowsStep ==
  ASSUME TypeOK, PrefixRows, Next
  PROVE  \/ AllKept
         \/ UNCHANGED <<log, sub>> /\ \A u \in Session, p \in PR : HandedOver(u, p)
<1>1. ASSUME NEW s \in Session, ClaimReminderBundle(s) PROVE UNCHANGED <<log, sub>>
  BY <1>1 DEF ClaimReminderBundle
<1>2. ASSUME NEW s \in Session, NEW lease, ClaimReminder(s, lease) PROVE UNCHANGED <<log, sub>>
  BY <1>2 DEF ClaimReminder
<1>3. ASSUME NEW s \in Session, NEW t \in Target, AckReminder(s, t, "handed_off")
      PROVE  UNCHANGED <<log, sub>>
  BY <1>3 DEF AckReminder
<1> QED BY <1>1, <1>2, <1>3, StepCases, BundleHanded, ReminderHanded, AckHanded

(* The event log only grows. *)
LEMMA LogStep ==
  ASSUME TypeOK, Next
  PROVE  Extends(log, log')
<1>0. UNCHANGED log => Extends(log, log')
  BY SameRefl DEF TypeOK
<1>1. CASE HostNext
  <2>1. ASSUME NEW s, \/ ClaimReminderBundle(s) \/ GetPendingReminder(s)
                     \/ \E lease : ClaimReminder(s, lease)
                     \/ \E h, outcome : AckReminderBundle(s, h, outcome)
                     \/ \E t, state : AckReminder(s, t, state)
        PROVE  UNCHANGED log
    BY <2>1, Zenon DEF ClaimReminderBundle, GetPendingReminder, ClaimReminder, AckReminderBundle,
                       AckReminder
  <2>2. ASSUME NEW s, NEW t, NEW h, NEW outcome, SettleReminderClaim(s, t, h, outcome)
        PROVE  UNCHANGED log
    BY <2>2, Zenon DEF SettleReminderClaim
  <2>3. ASSUME NEW s, ConfirmClaudeHandoff(s) PROVE UNCHANGED log
    BY <2>2, <2>3, Zenon DEF ConfirmClaudeHandoff
  <2> QED BY <1>0, <1>1, <2>1, <2>2, <2>3, Zenon DEF HostNext
<1>2. CASE SessionNext
  BY <1>0, <1>2 DEF SessionNext, RegisterSession, EnsureSessionControl, Revive, Detach, Close,
       PruneClosedSession, SetSessionPaused, PrunePause
<1>3. CASE SubscriptionNext
  <2>1. ASSUME NEW p \in PR, NEW F, NEW S, NEW W, NEW n \in {0, 1}, DiscoverPullRequest(p, F, S, W, n)
        PROVE  Extends(log, log')
    BY <2>1, ExtendedExtends DEF DiscoverPullRequest, TypeOK
  <2> QED BY <1>0, <1>3, <2>1 DEF SubscriptionNext, Subscribe, Unsubscribe, PruneSubscription,
               RejectPullRequest, ActivateWorktree
<1>4. CASE DaemonNext
  <2>1. ASSUME NEW p \in PR, NEW n \in 0..MaxPerPoll, NEW changed, NEW B, Poll(p, n, changed, B)
        PROVE  Extends(log, log')
    BY <2>1, ExtendedExtends DEF Poll, TypeOK
  <2> QED BY <1>0, <1>4, <2>1 DEF DaemonNext, SuspendAutomaticSubscriptions,
               ResetInferredSubscriptionPolicies, RecoverFromRestart, ExpireStaleHandoffs, Tick, Crash
<1> QED BY <1>1, <1>2, <1>3, <1>4 DEF Next

-----------------------------------------------------------------------------
(* Steps of one queue                                                          *)

(* A row kept while its subscription makes a step: the offer stays or is        *)
(* withdrawn, the queue starts or is forgotten.                                 *)
LEMMA KeptQueue ==
  ASSUME NEW p \in PR, NEW r, NEW q, NEW b, NEW c, SubStep(r, q), Kept(b, c),
         PrefixRow(log, p, r, b), PrefixRow(log', p, q, c)
  PROVE  Delivery!QueueStep(p, QueueOf(r, b), QueueOf(q, c))
<1> DEFINE x == QueueOf(r, b)
           y == QueueOf(q, c)
<1>1. /\ InFlight(b) => r.state # "none"
      /\ InFlight(c) => q.state # "none"
  BY DEF PrefixRow, InFlight
<1>2. y.offered = x.offered \/ y.offered = {}
  BY DEF Kept, QueueOf
<1>3. CASE q.cursor = r.cursor /\ (q.state = "none" <=> r.state = "none")
  <2>1. y = x \/ y = [x EXCEPT !.offered = {}]
    BY <1>2, <1>3 DEF QueueOf
  <2> QED BY <2>1 DEF Delivery!QueueStep, Delivery!Stay, Delivery!Withdraw
<1>4. CASE r.state = "none" /\ q.state # "none" /\ q.cursor \in 0..Len(log)
  <2>1. ~InFlight(c)
    BY <1>1, <1>4 DEF Kept
  <2>2. ~x.followed /\ y = [followed |-> TRUE, cursor |-> q.cursor, offered |-> {}]
    BY <1>4, <2>1 DEF QueueOf
  <2> QED BY <1>4, <2>2 DEF Delivery!QueueStep, Delivery!Follow
<1>5. CASE q = NoSub
  <2>1. ~InFlight(c)
    BY <1>1, <1>5 DEF NoSub
  <2>2. y = [followed |-> FALSE, cursor |-> 0, offered |-> {}]
    BY <1>5, <2>1 DEF QueueOf, NoSub
  <2> QED BY <2>2 DEF Delivery!QueueStep, Delivery!Forget, Delivery!Unfollowed
<1> QED BY <1>3, <1>4, <1>5 DEF SubStep

(* A row handed over under an unmoved cursor: an offer of what follows it.      *)
LEMMA OfferedQueue ==
  ASSUME NEW p \in PR, NEW r, NEW b, NEW c, InFlight(c), InFlight(b) => c.evs = b.evs,
         PrefixRow(log, p, r, c)
  PROVE  Delivery!QueueStep(p, QueueOf(r, b), QueueOf(r, c))
<1> DEFINE x == QueueOf(r, b)
           y == QueueOf(r, c)
<1>1. CASE InFlight(b)
  <2>1. y = x
    BY <1>1 DEF QueueOf
  <2> QED BY <2>1 DEF Delivery!QueueStep, Delivery!Stay
<1>2. CASE ~InFlight(b)
  <2>1. r.state # "none" /\ c.upto \in c.evs /\ c.evs = {i \in After(log, p, r.cursor) : i <= c.upto}
    BY DEF PrefixRow, InFlight
  <2>2. Delivery!Waiting(p, r.cursor) = After(log, p, r.cursor)
    BY DEF Delivery!Waiting, After
  <2>3. x.followed /\ x.offered = {} /\ x.cursor = r.cursor
    BY <1>2, <2>1 DEF QueueOf
  <2>4. y = [x EXCEPT !.offered = c.evs]
    BY DEF QueueOf
  <2>5. /\ c.upto \in Delivery!Waiting(p, x.cursor)
        /\ y = [x EXCEPT !.offered = {i \in Delivery!Waiting(p, x.cursor) : i <= c.upto}]
    <3> HIDE DEF x, y
    <3> QED BY <2>1, <2>2, <2>3, <2>4
  <2>6. Delivery!Offer(p, x, y)
    <3> HIDE DEF x, y
    <3> QED BY <2>3, <2>5 DEF Delivery!Offer
  <2> QED BY <2>6 DEF Delivery!QueueStep
<1> QED BY <1>1, <1>2

(* A row confirmed: the cursor moves to the last event offered.                 *)
LEMMA ConfirmedQueue ==
  ASSUME NEW p \in PR, NEW r \in Sub, NEW q, NEW b \in Batch, log \in Seq(PR),
         InFlight(b), PrefixRow(log, p, r, b),
         q.state = r.state, q.cursor = IF r.cursor < b.upto THEN b.upto ELSE r.cursor
  PROVE  /\ Delivery!QueueStep(p, QueueOf(r, b), QueueOf(q, NoBatch))
         /\ b.upto \in 1..Len(log) /\ q.cursor = b.upto
<1> DEFINE x == QueueOf(r, b)
           y == QueueOf(q, NoBatch)
<1>1. r.state # "none" /\ b.upto \in b.evs /\ b.evs = {i \in After(log, p, r.cursor) : i <= b.upto}
  BY DEF PrefixRow, InFlight
<1>2. b.upto > r.cursor /\ b.upto \in 1..Len(log)
  BY <1>1 DEF After
<1>3. q.cursor = b.upto
  BY <1>2 DEF Sub, Batch
<1>4. x.offered = b.evs /\ y = [followed |-> TRUE, cursor |-> b.upto, offered |-> {}]
  BY <1>1, <1>3 DEF QueueOf, InFlight, NoBatch
<1>5. Delivery!Confirm(x, y)
  <2> HIDE DEF x, y
  <2> QED BY <1>1, <1>4 DEF Delivery!Confirm
<1> QED BY <1>2, <1>3, <1>5 DEF Delivery!QueueStep

-----------------------------------------------------------------------------
(* The steps of the store, whose invariant is PrefixInv with CursorsLogged.    *)

(* Every queue makes a step of its own. *)
AllQueuesStep ==
  \A s \in Session, p \in PR :
    Delivery!QueueStep(p, QueueOf(sub[s][p], batch[s][p]), QueueOf(sub'[s][p], batch'[s][p]))

LEMMA ConfirmedStep ==
  ASSUME TypeOK, PrefixRows, PrefixRows', CursorsLogged,
         NEW s \in Session, NEW T \in SUBSET Target, Confirms(s, T)
  PROVE  AllQueuesStep /\ CursorsLogged'
<1>1. ASSUME NEW u \in Session, NEW p \in PR
      PROVE  /\ Delivery!QueueStep(p, QueueOf(sub[u][p], batch[u][p]), QueueOf(sub'[u][p], batch'[u][p]))
             /\ sub'[u][p].cursor <= Len(log)
  <2>0. /\ p \in Target /\ log \in Seq(PR) /\ sub[u][p] \in Sub /\ batch[u][p] \in Batch
        /\ PrefixRow(log, p, sub[u][p], batch[u][p])
        /\ PrefixRow(log', p, sub'[u][p], batch'[u][p])
        /\ sub[u][p].cursor <= Len(log)
    BY DEF TypeOK, Target, PrefixRows, PrefixAt, CursorsLogged
  <2>1. CASE u = s /\ p \in T
    <3>1. InFlight(batch[u][p]) /\ batch'[u][p] = NoBatch
      BY <2>1 DEF Confirms
    <3>2. /\ sub'[u][p].state = sub[u][p].state
          /\ sub'[u][p].cursor = IF sub[u][p].cursor < batch[u][p].upto
                                 THEN batch[u][p].upto ELSE sub[u][p].cursor
      <4>1. sub'[u][p] = IF sub[u][p].cursor < batch[u][p].upto
                         THEN [sub[u][p] EXCEPT !.cursor = batch[u][p].upto] ELSE sub[u][p]
        BY <2>1 DEF Confirms, Confirm, Raised, TypeOK
      <4> QED BY <2>0, <4>1 DEF Sub
    <3>3. /\ Delivery!QueueStep(p, QueueOf(sub[u][p], batch[u][p]), QueueOf(sub'[u][p], NoBatch))
          /\ batch[u][p].upto \in 1..Len(log) /\ sub'[u][p].cursor = batch[u][p].upto
      BY <2>0, <3>1, <3>2, ConfirmedQueue
    <3> QED BY <2>0, <3>1, <3>3
  <2>2. CASE ~(u = s /\ p \in T)
    <3>1. sub'[u][p] = sub[u][p]
      BY <2>2 DEF Confirms, Confirm, Raised, TypeOK
    <3>2. Kept(batch[u][p], batch'[u][p])
      BY <2>0, <2>2 DEF Confirms
    <3> QED BY <2>0, <3>1, <3>2, KeptQueue, SubStepRefl
  <2> QED BY <2>1, <2>2
<1>2. UNCHANGED log
  BY DEF Confirms
<1> QED BY <1>1, <1>2 DEF AllQueuesStep, CursorsLogged

LEMMA UnconfirmedStep ==
  ASSUME TypeOK, TypeOK', PrefixRows, PrefixRows', CursorsLogged, Extends(log, log'), AllSubsStep,
         \/ AllKept
         \/ UNCHANGED <<log, sub>> /\ \A u \in Session, p \in PR : HandedOver(u, p)
  PROVE  AllQueuesStep /\ CursorsLogged'
<1>1. ASSUME NEW u \in Session, NEW p \in PR
      PROVE  /\ Delivery!QueueStep(p, QueueOf(sub[u][p], batch[u][p]), QueueOf(sub'[u][p], batch'[u][p]))
             /\ sub'[u][p].cursor <= Len(log')
  <2>0. /\ p \in Target /\ SubStep(sub[u][p], sub'[u][p])
        /\ PrefixRow(log, p, sub[u][p], batch[u][p])
        /\ PrefixRow(log', p, sub'[u][p], batch'[u][p])
    BY DEF Target, PrefixRows, PrefixAt, AllSubsStep
  <2>1. sub'[u][p].cursor <= Len(log')
    <3>1. /\ sub[u][p].cursor \in Nat /\ sub[u][p].cursor <= Len(log)
          /\ Len(log) \in Nat /\ Len(log') \in Nat /\ Len(log) <= Len(log')
      BY DEF TypeOK, Sub, CursorsLogged, Extends
    <3> QED BY <2>0, <3>1 DEF SubStep, NoSub
  <2>2. CASE Kept(batch[u][p], batch'[u][p])
    BY <2>0, <2>1, <2>2, KeptQueue
  <2>3. CASE UNCHANGED <<log, sub>> /\ HandedOver(u, p) /\ ~Kept(batch[u][p], batch'[u][p])
    <3>1. /\ InFlight(batch'[u][p])
          /\ InFlight(batch[u][p]) => batch'[u][p].evs = batch[u][p].evs
          /\ sub'[u][p] = sub[u][p] /\ PrefixRow(log, p, sub[u][p], batch'[u][p])
      BY <2>0, <2>3 DEF HandedOver
    <3> QED BY <2>1, <3>1, OfferedQueue
  <2> QED BY <2>0, <2>2, <2>3 DEF AllKept
<1> QED BY <1>1 DEF AllQueuesStep, CursorsLogged

LEMMA DeliveryStep ==
  ASSUME TypeOK, PrefixInv, PrefixInv', CursorsLogged, Next
  PROVE  AllQueuesStep /\ Extends(log, log') /\ CursorsLogged'
<1>1. TypeOK' /\ PrefixRows /\ PrefixRows' /\ Extends(log, log')
  BY LogStep DEF PrefixInv
<1>2. AllSubsStep \/ \E s \in Session, T \in SUBSET Target : Confirms(s, T)
  BY HostSubs, OtherSubs DEF Next
<1> QED BY <1>1, <1>2, RowsStep, ConfirmedStep, UnconfirmedStep

(* However claims, retries, polls, rejections, restarts and re-subscriptions   *)
(* interleave, each step of the store is a step of the delivery queues.         *)
THEOREM DeliveryImplemented == Spec => ImplementsDelivery
<1>1. Init => CursorsLogged /\ Delivery!DeliveryInit
  <2> SUFFICES ASSUME Init PROVE CursorsLogged /\ Delivery!DeliveryInit
    OBVIOUS
  <2>1. CursorsLogged
    BY DEF Init, CursorsLogged, NoSub
  <2>2. ASSUME NEW s \in Session, NEW p \in PR PROVE Queue(s, p) = Delivery!Unfollowed
    BY DEF Init, Queue, NoSub, NoBatch, InFlight, Delivery!Unfollowed, Target
  <2> QED BY <2>1, <2>2 DEF Init, Delivery!DeliveryInit
<1>2. TypeOK /\ PrefixInv /\ PrefixInv' /\ CursorsLogged /\ [Next]_vars
        => CursorsLogged' /\ [Delivery!DeliveryNext]_(Delivery!deliveryVars)
  <2> SUFFICES ASSUME TypeOK, PrefixInv, PrefixInv', CursorsLogged, [Next]_vars
               PROVE  CursorsLogged' /\ [Delivery!DeliveryNext]_(Delivery!deliveryVars)
    OBVIOUS
  <2>1. CASE UNCHANGED vars
    BY <2>1 DEF vars, CursorsLogged, Delivery!deliveryVars, Queue
  <2>2. CASE Next
    <3>1. AllQueuesStep /\ Extends(log, log') /\ CursorsLogged'
      BY <2>2, DeliveryStep
    <3>2. Delivery!Publish
      BY <3>1 DEF Extends, Delivery!Publish, TypeOK
    <3>3. ASSUME NEW s \in Session, NEW p \in PR
          PROVE  Delivery!QueueStep(p, Queue(s, p), Queue(s, p)')
      BY <3>1 DEF AllQueuesStep, QueueOf, Queue
    <3> QED BY <3>1, <3>2, <3>3 DEF Delivery!DeliveryNext
  <2> QED BY <2>1, <2>2
<1> QED BY <1>1, <1>2, TypeCorrect, PrefixInvariant, PTL DEF Spec, ImplementsDelivery, Delivery!DeliverySpec
-----------------------------------------------------------------------------
(* The Claude hooks                                                          *)


Phase == {"idle", "touched", "claimed", "stored", "confirmed"}

HookTypes ==
  /\ entry \in [Session -> Handoff \cup {NoHandoff}]
  /\ hook \in [Session -> [phase: Phase, handoff: Handoff \cup {NoHandoff}, events: SUBSET Nat]]
  /\ continuing \in [Session -> BOOLEAN]
  /\ shown \in [Session -> SUBSET Nat]

(* The sessions of these hooks follow pull requests through subscriptions only *)
NoLegacy == \A s \in Session : sess[s].pr = NoPR /\ batch[s][Legacy].state = "none"

StoreInv == PrefixInv /\ CursorsLogged /\ NoLegacy

-----------------------------------------------------------------------------
(* What is known of one session                                              *)

(* What the session has in flight under h is among the events E *)
Handed(s, h, E) ==
  \A t \in Target : InFlight(batch[s][t]) /\ batch[s][t].handoff = h => batch[s][t].evs \subseteq E

Unconfirmed(s, E) == \A i \in E : i \in DOMAIN log /\ i > sub[s][log[i]].cursor

(* The hook has a reminder it has not written yet *)
Holds(s) == At(s, "claimed") \/ At(s, "stored")

HoldsWhatIsHanded(s) ==
  /\ Holds(s) => /\ ~continuing[s] /\ hook[s].handoff # NoHandoff
                 /\ Handed(s, hook[s].handoff, hook[s].events)
                 /\ Unconfirmed(s, hook[s].events)
  /\ At(s, "stored") => entry[s] = hook[s].handoff

(* The next Stop event has stop_hook_active only if what the file names was shown *)
ContinuesWhatIsShown(s) == continuing[s] => entry[s] # NoHandoff /\ Handed(s, entry[s], shown[s])

HookInv(s) ==
  /\ HoldsWhatIsHanded(s)
  /\ s \notin others => ContinuesWhatIsShown(s) /\ ShownUpToCursor(s)

ClaudeInv == HookTypes /\ StoreInv /\ \A s \in Session : HookInv(s)

-----------------------------------------------------------------------------
(* The store under the hooks                                                 *)

(* The step leaves the session's cursors, and of its rows and events what was there *)
QuietFor(s) ==
  /\ \A t \in Target : Kept(batch[s][t], batch'[s][t])
  /\ \A p \in PR : sub'[s][p].cursor = sub[s][p].cursor
  /\ Extends(log, log')

LEMMA StoreStep ==
  ASSUME PrefixInv, CursorsLogged, Next
  PROVE  PrefixInv' /\ CursorsLogged' /\ Extends(log, log')
<1>1. TypeOK /\ PrefixRows /\ TypeOK'
  BY StepTypes DEF PrefixInv
<1>2. PrefixInv'
  BY <1>1, HostPrefix, SessionPrefix, SubscriptionPrefix, DaemonPrefix DEF Next, PrefixInv
<1> QED BY <1>1, <1>2, DeliveryStep

LEMMA UnchangedStore ==
  ASSUME StoreInv, UNCHANGED vars
  PROVE  StoreInv' /\ \A s \in Session : QuietFor(s)
<1>1. StoreInv'
  BY DEF StoreInv, PrefixInv, TypeOK, PrefixRows, PrefixAt, PrefixRow, CursorsLogged, NoLegacy, After, vars
<1>2. Extends(log, log')
  BY SameRefl DEF vars, StoreInv, PrefixInv, TypeOK
<1>3. ASSUME NEW s \in Session PROVE QuietFor(s)
  BY <1>2, KeptSelf DEF QuietFor, vars, StoreInv, PrefixInv
<1> QED BY <1>1, <1>3

(* The row that is not there is not swept, aged or built *)
LEMMA NoneSwept ==
  ASSUME StoreInv, NEW s \in Session
  PROVE  Legacy \in Target /\ Swept[s][Legacy] = batch[s][Legacy]
<1>1. Legacy \in Target /\ batch[s][Legacy].state = "none"
  BY DEF Target, StoreInv, NoLegacy
<1>2. SweptCell(batch[s][Legacy]) = batch[s][Legacy]
  BY <1>1 DEF SweptCell, Expire, Stalled, InFlight
<1> QED BY <1>1, <1>2 DEF Swept

LEMMA ReviveQuiet ==
  ASSUME StoreInv, NEW s \in Session, Revive(s) \/ Close(s)
  PROVE  StoreInv' /\ \A u \in Session : QuietFor(u)
<1>1. Next
  BY DEF Next, SessionNext
<1>2. UNCHANGED <<batch, sub>> /\ \E x \in {"active", "closed"} : sess' = [sess EXCEPT ![s].status = x]
  BY DEF Revive, Close
<1>3. NoLegacy'
  BY <1>2 DEF StoreInv, NoLegacy, PrefixInv, TypeOK, Sess
<1>4. PrefixInv' /\ CursorsLogged' /\ Extends(log, log')
  BY <1>1, StoreStep DEF StoreInv
<1>5. \A u \in Session : QuietFor(u)
  BY <1>2, <1>4, KeptSelf DEF QuietFor, StoreInv, PrefixInv
<1> QED BY <1>3, <1>4, <1>5 DEF StoreInv

LEMMA BackgroundQuiet ==
  ASSUME StoreInv, Background
  PROVE  StoreInv' /\ \A u \in Session : QuietFor(u)
<1>0. TypeOK
  BY DEF StoreInv, PrefixInv
<1>1. ASSUME DaemonNext, UNCHANGED <<sess, sub>>, \A u \in Session : batch'[u][Legacy] = batch[u][Legacy]
      PROVE  StoreInv' /\ \A u \in Session : QuietFor(u)
  <2>1. AllKept /\ PrefixInv' /\ CursorsLogged' /\ Extends(log, log')
    BY <1>0, <1>1, StoreStep, DaemonKeeps DEF Next, StoreInv
  <2>2. NoLegacy'
    BY <1>1 DEF StoreInv, NoLegacy
  <2> QED BY <1>1, <2>1, <2>2 DEF StoreInv, QuietFor, AllKept
<1>2. CASE Polled
  <2>1. PICK p \in PR, n \in 1..MaxPerPoll : Poll(p, n, FALSE, {s \in Session :
               sub[s][p].state = "active" /\ sess[s].status = "active"})
    BY <1>2 DEF Polled
  <2>2. n \in 0..MaxPerPoll
    BY BoundAssumption
  <2>3. DaemonNext
    BY <2>1, <2>2 DEF DaemonNext
  <2>4. UNCHANGED <<sess, sub>> /\ \A u \in Session : batch'[u][Legacy] = batch[u][Legacy]
    BY <2>1, NameAssumption DEF Poll, Target
  <2> QED BY <1>1, <2>3, <2>4
<1>3. CASE ExpireStaleHandoffs
  BY <1>1, <1>3, NoneSwept DEF ExpireStaleHandoffs, DaemonNext
<1>4. CASE Tick
  <2>1. \A u \in Session : batch'[u][Legacy] = batch[u][Legacy]
    BY <1>4 DEF Tick, StoreInv, NoLegacy, InFlight, Target
  <2> QED BY <1>1, <1>4, <2>1 DEF Tick, DaemonNext
<1>5. ASSUME NEW s \in Session, NEW p \in PR, Subscribe(s, p)
      PROVE  StoreInv' /\ \A u \in Session : QuietFor(u)
  <2>1. Next
    BY <1>5 DEF Next, SubscriptionNext
  <2>2. UNCHANGED <<sess, batch>>
    BY <1>5 DEF Subscribe
  <2>3. sub' = [sub EXCEPT ![s][p] = [sub[s][p] EXCEPT !.state = "active", !.source = "manual"]]
    BY <1>0, <1>5 DEF Subscribe, TypeOK
  <2>4. \A u \in Session, q \in PR : sub'[u][q].cursor = sub[u][q].cursor
    BY <1>0, <2>3 DEF TypeOK, Sub
  <2>5. NoLegacy'
    BY <2>2 DEF StoreInv, NoLegacy
  <2>6. PrefixInv' /\ CursorsLogged' /\ Extends(log, log')
    BY <2>1, StoreStep DEF StoreInv
  <2>7. \A u \in Session : QuietFor(u)
    BY <1>0, <2>2, <2>4, <2>6, KeptSelf DEF QuietFor
  <2> QED BY <2>5, <2>6, <2>7 DEF StoreInv
<1> QED BY <1>2, <1>3, <1>4, <1>5 DEF Background

-----------------------------------------------------------------------------
(* Claims and confirmations                                                  *)

(* What a claim of s answers: the handoff and the events of its rows *)
Returned(s, h, E) ==
  LET c == BundleCells(s, Swept[s])
  IN  h = BundleHandoff(s, c) /\ E = UNION {c[t].evs : t \in Members(s, c)}

(* After a claim of s, what is in flight under its handoff is what it returned, *)
(* and nothing of it was confirmed.                                             *)
LEMMA BundleClaimed ==
  ASSUME StoreInv, NEW s \in Session, ClaimReminderBundle(s)
  PROVE  /\ StoreInv'
         /\ UNCHANGED <<log, sub>>
         /\ \A u \in Session \ {s} : QuietFor(u)
         /\ \E h \in Handoff, E \in SUBSET Nat :
              /\ Returned(s, h, E) /\ Handed(s, h, E)' /\ Unconfirmed(s, E)
<1> PICK c, h, m, E : /\ c = BundleCells(s, Swept[s]) /\ h = BundleHandoff(s, c)
                     /\ m = Members(s, c) /\ E = UNION {c[t].evs : t \in m}
  OBVIOUS
<1> DEFINE row == [t \in Target |-> IF t \in m THEN HandOff(c[t], h, Cardinality(m), NoLease)
                                   ELSE c[t]]
<1>0. TypeOK /\ PrefixRows
  BY DEF StoreInv, PrefixInv
<1>1. /\ batch' = [Swept EXCEPT ![s] = row] /\ h \in Handoff /\ NothingInFlight(s)
      /\ UNCHANGED <<log, sub, sess>>
  BY Zenon DEF ClaimReminderBundle
<1>2. c \in [Target -> Batch] /\ Swept \in Rows
  BY <1>0, BundleCellsType, SweptType DEF Rows
<1>3. PrefixInv' /\ CursorsLogged' /\ Extends(log, log')
  BY StoreStep DEF StoreInv, Next, HostNext
<1>4. row \in [Target -> Batch] /\ batch'[s] = row
  <2>1. \A t \in Target : batch'[s][t] \in Batch
    BY <1>3 DEF PrefixInv, TypeOK
  <2>2. batch'[s] = row
    <3> HIDE DEF row
    <3> QED BY <1>1, <1>2 DEF Rows
  <2> QED BY <2>1, <2>2
<1>5. \A u \in Session \ {s} : batch'[u] = Swept[u]
  <2> HIDE DEF row
  <2> QED BY <1>1, <1>2 DEF Rows
<1>6. c[Legacy].state = "none" /\ Legacy \notin m
  <2>1. Legacy \in Target /\ Swept[s][Legacy].state = "none" /\ Legacy \notin ActiveSubs(s)
    BY NoneSwept, NameAssumption DEF StoreInv, NoLegacy, ActiveSubs
  <2>2. \A b : BuildLegacy(s, b) = b
    BY DEF BuildLegacy, StoreInv, NoLegacy
  <2>3. c[Legacy] = Swept[s][Legacy]
    BY <2>1, <2>2 DEF BundleCells
  <2> QED BY <2>1, <2>3 DEF Members, Pending, Queued
<1>7. NoLegacy'
  <2>1. ASSUME NEW u \in Session PROVE batch'[u][Legacy].state = "none"
    <3>1. CASE u = s
      BY <1>4, <1>6, <3>1 DEF Target
    <3>2. CASE u # s
      BY <1>5, <3>2, NoneSwept DEF StoreInv, NoLegacy
    <3> QED BY <3>1, <3>2
  <2> QED BY <1>1, <2>1 DEF StoreInv, NoLegacy
<1>8. ASSUME NEW u \in Session \ {s} PROVE QuietFor(u)
  BY <1>0, <1>1, <1>3, <1>5, SweptKept DEF QuietFor
<1>9. ASSUME NEW t \in Target, InFlight(batch'[s][t])
      PROVE  t \in m /\ batch'[s][t].evs = c[t].evs
  <2>1. ~InFlight(c[t])
    BY <1>0, <1>1, BundleIdle
  <2>2. t \in m
    BY <1>4, <1>9, <2>1
  <2>3. HandOff(c[t], h, Cardinality(m), NoLease).evs = c[t].evs
    BY <1>2 DEF HandOff, Batch
  <2> QED BY <1>4, <2>2, <2>3
<1>10. Handed(s, h, E)'
  <2>1. ASSUME NEW t \in Target, InFlight(batch'[s][t]) PROVE batch'[s][t].evs \subseteq E
    BY <1>9, <2>1
  <2> QED BY <2>1 DEF Handed
<1>11. E \in SUBSET Nat
  <2>1. \A t \in m : c[t].evs \in SUBSET Nat
    BY <1>2 DEF Members, Batch
  <2>2. \A i \in E : \E t \in m : i \in c[t].evs
    OBVIOUS
  <2> QED BY <2>1, <2>2
<1>12. Unconfirmed(s, E)
  <2>1. ASSUME NEW i \in E PROVE i \in DOMAIN log /\ i > sub[s][log[i]].cursor
    <3>1. PICK t \in m : i \in c[t].evs
      OBVIOUS
    <3>2. t \in PR /\ Queued(c[t])
      BY <1>6 DEF Members, Pending, Target
    <3>3. PrefixRow(log, t, sub[s][t], c[t])
      BY <1>0, <3>2, BundleCellsPrefix
    <3>4. i \in After(log, t, sub[s][t].cursor)
      BY <3>1, <3>2, <3>3 DEF PrefixRow, Queued
    <3> QED BY <3>4 DEF After
  <2> QED BY <2>1 DEF Unconfirmed
<1>13. Returned(s, h, E)
  BY DEF Returned
<1> QED BY <1>1, <1>3, <1>7, <1>8, <1>10, <1>11, <1>12, <1>13 DEF StoreInv

(* A confirmation of s's rows T raises the cursors of these, each to its end *)
LEMMA RowsConfirmed ==
  ASSUME StoreInv, NEW s \in Session, NEW T \in SUBSET Target, Confirms(s, T), HostNext,
         \A u \in Session : batch'[u][Legacy].state = "none"
  PROVE  /\ StoreInv' /\ UNCHANGED log
         /\ \A u \in Session \ {s} : QuietFor(u)
         /\ \A t \in Target : Kept(batch[s][t], batch'[s][t])
         /\ \A p \in PR : \/ sub'[s][p].cursor = sub[s][p].cursor
                          \/ /\ p \in T /\ InFlight(batch[s][p])
                             /\ sub'[s][p].cursor = batch[s][p].upto
<1>0. TypeOK
  BY DEF StoreInv, PrefixInv
<1>1. /\ sub' = [sub EXCEPT ![s] = Raised(s, T)] /\ UNCHANGED log
      /\ sess' = [sess EXCEPT ![s] = [sess[s] EXCEPT !.cursor = RaisedCursor(s, T)]]
  BY <1>0 DEF Confirms, Confirm, TypeOK
<1>2. PrefixInv' /\ CursorsLogged' /\ Extends(log, log')
  BY StoreStep DEF StoreInv, Next
<1>3. NoLegacy'
  BY <1>0, <1>1 DEF StoreInv, NoLegacy, TypeOK, Sess
<1>4. ASSUME NEW u \in Session \ {s} PROVE QuietFor(u)
  <2>1. sub'[u] = sub[u]
    BY <1>0, <1>1 DEF TypeOK
  <2> QED BY <1>2, <2>1 DEF QuietFor, Confirms
<1>5. ASSUME NEW t \in Target PROVE Kept(batch[s][t], batch'[s][t])
  BY <1>0, KeptSelf DEF Confirms
<1>6. ASSUME NEW p \in PR
      PROVE  \/ sub'[s][p].cursor = sub[s][p].cursor
             \/ /\ p \in T /\ InFlight(batch[s][p])
                /\ sub'[s][p].cursor = batch[s][p].upto
  <2>1. sub'[s][p] = IF p \in T /\ sub[s][p].cursor < batch[s][p].upto
                     THEN [sub[s][p] EXCEPT !.cursor = batch[s][p].upto] ELSE sub[s][p]
    BY <1>0, <1>1 DEF TypeOK, Raised
  <2>2. sub[s][p] \in Sub
    BY <1>0 DEF TypeOK
  <2> QED BY <2>1, <2>2 DEF Sub, Confirms
<1> QED BY <1>1, <1>2, <1>3, <1>4, <1>5, <1>6 DEF StoreInv

LEMMA AckConfirmed ==
  ASSUME StoreInv, NEW s \in Session, NEW h \in Handoff, AckReminderBundle(s, h, "confirmed")
  PROVE  HostNext /\ \A u \in Session : batch'[u][Legacy].state = "none"
<1>1. HostNext
  BY DEF HostNext
<1>2. batch' = [batch EXCEPT ![s] = [t \in Target |->
                  IF t \in Records(s, h) THEN NoBatch ELSE batch[s][t]]]
  BY DEF AckReminderBundle
<1>3. \A u \in Session, t \in Target : batch'[u][t] = NoBatch \/ batch'[u][t] = batch[u][t]
  BY <1>2 DEF StoreInv, PrefixInv, TypeOK
<1>4. Legacy \in Target
  BY DEF Target
<1> QED BY <1>1, <1>3, <1>4 DEF StoreInv, NoLegacy, NoBatch

LEMMA ClaudeConfirmed ==
  ASSUME StoreInv, NEW s \in Session, ConfirmClaudeHandoff(s)
  PROVE  HostNext /\ \A u \in Session : batch'[u][Legacy].state = "none"
<1>1. HostNext
  BY DEF HostNext
<1>2. PICK t \in Target : \/ batch' = [Swept EXCEPT ![s][t] = NoBatch]
                          \/ batch' = [batch EXCEPT ![s][t] = NoBatch]
  BY Zenon DEF ConfirmClaudeHandoff, SettleReminderClaim
<1>3. batch \in Rows /\ Swept \in Rows /\ Legacy \in Target
  BY SweptType DEF StoreInv, PrefixInv, TypeOK, Rows, Target
<1>4. ASSUME NEW u \in Session PROVE batch'[u][Legacy] \in {NoBatch, batch[u][Legacy], Swept[u][Legacy]}
  BY <1>2, <1>3 DEF Rows
<1> QED BY <1>1, <1>4, NoneSwept DEF StoreInv, NoLegacy, NoBatch

-----------------------------------------------------------------------------
(* What is known stays true                                                  *)

LEMMA HandedKept ==
  ASSUME NEW s \in Session, \A t \in Target : Kept(batch[s][t], batch'[s][t]),
         NEW h, NEW E, NEW F, Handed(s, h, E), E \subseteq F
  PROVE  \A t \in Target : InFlight(batch'[s][t]) /\ batch'[s][t].handoff = h => batch'[s][t].evs \subseteq F
BY DEF Handed, Kept

LEMMA UnconfirmedKept ==
  ASSUME StoreInv, StoreInv', NEW s \in Session, QuietFor(s), NEW E, Unconfirmed(s, E)
  PROVE  \A i \in E : i \in DOMAIN log' /\ i > sub'[s][log'[i]].cursor
<1>1. log \in Seq(PR) /\ log' \in Seq(PR)
  BY DEF StoreInv, PrefixInv, TypeOK
<1> QED BY <1>1 DEF Unconfirmed, QuietFor, Extends

(* Shown are the events a cursor passes, if the new ones were shown *)
LEMMA ShownKept ==
  ASSUME StoreInv, StoreInv', NEW s \in Session, Extends(log, log'), ShownUpToCursor(s),
         shown[s] \subseteq shown'[s],
         \A p \in PR : \A i \in After(log, p, sub[s][p].cursor) :
           i <= sub'[s][p].cursor => i \in shown[s],
         \A p \in PR : sub'[s][p].cursor <= Len(log)
  PROVE  ShownUpToCursor(s)'
<1>1. ASSUME NEW p \in PR, NEW i \in After(log', p, 0), i <= sub'[s][p].cursor
      PROVE  i \in shown'[s]
  <2>1. log \in Seq(PR) /\ log' \in Seq(PR) /\ sub[s][p].cursor \in Nat /\ sub'[s][p].cursor \in Nat
    BY DEF StoreInv, PrefixInv, TypeOK, Sub
  <2>2. i \in After(log, p, 0)
    BY <1>1, <2>1 DEF After, Extends
  <2>3. i <= sub[s][p].cursor \/ i \in After(log, p, sub[s][p].cursor)
    BY <2>1, <2>2 DEF After
  <2> QED BY <1>1, <2>2, <2>3 DEF ShownUpToCursor
<1> QED BY <1>1 DEF ShownUpToCursor

LEMMA ShownQuiet ==
  ASSUME StoreInv, StoreInv', NEW s \in Session, QuietFor(s), ShownUpToCursor(s), shown[s] \subseteq shown'[s]
  PROVE  ShownUpToCursor(s)'
<1>1. ASSUME NEW p \in PR
      PROVE  /\ sub'[s][p].cursor <= Len(log)
             /\ \A i \in After(log, p, sub[s][p].cursor) : ~(i <= sub'[s][p].cursor)
  <2>1. sub'[s][p].cursor = sub[s][p].cursor /\ sub[s][p].cursor \in Nat /\ log \in Seq(PR)
    BY DEF QuietFor, StoreInv, PrefixInv, TypeOK, Sub
  <2> QED BY <2>1 DEF StoreInv, CursorsLogged, After
<1> QED BY <1>1, ShownKept DEF QuietFor

(* A session whose hook does nothing *)
LEMMA QuietHook ==
  ASSUME StoreInv, StoreInv', NEW s \in Session, HookInv(s), QuietFor(s),
         UNCHANGED <<entry[s], hook[s], continuing[s], shown[s], others>>
  PROVE  HookInv(s)'
<1>1. HoldsWhatIsHanded(s)'
  <2>1. Holds(s)' => Holds(s) /\ Handed(s, hook[s].handoff, hook[s].events)'
    BY HandedKept DEF HookInv, HoldsWhatIsHanded, Holds, At, QuietFor, Handed
  <2>2. Holds(s)' => Unconfirmed(s, hook[s].events)'
    BY <2>1, UnconfirmedKept DEF HookInv, HoldsWhatIsHanded, Unconfirmed
  <2> QED BY <2>1, <2>2 DEF HookInv, HoldsWhatIsHanded, At
<1>2. ASSUME s \notin others PROVE ContinuesWhatIsShown(s)' /\ ShownUpToCursor(s)'
  <2>1. ShownUpToCursor(s)'
    BY <1>2, ShownQuiet DEF HookInv
  <2>2. ContinuesWhatIsShown(s)'
    BY <1>2, HandedKept DEF HookInv, ContinuesWhatIsShown, QuietFor, Handed
  <2> QED BY <2>1, <2>2
<1> QED BY <1>1, <1>2 DEF HookInv

(* A hook that holds nothing: the next turn continues only what it would have *)
LEMMA UnheldHook ==
  ASSUME NEW s \in Session, HookInv(s), ~Holds(s)', UNCHANGED others,
         \A t \in Target : Kept(batch[s][t], batch'[s][t]),
         s \notin others =>
           /\ ShownUpToCursor(s)'
           /\ continuing'[s] => continuing[s] /\ entry'[s] = entry[s] /\ shown'[s] = shown[s]
  PROVE  HookInv(s)'
<1>1. HoldsWhatIsHanded(s)'
  BY DEF HoldsWhatIsHanded, Holds, At
<1>2. ASSUME s \notin others PROVE ContinuesWhatIsShown(s)'
  BY <1>2, HandedKept DEF HookInv, ContinuesWhatIsShown, Handed
<1> QED BY <1>1, <1>2 DEF HookInv

LEMMA UnheldQuiet ==
  ASSUME StoreInv, StoreInv', NEW s \in Session, HookInv(s), ~Holds(s)', QuietFor(s),
         shown'[s] = shown[s], UNCHANGED others,
         s \notin others => (continuing'[s] => continuing[s] /\ entry'[s] = entry[s])
  PROVE  HookInv(s)'
<1>1. s \notin others => ShownUpToCursor(s)'
  BY ShownQuiet DEF HookInv
<1> QED BY <1>1, UnheldHook DEF QuietFor

-----------------------------------------------------------------------------
(* The steps of a hook                                                       *)

OthersRest(s) ==
  \A u \in Session \ {s} : QuietFor(u) /\ UNCHANGED <<entry[u], hook[u], continuing[u], shown[u]>>

LEMMA IdleType == Idle \in [phase: Phase, handoff: Handoff \cup {NoHandoff}, events: SUBSET Nat]
BY DEF Idle, Phase

(* The end of a Stop event *)
LEMMA EndStops ==
  ASSUME HookTypes, NEW s \in Session, EndStop(s)
  PROVE  /\ hook' \in [Session -> [phase: Phase, handoff: Handoff \cup {NoHandoff}, events: SUBSET Nat]]
         /\ continuing' \in [Session -> BOOLEAN]
         /\ ~Holds(s)' /\ (s \notin others => ~continuing'[s])
         /\ \A u \in Session \ {s} : hook'[u] = hook[u] /\ continuing'[u] = continuing[u]
<1>1. hook' = [hook EXCEPT ![s] = Idle]
  BY DEF EndStop
<1>2. PICK again \in BOOLEAN : /\ again => s \in others
                               /\ continuing' = [continuing EXCEPT ![s] = again]
  BY DEF EndStop
<1>3. hook'[s].phase = "idle"
  BY <1>1 DEF HookTypes, Idle
<1>4. /\ hook' \in [Session -> [phase: Phase, handoff: Handoff \cup {NoHandoff}, events: SUBSET Nat]]
      /\ \A u \in Session \ {s} : hook'[u] = hook[u]
  BY <1>1, IdleType DEF HookTypes
<1>5. /\ continuing' \in [Session -> BOOLEAN] /\ continuing'[s] = again
      /\ \A u \in Session \ {s} : continuing'[u] = continuing[u]
  BY <1>2 DEF HookTypes
<1>6. ~Holds(s)'
  BY <1>3 DEF Holds, At
<1>7. s \notin others => ~continuing'[s]
  BY <1>2, <1>5, Zenon
<1> QED BY <1>4, <1>5, <1>6, <1>7

LEMMA GoesTo ==
  ASSUME HookTypes, NEW s \in Session, NEW phase \in Phase, Goto(s, phase)
  PROVE  /\ hook' \in [Session -> [phase: Phase, handoff: Handoff \cup {NoHandoff}, events: SUBSET Nat]]
         /\ hook'[s] = [hook[s] EXCEPT !.phase = phase] /\ hook'[s].phase = phase
         /\ hook'[s].handoff = hook[s].handoff /\ hook'[s].events = hook[s].events
         /\ \A u \in Session \ {s} : hook'[u] = hook[u]
<1>1. hook' = [hook EXCEPT ![s] = [hook[s] EXCEPT !.phase = phase]]
  BY DEF Goto, HookTypes
<1>2. hook[s] \in [phase: Phase, handoff: Handoff \cup {NoHandoff}, events: SUBSET Nat]
  BY DEF HookTypes
<1> QED BY <1>1, <1>2 DEF HookTypes

(* What an action of the hook of s keeps *)
Keeps(s) == HookTypes' /\ StoreInv' /\ HookInv(s)' /\ OthersRest(s)

LEMMA StartsKeeps ==
  ASSUME ClaudeInv, UNCHANGED others, NEW s \in Session, StopHookStarts(s) \/ UserPromptSubmit(s)
  PROVE  Keeps(s)
<1>0. HookTypes /\ StoreInv /\ HookInv(s)
  BY DEF ClaudeInv
<1>1. StoreInv' /\ \A u \in Session : QuietFor(u)
  BY <1>0, UnchangedStore, ReviveQuiet DEF StopHookStarts, UserPromptSubmit
<1>2. CASE StopHookStarts(s)
  <2>1. Goto(s, "touched") /\ UNCHANGED <<entry, continuing, shown>>
    BY <1>2 DEF StopHookStarts
  <2>2. HookTypes' /\ ~Holds(s)' /\ \A u \in Session \ {s} : hook'[u] = hook[u]
    BY <1>0, <2>1, GoesTo DEF Phase, HookTypes, Holds, At
  <2>3. HookInv(s)'
    BY <1>0, <1>1, <2>1, <2>2, UnheldQuiet
  <2> QED BY <1>1, <2>1, <2>2, <2>3 DEF Keeps, OthersRest
<1>3. CASE UserPromptSubmit(s)
  <2>1. /\ At(s, "idle") /\ continuing' = [continuing EXCEPT ![s] = FALSE]
        /\ UNCHANGED <<entry, hook, shown>>
    BY <1>3 DEF UserPromptSubmit
  <2>2. HookTypes' /\ ~Holds(s)' /\ ~continuing'[s]
        /\ \A u \in Session \ {s} : continuing'[u] = continuing[u]
    BY <1>0, <2>1 DEF HookTypes, Holds, At
  <2>3. HookInv(s)'
    BY <1>0, <1>1, <2>1, <2>2, UnheldQuiet
  <2> QED BY <1>1, <2>1, <2>2, <2>3 DEF Keeps, OthersRest
<1> QED BY <1>2, <1>3

LEMMA ClaimKeeps ==
  ASSUME ClaudeInv, UNCHANGED others, NEW s \in Session, HookClaims(s)
  PROVE  Keeps(s)
<1>0. HookTypes /\ StoreInv /\ HookInv(s)
  BY DEF ClaudeInv
<1>1. ~continuing[s] /\ ClaimReminderBundle(s) /\ UNCHANGED <<entry, continuing, shown>>
  BY DEF HookClaims
<1>2. StoreInv' /\ UNCHANGED <<log, sub>> /\ \A u \in Session \ {s} : QuietFor(u)
  BY <1>0, <1>1, BundleClaimed
<1>3. PICK h \in Handoff, E \in SUBSET Nat : Returned(s, h, E) /\ Handed(s, h, E)' /\ Unconfirmed(s, E)
  BY <1>0, <1>1, BundleClaimed
<1>4. hook' = [hook EXCEPT ![s] = [phase |-> "claimed", handoff |-> h, events |-> E]]
  BY <1>3 DEF HookClaims, Returned
<1>5. /\ HookTypes' /\ hook'[s] = [phase |-> "claimed", handoff |-> h, events |-> E]
      /\ \A u \in Session \ {s} : hook'[u] = hook[u]
  BY <1>0, <1>1, <1>4 DEF HookTypes, Phase
<1>6. h # NoHandoff
  BY BoundAssumption DEF Handoff, NoHandoff
<1>7. HoldsWhatIsHanded(s)'
  BY <1>1, <1>2, <1>3, <1>5, <1>6 DEF HoldsWhatIsHanded, Holds, At, Handed, Unconfirmed
<1>8. ASSUME s \notin others PROVE ShownUpToCursor(s)'
  BY <1>0, <1>1, <1>2, <1>8 DEF HookInv, ShownUpToCursor, After
<1>9. HookInv(s)'
  BY <1>1, <1>7, <1>8 DEF HookInv, ContinuesWhatIsShown
<1> QED BY <1>1, <1>2, <1>5, <1>9 DEF Keeps, OthersRest

(* The daemon claims for a hook that has gone *)
LEMMA LostAnswerKeeps ==
  ASSUME ClaudeInv, UNCHANGED others, NEW s \in Session, ClaimAnswerLost(s)
  PROVE  Keeps(s)
<1>0. HookTypes /\ StoreInv /\ HookInv(s)
  BY DEF ClaudeInv
<1>1. ClaimReminderBundle(s) /\ EndStop(s) /\ UNCHANGED <<entry, shown>>
  BY DEF ClaimAnswerLost
<1>2. StoreInv' /\ UNCHANGED <<log, sub>> /\ \A u \in Session \ {s} : QuietFor(u)
  BY <1>0, <1>1, BundleClaimed
<1>3. /\ HookTypes' /\ ~Holds(s)' /\ (s \notin others => ~continuing'[s])
      /\ \A u \in Session \ {s} : hook'[u] = hook[u] /\ continuing'[u] = continuing[u]
  BY <1>0, <1>1, EndStops DEF HookTypes
<1>4. HoldsWhatIsHanded(s)'
  BY <1>3 DEF HoldsWhatIsHanded, Holds, At
<1>5. ASSUME s \notin others PROVE ContinuesWhatIsShown(s)' /\ ShownUpToCursor(s)'
  BY <1>0, <1>1, <1>2, <1>3, <1>5 DEF HookInv, ShownUpToCursor, After, ContinuesWhatIsShown
<1> QED BY <1>1, <1>2, <1>3, <1>4, <1>5 DEF Keeps, OthersRest, HookInv

LEMMA StoresKeeps ==
  ASSUME ClaudeInv, UNCHANGED others, NEW s \in Session, HookStores(s)
  PROVE  Keeps(s)
<1>0. HookTypes /\ StoreInv /\ HookInv(s)
  BY DEF ClaudeInv
<1>1. /\ At(s, "claimed") /\ entry' = [entry EXCEPT ![s] = hook[s].handoff]
      /\ Goto(s, "stored") /\ UNCHANGED <<vars, continuing, shown>>
  BY DEF HookStores
<1>2. StoreInv' /\ \A u \in Session : QuietFor(u)
  BY <1>0, <1>1, UnchangedStore
<1>3. /\ HookTypes' /\ hook'[s].phase = "stored"
      /\ hook'[s].handoff = hook[s].handoff /\ hook'[s].events = hook[s].events
      /\ entry'[s] = hook[s].handoff
      /\ \A u \in Session \ {s} : hook'[u] = hook[u] /\ entry'[u] = entry[u]
  BY <1>0, <1>1, GoesTo DEF HookTypes, Phase
<1>4. HoldsWhatIsHanded(s)'
  BY <1>0, <1>1, <1>3 DEF HookInv, HoldsWhatIsHanded, Holds, At, Handed, Unconfirmed, vars
<1>5. ASSUME s \notin others PROVE ContinuesWhatIsShown(s)' /\ ShownUpToCursor(s)'
  <2>1. ShownUpToCursor(s)'
    BY <1>0, <1>1, <1>5 DEF HookInv, ShownUpToCursor, After, vars
  <2>2. ~continuing'[s]
    BY <1>0, <1>1 DEF HookInv, HoldsWhatIsHanded, Holds
  <2> QED BY <2>1, <2>2 DEF ContinuesWhatIsShown
<1> QED BY <1>1, <1>2, <1>3, <1>4, <1>5 DEF Keeps, OthersRest, HookInv

LEMMA OutputsKeeps ==
  ASSUME ClaudeInv, UNCHANGED others, NEW s \in Session, HookOutputs(s)
  PROVE  Keeps(s)
<1>0. HookTypes /\ StoreInv /\ HookInv(s)
  BY DEF ClaudeInv
<1>1. /\ At(s, "stored") /\ shown' = [shown EXCEPT ![s] = @ \cup hook[s].events]
      /\ hook' = [hook EXCEPT ![s] = Idle] /\ continuing' = [continuing EXCEPT ![s] = TRUE]
      /\ UNCHANGED <<vars, entry>>
  BY DEF HookOutputs
<1>2. StoreInv' /\ \A u \in Session : QuietFor(u)
  BY <1>0, <1>1, UnchangedStore
<1>3. hook[s].events \in SUBSET Nat /\ shown[s] \in SUBSET Nat
  BY <1>0 DEF HookTypes
<1>4. /\ HookTypes' /\ hook'[s] = Idle /\ shown'[s] = shown[s] \cup hook[s].events
      /\ \A u \in Session \ {s} : hook'[u] = hook[u] /\ continuing'[u] = continuing[u] /\ shown'[u] = shown[u]
  BY <1>0, <1>1, <1>3, IdleType DEF HookTypes
<1>5. HoldsWhatIsHanded(s)'
  BY <1>4 DEF HoldsWhatIsHanded, Holds, At, Idle
<1>6. ASSUME s \notin others PROVE ContinuesWhatIsShown(s)' /\ ShownUpToCursor(s)'
  <2>1. ShownUpToCursor(s)'
    BY <1>0, <1>2, <1>4, <1>6, ShownQuiet DEF HookInv
  <2>2. /\ entry[s] = hook[s].handoff /\ hook[s].handoff # NoHandoff
        /\ Handed(s, hook[s].handoff, hook[s].events)
    BY <1>0, <1>1 DEF HookInv, HoldsWhatIsHanded, Holds
  <2>3. entry'[s] # NoHandoff /\ Handed(s, entry[s], shown[s])'
    BY <1>1, <1>4, <2>2 DEF Handed, vars
  <2> QED BY <2>1, <2>3 DEF ContinuesWhatIsShown
<1> QED BY <1>1, <1>2, <1>4, <1>5, <1>6 DEF Keeps, OthersRest, HookInv

LEMMA ConfirmsKeeps ==
  ASSUME ClaudeInv, UNCHANGED others, NEW s \in Session, HookConfirms(s)
  PROVE  Keeps(s)
<1>0. HookTypes /\ StoreInv /\ HookInv(s)
  BY DEF ClaudeInv
<1>1. /\ entry[s] # NoHandoff /\ Goto(s, "confirmed") /\ UNCHANGED <<entry, continuing, shown>>
      /\ AckReminderBundle(s, entry[s], "confirmed") \/ UNCHANGED vars
      /\ continuing[s]
  BY DEF HookConfirms
<1>2. HookTypes' /\ ~Holds(s)' /\ \A u \in Session \ {s} : hook'[u] = hook[u]
  BY <1>0, <1>1, GoesTo DEF HookTypes, Phase, Holds, At
<1>3. CASE UNCHANGED vars
  <2>1. StoreInv' /\ \A u \in Session : QuietFor(u)
    BY <1>0, <1>3, UnchangedStore
  <2>2. HookInv(s)'
    BY <1>0, <1>1, <1>2, <2>1, UnheldQuiet
  <2> QED BY <1>1, <1>2, <2>1, <2>2 DEF Keeps, OthersRest
<1>4. CASE AckReminderBundle(s, entry[s], "confirmed")
  <2> PICK h \in Handoff : h = entry[s]
    BY <1>0, <1>1 DEF HookTypes
  <2> DEFINE T == Records(s, h)
  <2>1. HostNext /\ \A u \in Session : batch'[u][Legacy].state = "none"
    BY <1>0, <1>4, AckConfirmed
  <2>2. T \in SUBSET Target /\ Confirms(s, T)
    BY <1>0, <1>4, BundleConfirms DEF StoreInv, PrefixInv
  <2> HIDE DEF T
  <2>3. /\ StoreInv' /\ UNCHANGED log
        /\ \A u \in Session \ {s} : QuietFor(u)
        /\ \A t \in Target : Kept(batch[s][t], batch'[s][t])
        /\ \A p \in PR : \/ sub'[s][p].cursor = sub[s][p].cursor
                         \/ /\ p \in T /\ InFlight(batch[s][p])
                            /\ sub'[s][p].cursor = batch[s][p].upto
    BY <1>0, <2>1, <2>2, RowsConfirmed
  <2>4. ASSUME s \notin others PROVE ShownUpToCursor(s)'
    <3>1. ShownUpToCursor(s) /\ Handed(s, h, shown[s])
      BY <1>0, <1>1, <2>4 DEF HookInv, ContinuesWhatIsShown
    <3>2. ASSUME NEW p \in PR, NEW i \in After(log, p, sub[s][p].cursor), i <= sub'[s][p].cursor
          PROVE  i \in shown[s]
      <4>1. PrefixRow(log, p, sub[s][p], batch[s][p]) /\ sub[s][p].cursor \in Nat /\ log \in Seq(PR)
        BY <1>0 DEF StoreInv, PrefixInv, PrefixRows, PrefixAt, TypeOK, Sub
      <4>2. sub'[s][p].cursor # sub[s][p].cursor
        BY <3>2, <4>1 DEF After
      <4>3. p \in T /\ InFlight(batch[s][p]) /\ i <= batch[s][p].upto
        BY <2>3, <3>2, <4>2
      <4>4. i \in batch[s][p].evs
        BY <3>2, <4>1, <4>3 DEF PrefixRow, InFlight
      <4>5. batch[s][p].handoff = h /\ p \in Target
        BY <4>3 DEF T, Records
      <4> QED BY <3>1, <4>3, <4>4, <4>5 DEF Handed
    <3>3. \A p \in PR : sub'[s][p].cursor <= Len(log)
      BY <2>3 DEF StoreInv, CursorsLogged
    <3>4. Extends(log, log') /\ shown[s] \subseteq shown'[s]
      BY <1>0, <1>1, <2>3, SameRefl DEF StoreInv, PrefixInv, TypeOK
    <3> QED BY <1>0, <2>3, <3>1, <3>2, <3>3, <3>4, ShownKept
  <2>5. HookInv(s)'
    BY <1>0, <1>1, <1>2, <2>3, <2>4, UnheldHook
  <2> QED BY <1>1, <1>2, <2>3, <2>5 DEF Keeps, OthersRest
<1> QED BY <1>1, <1>3, <1>4

(* Without an entry nothing is confirmed unless somebody else continued the turn *)
LEMMA ConfirmsLegacyKeeps ==
  ASSUME ClaudeInv, UNCHANGED others, NEW s \in Session, HookConfirmsLegacy(s)
  PROVE  Keeps(s)
<1>0. HookTypes /\ StoreInv /\ HookInv(s)
  BY DEF ClaudeInv
<1>1. /\ continuing[s] /\ entry[s] = NoHandoff /\ EndStop(s) /\ UNCHANGED <<entry, shown>>
      /\ ConfirmClaudeHandoff(s) \/ UNCHANGED vars
  BY DEF HookConfirmsLegacy
<1>2. s \in others
  BY <1>0, <1>1 DEF HookInv, ContinuesWhatIsShown
<1>3. /\ HookTypes' /\ ~Holds(s)'
      /\ \A u \in Session \ {s} : hook'[u] = hook[u] /\ continuing'[u] = continuing[u]
  BY <1>0, <1>1, EndStops DEF HookTypes
<1>4. StoreInv' /\ \A u \in Session \ {s} : QuietFor(u)
  <2>1. CASE UNCHANGED vars
    BY <1>0, <2>1, UnchangedStore
  <2>2. CASE ConfirmClaudeHandoff(s)
    <3>1. PICK t \in Target : Confirms(s, {t})
      BY <1>0, <2>2, ClaudeConfirms DEF StoreInv, PrefixInv
    <3>2. HostNext /\ \A u \in Session : batch'[u][Legacy].state = "none"
      BY <1>0, <2>2, ClaudeConfirmed
    <3> QED BY <1>0, <3>1, <3>2, RowsConfirmed
  <2> QED BY <1>1, <2>1, <2>2
<1>5. HookInv(s)'
  BY <1>2, <1>3 DEF HookInv, HoldsWhatIsHanded, Holds, At
<1> QED BY <1>1, <1>3, <1>4, <1>5 DEF Keeps, OthersRest

LEMMA EndsKeep ==
  ASSUME ClaudeInv, UNCHANGED others, NEW s \in Session, HookForgets(s) \/ HookGivesUp(s)
  PROVE  Keeps(s)
<1>0. HookTypes /\ StoreInv /\ HookInv(s)
  BY DEF ClaudeInv
<1>1. /\ EndStop(s) /\ UNCHANGED <<vars, shown>>
      /\ entry' \in {entry, [entry EXCEPT ![s] = NoHandoff]}
  BY DEF HookForgets, HookGivesUp
<1>2. StoreInv' /\ \A u \in Session : QuietFor(u)
  BY <1>0, <1>1, UnchangedStore
<1>3. /\ HookTypes' /\ ~Holds(s)' /\ (s \notin others => ~continuing'[s])
      /\ \A u \in Session \ {s} : /\ hook'[u] = hook[u] /\ continuing'[u] = continuing[u]
                                  /\ entry'[u] = entry[u]
  BY <1>0, <1>1, EndStops DEF HookTypes
<1>4. HookInv(s)'
  BY <1>0, <1>1, <1>2, <1>3, UnheldQuiet
<1> QED BY <1>1, <1>2, <1>3, <1>4 DEF Keeps, OthersRest

LEMMA SessionEndKeeps ==
  ASSUME ClaudeInv, UNCHANGED others, NEW s \in Session, SessionEnd(s)
  PROVE  Keeps(s)
<1>0. HookTypes /\ StoreInv /\ HookInv(s)
  BY DEF ClaudeInv
<1>1. /\ At(s, "idle") /\ UNCHANGED <<hook, shown>>
      /\ Close(s) \/ UNCHANGED vars
      /\ entry' = [entry EXCEPT ![s] = NoHandoff] /\ continuing' = [continuing EXCEPT ![s] = FALSE]
  BY DEF SessionEnd
<1>2. StoreInv' /\ \A u \in Session : QuietFor(u)
  BY <1>0, <1>1, UnchangedStore, ReviveQuiet
<1>3. /\ HookTypes' /\ ~Holds(s)' /\ ~continuing'[s]
      /\ \A u \in Session \ {s} : continuing'[u] = continuing[u] /\ entry'[u] = entry[u]
  BY <1>0, <1>1 DEF HookTypes, Holds, At
<1>4. HookInv(s)'
  BY <1>0, <1>1, <1>2, <1>3, UnheldQuiet
<1> QED BY <1>1, <1>2, <1>3, <1>4 DEF Keeps, OthersRest

-----------------------------------------------------------------------------
(* The invariant                                                             *)

LEMMA HooksKeepInv ==
  ASSUME ClaudeInv, UNCHANGED others, NEW s \in Session, Hooks(s)
  PROVE  ClaudeInv'
<1>1. Keeps(s)
  BY StartsKeeps, ClaimKeeps, LostAnswerKeeps, StoresKeeps, OutputsKeeps, ConfirmsKeeps,
     ConfirmsLegacyKeeps, EndsKeep, SessionEndKeeps DEF Hooks
<1>2. ASSUME NEW u \in Session \ {s} PROVE HookInv(u)'
  BY <1>1, QuietHook DEF ClaudeInv, Keeps, OthersRest
<1> QED BY <1>1, <1>2 DEF ClaudeInv, Keeps

LEMMA BackgroundKeepsInv ==
  ASSUME ClaudeInv, UNCHANGED others, Background
  PROVE  ClaudeInv'
<1>1. StoreInv' /\ UNCHANGED claudeVars /\ \A u \in Session : QuietFor(u)
  BY BackgroundQuiet DEF ClaudeInv, Background
<1>2. ASSUME NEW u \in Session PROVE HookInv(u)'
  BY <1>1, QuietHook DEF ClaudeInv, claudeVars
<1> QED BY <1>1, <1>2 DEF ClaudeInv, HookTypes, claudeVars

LEMMA ClaudeInvInit == ClaudeInit => ClaudeInv
<1> SUFFICES ASSUME ClaudeInit PROVE ClaudeInv
  OBVIOUS
<1> DEFINE start == [NoSession EXCEPT !.status = "active"]
<1>1. start \in Sess /\ start.pr = NoPR /\ NoSub \in Sub /\ NoSub.cursor = 0
  BY DEF NoSession, Sess, NoSub, Sub
<1>2. NoSettlement \in [state: {"none", "confirmed", "failed"}, session: Session \cup {"none"},
                        count: Nat]
      /\ NoExec \in [state: {"none", "open", "settled"}, age: Ages]
  BY Zenon, Constants DEF NoSettlement, NoExec
<1>3. TypeOK
  <2>1. log \in Seq(PR) /\ sess \in [Session -> Sess] /\ sub \in [Session -> [PR -> Sub]]
    BY <1>1 DEF ClaudeInit
  <2>2. batch \in [Session -> [Target -> Batch]]
    BY NoBatchType DEF ClaudeInit
  <2>3. /\ settlement \in [Handoff -> [state: {"none", "confirmed", "failed"},
                                      session: Session \cup {"none"}, count: Nat]]
        /\ exec \in [Handoff -> [state: {"none", "open", "settled"}, age: Ages]]
    BY <1>2, Zenon DEF ClaudeInit
  <2>4. paused \in [Session -> BOOLEAN]
    BY Zenon DEF ClaudeInit
  <2>5. nextHandoff \in Nat \ {0} /\ coordinator \in {"down", "recovered", "suspended", "serving"}
    BY DEF ClaudeInit
  <2> QED BY <2>1, <2>2, <2>3, <2>4, <2>5, Zenon DEF TypeOK
<1>4. PrefixRows /\ CursorsLogged
  BY <1>1 DEF ClaudeInit, PrefixRows, PrefixAt, PrefixRow, NoBatch, Target, CursorsLogged
<1>5. NoLegacy
  BY <1>1 DEF ClaudeInit, NoLegacy, NoBatch, Target
<1>6. HookTypes
  BY IdleType DEF ClaudeInit, HookTypes
<1>7. ASSUME NEW s \in Session PROVE HookInv(s)
  BY DEF ClaudeInit, HookInv, HoldsWhatIsHanded, ContinuesWhatIsShown, ShownUpToCursor, Holds, At, Idle, After
<1> QED BY <1>3, <1>4, <1>5, <1>6, <1>7 DEF ClaudeInv, StoreInv, PrefixInv

LEMMA ClaudeInvariant == ClaudeSpec => []ClaudeInv
<1>1. ClaudeInv /\ [ClaudeNext]_<<allVars, others>> => ClaudeInv'
  <2> SUFFICES ASSUME ClaudeInv, [ClaudeNext]_<<allVars, others>> PROVE ClaudeInv'
    OBVIOUS
  <2>1. CASE UNCHANGED <<allVars, others>>
    <3>1. UNCHANGED vars /\ UNCHANGED claudeVars /\ UNCHANGED others
      BY <2>1 DEF allVars, vars, claudeVars
    <3>2. StoreInv' /\ \A u \in Session : QuietFor(u)
      BY <3>1, UnchangedStore DEF ClaudeInv
    <3>3. ASSUME NEW u \in Session PROVE HookInv(u)'
      BY <3>1, <3>2, QuietHook DEF ClaudeInv, claudeVars
    <3> QED BY <3>1, <3>2, <3>3 DEF ClaudeInv, HookTypes, claudeVars
  <2>2. CASE ClaudeNext
    BY <2>2, HooksKeepInv, BackgroundKeepsInv DEF ClaudeNext
  <2> QED BY <2>1, <2>2
<1> QED BY ClaudeInvInit, <1>1, PTL DEF ClaudeSpec

(* README.md: "duplicates are preferred to lost reminders".  In a session whose turns  *)
(* only this plugin's hook continues a cursor passes no event whose reminder was not   *)
(* shown, for any number of sessions, pull requests and events, wherever hooks die.    *)
THEOREM NothingIsLost == ClaudeSpec => []NothingLost
<1>1. ClaudeInv => NothingLost
  BY DEF ClaudeInv, HookInv, NothingLost
<1> QED BY ClaudeInvariant, <1>1, PTL

(* plugin-claude/bin/lib.mjs: whoever continues turns, a hook that is about to write  *)
(* a reminder writes nothing that was confirmed before.                               *)
THEOREM ConfirmedIsOver == ClaudeSpec => []ConfirmedNotRepeated
<1>1. ClaudeInv => ConfirmedNotRepeated
  BY DEF ClaudeInv, HookInv, HoldsWhatIsHanded, Holds, Unconfirmed, ConfirmedNotRepeated
<1> QED BY ClaudeInvariant, <1>1, PTL
=============================================================================
