------------------------ MODULE StorageBridgeProofs ------------------------
(***************************************************************************)
(* Proofs about StorageBridge, for every set of daemons, versions and      *)
(* bounds: neither copy of the marker is lowered, a daemon below the floor *)
(* does not serve, the old daemon does not beside a new one, and what was  *)
(* recorded is in the database that is opened next.                        *)
(***************************************************************************)
EXTENDS StorageBridge, TLAPS

Markers == [kind: {"marker"}, highest: Nat, minimum: Nat, generation: 0..MaxGen]

Databases == [kind: {"db"}, row: Markers \cup {NoMarker}, reminders: SUBSET Reminder]

Moving == {"publishing", "archiving", "quarantining", "binding"}
Reconciled == {"reconciled", "checking", "serving"} \cup Moving

DaemonPhase == {"off", "starting", "reconciling", "mirroring"} \cup Reconciled

Types ==
  /\ marker \in Markers \cup {NoMarker, Corrupt}
  /\ legacy \in Databases \cup {Missing, Tombstone}
  /\ modern \in Databases \cup {Missing}
  /\ socket \in Proc \cup {None}
  /\ DOMAIN st = Proc
  /\ \A p \in Daemon : st[p] \in DaemonPhase
  /\ st[Old] \in {"off", "opened", "serving"}
  /\ effective \in [Daemon -> Markers \cup {NoMarker}]
  /\ acked \subseteq Reminder /\ floor \in Nat

(* The lifetime lock: one daemon at a time *)
OneStarts == \A p, q \in Daemon : ~In(p, "off") /\ ~In(q, "off") => p = q

ServingIsBound == \A p \in Proc : In(p, "serving") <=> socket = p

(* The old daemon has a database, and until it serves the start lock *)
OldHasItsDatabase ==
  /\ ~In(Old, "off") => legacy.kind = "db"
  /\ In(Old, "opened") => startLock = Old

(* The tombstone and the archive replace a database that was copied *)
TombstoneIsLast == legacy = Tombstone => modern # Missing

RowHasFloor == floor = 0 \/ (Row.kind = "marker" /\ Row.minimum >= floor)

(* What is true of a daemon that has come so far *)
Stage(p) ==
  /\ In(p, "mirroring") => /\ effective[p] \in Markers /\ effective[p].minimum <= Version[p]
                           /\ Raised(Row, effective[p])
  /\ st[p] \in Reconciled => Version[p] >= floor
  /\ st[p] \in Moving \cup {"checking"} => startLock = p
  /\ st[p] \in Moving \cup {"serving"} => In(Old, "off")
  /\ In(p, "publishing") => legacy.kind = "db" /\ modern = Missing
  /\ In(p, "archiving") => legacy.kind = "db" /\ modern # Missing
  /\ In(p, "quarantining") => modern # Missing
  /\ st[p] \in {"binding", "serving"} => legacy = Tombstone

BridgeInv ==
  /\ Types /\ OneStarts /\ ServingIsBound /\ OldHasItsDatabase /\ TombstoneIsLast /\ RowHasFloor
  /\ \A p \in Daemon : Stage(p)

(* What was recorded is in the database, and there is none before *)
Recorded == IF Current.kind = "db" THEN acked \ late \subseteq Current.reminders ELSE acked \ late = {}

(* Nothing is late before there is a copy *)
LateIsAfter == late # {} => modern # Missing

-----------------------------------------------------------------------------
(* Merging markers                                                           *)

LEMMA LargestOfFour ==
  ASSUME NEW a \in Nat, NEW b \in Nat, NEW c \in Nat, NEW d \in Nat,
         NEW S, S \subseteq {a, b, c, d}, S # {}
  PROVE  Largest(S) \in S /\ \A k \in S : k <= Largest(S)
<1>1. \E n \in S : \A k \in S : k <= n
  <2>1. PICK n \in S : TRUE
    OBVIOUS
  <2> DEFINE m == IF a \in S /\ a > n THEN a ELSE n
             o == IF b \in S /\ b > m THEN b ELSE m
             u == IF c \in S /\ c > o THEN c ELSE o
             v == IF d \in S /\ d > u THEN d ELSE u
  <2>2. v \in S /\ \A k \in S : k <= v
    BY <2>1
  <2> QED BY <2>2
<1> QED BY <1>1 DEF Largest

LEMMA MergeRaises ==
  ASSUME NEW x \in Markers, NEW y \in Markers, NEW z \in Markers, NEW M, M \subseteq {x, y, z}, M # {}
  PROVE  /\ Merge(M) \in Markers
         /\ \A m \in M : /\ m.minimum <= Merge(M).minimum
                         /\ Raised(m, Merge(M))
<1> USE BoundAssumption DEF Markers
<1> DEFINE H == {m.highest : m \in M}
           I == {m.minimum : m \in M}
           G == {0} \cup {m.generation + 1 : m \in {n \in M : n.generation < MaxGen}}
                    \cup {m.generation : m \in {n \in M : n.generation = MaxGen}}
           next(m) == IF m.generation < MaxGen THEN m.generation + 1 ELSE m.generation
<1>1. Largest(H) \in H /\ \A k \in H : k <= Largest(H)
  <2>1. H \subseteq {x.highest, y.highest, z.highest, 0} /\ H # {}
    OBVIOUS
  <2> HIDE DEF H
  <2> QED BY <2>1, LargestOfFour
<1>2. Largest(I) \in I /\ \A k \in I : k <= Largest(I)
  <2>1. I \subseteq {x.minimum, y.minimum, z.minimum, 0} /\ I # {}
    OBVIOUS
  <2> HIDE DEF I
  <2> QED BY <2>1, LargestOfFour
<1>3. Largest(G) \in G /\ \A k \in G : k <= Largest(G)
  <2>1. \A m \in M : m \in Markers
    OBVIOUS
  <2>2. G \subseteq {next(x), next(y), next(z), 0} /\ G # {}
    BY <2>1
  <2>3. next(x) \in Nat /\ next(y) \in Nat /\ next(z) \in Nat
    OBVIOUS
  <2> HIDE DEF G, next
  <2> QED BY <2>2, <2>3, LargestOfFour
<1>4. Largest(H) \in Nat /\ Largest(I) \in Nat
  BY <1>1, <1>2
<1>5. Largest(G) \in 0..MaxGen
  <2>1. \A g \in G : g \in 0..MaxGen
    OBVIOUS
  <2> HIDE DEF G
  <2> QED BY <1>3, <2>1
<1>6. Merge(M) = [kind |-> "marker", highest |-> Largest(H), minimum |-> Largest(I),
                  generation |-> Largest(G)]
  BY DEF Merge, Marker, After
<1>7. ASSUME NEW m \in M
      PROVE  /\ m.highest <= Largest(H) /\ m.minimum <= Largest(I)
             /\ Largest(G) > m.generation \/ m.generation = MaxGen
  <2>1. m \in Markers /\ m.highest \in H /\ m.minimum \in I
    OBVIOUS
  <2>2. CASE m.generation < MaxGen
    <3>1. m.generation + 1 \in G
      BY <2>2
    <3> HIDE DEF G, H, I
    <3> QED BY <1>1, <1>2, <1>3, <1>4, <1>5, <2>1, <3>1
  <2>3. CASE m.generation = MaxGen
    <3> HIDE DEF G, H, I
    <3> QED BY <1>1, <1>2, <2>1, <2>3
  <2> QED BY <2>1, <2>2, <2>3
<1> HIDE DEF G, H, I
<1> QED BY <1>4, <1>5, <1>6, <1>7 DEF Raised

-----------------------------------------------------------------------------
(* The steps                                                                 *)

LEMMA InitBridge == Init => BridgeInv
<1> SUFFICES ASSUME Init PROVE BridgeInv
  OBVIOUS
<1> USE NoneAssumption DEF Init
<1>1. /\ DOMAIN st = Proc /\ Old \in Proc
      /\ \A p \in Proc : p # None /\ st[p] = "off"
      /\ \A p \in Daemon : p \in Proc
  BY DEF Proc
<1>2. Types
  <2>1. legacy \in Databases \cup {Missing, Tombstone} /\ modern \in Databases \cup {Missing}
    BY DEF Databases, Database
  <2>2. effective \in [Daemon -> Markers \cup {NoMarker}]
    OBVIOUS
  <2> QED BY <1>1, <2>1, <2>2 DEF Types, DaemonPhase
<1>3. OneStarts /\ ServingIsBound /\ OldHasItsDatabase
  BY <1>1 DEF OneStarts, ServingIsBound, OldHasItsDatabase, In
<1>4. TombstoneIsLast /\ RowHasFloor
  BY DEF TombstoneIsLast, RowHasFloor, Database, Missing, Tombstone
<1>5. \A p \in Daemon : Stage(p)
  BY <1>1 DEF Stage, In, Reconciled, Moving
<1> QED BY <1>2, <1>3, <1>4, <1>5 DEF BridgeInv

(* A process that stops or dies, which may give back its locks *)
LEMMA Down ==
  ASSUME BridgeInv, NEW p \in Proc, Goto(p, "off"),
         socket' = IF socket = p THEN None ELSE socket,
         startLock' = startLock \/ startLock' = IF startLock = p THEN None ELSE startLock,
         UNCHANGED <<marker, legacy, modern, effective, acked, floor>>
  PROVE  BridgeInv'
<1> USE NoneAssumption DEF In, Goto
<1>1. /\ DOMAIN st = Proc /\ st' = [st EXCEPT ![p] = "off"]
      /\ Old \in Proc /\ \A d \in Daemon : d \in Proc /\ d # Old /\ d # None
  BY DEF BridgeInv, Types, Proc
<1>2. \A q \in Proc : st'[q] = IF q = p THEN "off" ELSE st[q]
  BY <1>1
<1>3. Types'
  <2>1. \A q \in Daemon : st'[q] \in DaemonPhase
    BY <1>1, <1>2 DEF BridgeInv, Types, DaemonPhase
  <2>2. st'[Old] \in {"off", "opened", "serving"}
    BY <1>1, <1>2 DEF BridgeInv, Types
  <2>3. DOMAIN st' = Proc
    BY <1>1
  <2> QED BY <2>1, <2>2, <2>3 DEF BridgeInv, Types
<1>4. OneStarts'
  BY <1>1, <1>2 DEF BridgeInv, OneStarts
<1>5. ServingIsBound'
  BY <1>1, <1>2 DEF BridgeInv, ServingIsBound, Proc
<1>6. OldHasItsDatabase' /\ TombstoneIsLast' /\ RowHasFloor'
  BY <1>1, <1>2 DEF BridgeInv, OldHasItsDatabase, TombstoneIsLast, RowHasFloor, Row, Current
<1>7. \A q \in Daemon : Stage(q)'
  <2> SUFFICES ASSUME NEW q \in Daemon PROVE Stage(q)'
    OBVIOUS
  <2>1. CASE st'[q] = "off"
    BY <2>1 DEF Stage, Reconciled, Moving
  <2>2. CASE st'[q] # "off"
    <3>1. st'[q] = st[q] /\ q # p /\ Stage(q)
      BY <1>1, <1>2, <2>2 DEF BridgeInv
    <3>2. In(Old, "off") => In(Old, "off")'
      BY <1>1, <1>2
    <3>3. startLock = q => startLock' = q
      BY <3>1
    <3>4. Row' = Row
      BY DEF Row, Current
    <3> QED BY <3>1, <3>2, <3>3, <3>4 DEF Stage
  <2> QED BY <2>1, <2>2
<1> QED BY <1>3, <1>4, <1>5, <1>6, <1>7 DEF BridgeInv

(* While a daemon takes a step of its own the others are off *)
LEMMA Alone ==
  ASSUME BridgeInv, NEW p \in Daemon, NEW x \in DaemonPhase, Goto(p, x),
         ~In(p, "off") \/ \A d \in Daemon : In(d, "off")
  PROVE  /\ OneStarts' /\ DOMAIN st' = Proc
         /\ \A q \in Daemon : st'[q] \in DaemonPhase
         /\ st'[p] = x /\ st'[Old] = st[Old] /\ p # Old /\ p # None /\ Old # None
         /\ \A q \in Daemon : q # p => st'[q] = "off" /\ st[q] = "off" /\ Stage(q)'
<1> USE NoneAssumption DEF In, Goto
<1>1. /\ DOMAIN st = Proc /\ st' = [st EXCEPT ![p] = x]
      /\ Old \in Proc /\ \A d \in Daemon : d \in Proc /\ d # Old /\ d # None
  BY DEF BridgeInv, Types, Proc
<1>2. \A q \in Proc : st'[q] = IF q = p THEN x ELSE st[q]
  BY <1>1
<1>3. \A q \in Daemon : q # p => st[q] = "off" /\ st'[q] = "off"
  BY <1>1, <1>2 DEF BridgeInv, OneStarts
<1>4. \A q \in Daemon : q # p => Stage(q)'
  BY <1>3 DEF Stage, Reconciled, Moving
<1>5. \A q \in Daemon : st'[q] \in DaemonPhase
  BY <1>1, <1>2 DEF BridgeInv, Types
<1>6. OneStarts'
  BY <1>3 DEF OneStarts
<1> QED BY <1>1, <1>2, <1>3, <1>4, <1>5, <1>6

(* A step that leaves the files and who is bound alone *)
LEMMA Quiet ==
  ASSUME BridgeInv, NEW p \in Daemon, NEW x \in DaemonPhase \ {"serving"}, Goto(p, x),
         ~In(p, "off") \/ \A d \in Daemon : In(d, "off"),
         ~In(p, "serving"),
         In(Old, "opened") => startLock' = Old,
         UNCHANGED <<marker, legacy, modern, socket, effective, acked, floor>>,
         Stage(p)'
  PROVE  BridgeInv'
<1>1. /\ OneStarts' /\ DOMAIN st' = Proc
      /\ \A q \in Daemon : st'[q] \in DaemonPhase
      /\ st'[p] = x /\ st'[Old] = st[Old] /\ p # Old /\ p # None /\ Old # None
      /\ \A q \in Daemon : q # p => st'[q] = "off" /\ st[q] = "off" /\ Stage(q)'
  BY Alone
<1>2. Types'
  BY <1>1 DEF BridgeInv, Types
<1>3. ServingIsBound'
  BY <1>1 DEF BridgeInv, ServingIsBound, Proc, In
<1>4. OldHasItsDatabase' /\ TombstoneIsLast' /\ RowHasFloor'
  BY <1>1 DEF BridgeInv, OldHasItsDatabase, TombstoneIsLast, RowHasFloor, Row, Current, In
<1>5. \A q \in Daemon : Stage(q)'
  BY <1>1
<1> QED BY <1>1, <1>2, <1>3, <1>4, <1>5 DEF BridgeInv

LEMMA BootKeeps == ASSUME BridgeInv, NEW p \in Daemon, Boot(p) PROVE BridgeInv'
<1>1. Stage(p)'
  BY Alone DEF Boot, Stage, Reconciled, Moving, DaemonPhase, In
<1>2. In(Old, "opened") => startLock' = Old
  BY DEF BridgeInv, OldHasItsDatabase, Boot, locks
<1> QED BY Quiet, <1>1, <1>2 DEF Boot, DaemonPhase, files, locks, hist, In

(* What a daemon that throws leaves behind *)
LEMMA ThrowKeeps ==
  ASSUME BridgeInv, NEW p \in Proc, ~In(p, "serving"), Throw(p),
         UNCHANGED <<marker, legacy, modern, socket, effective, acked, floor>>
  PROVE  BridgeInv'
<1>1. socket' = IF socket = p THEN None ELSE socket
  BY DEF BridgeInv, ServingIsBound
<1> QED BY Down, <1>1 DEF Throw, Free

LEMMA LockMarkerKeeps == ASSUME BridgeInv, NEW p \in Daemon, LockMarker(p) PROVE BridgeInv'
<1> USE DEF LockMarker, In
<1>1. CASE lock = None
  <2>1. Stage(p)'
    BY <1>1, Alone DEF Stage, Reconciled, Moving, DaemonPhase
  <2>2. In(Old, "opened") => startLock' = Old
    BY <1>1 DEF BridgeInv, OldHasItsDatabase
  <2> QED BY Quiet, <1>1, <2>1, <2>2 DEF DaemonPhase, files, hist
<1>2. CASE lock # None
  BY <1>2, ThrowKeeps DEF files, hist, Proc
<1> QED BY <1>1, <1>2

(* The marker a daemon reconciles raises both copies, and admits its build *)
LEMMA ReconcileRaises ==
  ASSUME BridgeInv, NEW p \in Daemon, ~(Version[p] < Merge(ValidCopies \cup {Candidate(p)}).minimum)
  PROVE  LET merged == Merge(ValidCopies \cup {Candidate(p)}) IN
         /\ merged \in Markers
         /\ Raised(Row, merged) /\ Raised(marker, merged)
         /\ Version[p] >= merged.minimum /\ Version[p] >= floor
<1> DEFINE M == ValidCopies \cup {Candidate(p)}
           x == Candidate(p)
           y == IF marker.kind = "marker" THEN marker ELSE x
           z == IF Row.kind = "marker" THEN Row ELSE x
<1>1. x \in Markers
  BY VersionAssumption, BoundAssumption DEF Candidate, Marker, Markers
<1>2. Row \in Markers \cup {NoMarker}
  BY DEF BridgeInv, Types, Row, Current, Databases, Missing, Tombstone
<1>3. marker \in Markers \cup {NoMarker, Corrupt}
  BY DEF BridgeInv, Types
<1>4. y \in Markers /\ z \in Markers
  BY <1>1, <1>2, <1>3 DEF NoMarker, Corrupt
<1>5. M \subseteq {x, y, z} /\ M # {}
  BY DEF ValidCopies
<1>6. /\ Row.kind = "marker" => Row \in M
      /\ marker.kind = "marker" => marker \in M
  BY DEF ValidCopies
<1> HIDE DEF x, y, z, M
<1>7. /\ Merge(M) \in Markers
      /\ \A m \in M : m.minimum <= Merge(M).minimum /\ Raised(m, Merge(M))
  BY <1>1, <1>4, <1>5, MergeRaises
<1>8. Raised(Row, Merge(M)) /\ Raised(marker, Merge(M))
  BY <1>6, <1>7 DEF Raised
<1>9. Version[p] >= Merge(M).minimum /\ Version[p] >= floor
  <2>1. Version[p] \in Nat /\ floor \in Nat /\ Merge(M).minimum \in Nat
    BY <1>7, VersionAssumption DEF BridgeInv, Types, Markers
  <2>2. Version[p] >= Merge(M).minimum
    BY <2>1 DEF M
  <2>3. CASE floor = 0
    BY <2>1, <2>2, <2>3
  <2>4. CASE Row.kind = "marker" /\ Row.minimum >= floor
    <3>1. Row.minimum <= Merge(M).minimum /\ Row.minimum \in Nat
      BY <1>2, <1>6, <1>7, <2>4 DEF Markers, NoMarker
    <3> QED BY <2>1, <2>2, <2>4, <3>1
  <2> QED BY <2>3, <2>4 DEF BridgeInv, RowHasFloor
<1> QED BY <1>7, <1>8, <1>9 DEF M

LEMMA ReconcileFileKeeps == ASSUME BridgeInv, NEW p \in Daemon, ReconcileFile(p) PROVE BridgeInv'
<1> DEFINE merged == Merge(ValidCopies \cup {Candidate(p)})
           corrupt == ValidCopies = {} /\ marker = Corrupt
           refused == Current = Tombstone \/ corrupt \/ Version[p] < merged.minimum
<1>1. CASE refused
  <2>1. Throw(p) /\ UNCHANGED <<marker, effective>>
    BY <1>1 DEF ReconcileFile
  <2> HIDE DEF refused
  <2> QED BY <2>1, ThrowKeeps DEF ReconcileFile, hist, Proc, In
<1>2. CASE ~refused
  <2>1. /\ marker' = merged /\ effective' = [effective EXCEPT ![p] = merged]
        /\ Goto(p, "mirroring") /\ UNCHANGED <<lock, startLock>>
        /\ UNCHANGED <<legacy, modern, socket, acked, floor>>
        /\ st[p] = "reconciling"
    BY <1>2 DEF ReconcileFile, WriteFile, locks, hist, In
  <2>2. ~(Version[p] < merged.minimum)
    BY <1>2
  <2>3. /\ merged \in Markers /\ Raised(Row, merged)
        /\ Version[p] >= merged.minimum /\ Version[p] >= floor
    BY <2>2, ReconcileRaises
  <2> HIDE DEF merged, refused
  <2>4. st[p] # "off" /\ "mirroring" \in DaemonPhase
    BY <2>1 DEF DaemonPhase
  <2>5. /\ OneStarts' /\ DOMAIN st' = Proc
        /\ \A q \in Daemon : st'[q] \in DaemonPhase
        /\ st'[p] = "mirroring" /\ st'[Old] = st[Old] /\ p # Old /\ p # None /\ Old # None
        /\ \A q \in Daemon : q # p => st'[q] = "off" /\ st[q] = "off" /\ Stage(q)'
    BY <2>1, <2>4, Alone DEF In
  <2>6. effective' \in [Daemon -> Markers \cup {NoMarker}] /\ effective'[p] = merged
    BY <2>1, <2>3 DEF BridgeInv, Types
  <2>7. Row' = Row
    BY <2>1 DEF Row, Current
  <2>8. Stage(p)'
    <3>1. effective'[p].minimum <= Version[p]
      BY <2>3, <2>6, VersionAssumption DEF Markers
    <3> QED BY <2>3, <2>5, <2>6, <2>7, <3>1 DEF Stage, In, Reconciled, Moving
  <2>9. Types'
    BY <2>1, <2>3, <2>5, <2>6 DEF BridgeInv, Types
  <2>10. ServingIsBound'
    BY <2>1, <2>5 DEF BridgeInv, ServingIsBound, Proc, In
  <2>11. OldHasItsDatabase' /\ TombstoneIsLast' /\ RowHasFloor'
    BY <2>1, <2>5, <2>7 DEF BridgeInv, OldHasItsDatabase, TombstoneIsLast, RowHasFloor, In
  <2> QED BY <2>5, <2>8, <2>9, <2>10, <2>11 DEF BridgeInv
<1> QED BY <1>1, <1>2

(* The floor is the minimum of the marker the row is given *)
LEMMA FloorOfRow ==
  ASSUME BridgeInv, NEW p \in Daemon, In(p, "mirroring"),
         floor' = Largest({floor, effective[p].minimum})
  PROVE  floor' = effective[p].minimum /\ floor' \in Nat /\ floor' <= Version[p]
<1> DEFINE e == effective[p].minimum
<1>1. effective[p] \in Markers /\ e <= Version[p] /\ Raised(Row, effective[p])
  BY DEF BridgeInv, Stage
<1>2. e \in Nat /\ floor \in Nat
  BY <1>1 DEF Markers, BridgeInv, Types
<1>3. floor <= e
  <2>1. CASE floor = 0
    BY <1>2, <2>1
  <2>2. CASE Row.kind = "marker" /\ Row.minimum >= floor
    <3>1. Row \in Markers
      BY <2>2 DEF BridgeInv, Types, Row, Current, Databases, Missing, Tombstone, NoMarker
    <3>2. e >= Row.minimum
      BY <1>1, <1>2, <2>2, <3>1 DEF Raised, Markers
    <3> QED BY <1>2, <2>2, <3>1, <3>2 DEF Markers
  <2> QED BY <2>1, <2>2 DEF BridgeInv, RowHasFloor
<1> HIDE DEF e
<1>4. /\ Largest({floor, e}) \in {floor, e}
      /\ \A k \in {floor, e} : k <= Largest({floor, e})
  BY <1>2, LargestOfFour
<1>5. floor' = e
  BY <1>2, <1>3, <1>4 DEF e
<1> QED BY <1>1, <1>2, <1>5 DEF e

LEMMA WithRowIsDatabase ==
  ASSUME NEW db \in Databases \cup {Missing}, NEW e \in Markers
  PROVE  WithRow(db, e) \in Databases /\ WithRow(db, e).row = e /\ WithRow(db, e).kind = "db"
BY DEF WithRow, Databases, Database, Missing

LEMMA MirrorRowKeeps == ASSUME BridgeInv, NEW p \in Daemon, MirrorRow(p)
  PROVE  BridgeInv' /\ Row' = effective[p] /\ Raised(Row, Row')
<1>1. /\ Goto(p, "reconciled") /\ Free(p) /\ st[p] = "mirroring" /\ In(p, "mirroring")
      /\ floor' = Largest({floor, effective[p].minimum})
      /\ UNCHANGED <<marker, socket, effective, acked>>
      /\ IF modern # Missing
         THEN modern' = WithRow(modern, effective[p]) /\ legacy' = legacy
         ELSE legacy' = WithRow(legacy, effective[p]) /\ modern' = modern
  BY DEF MirrorRow, In
<1>2. st[p] # "off" /\ "reconciled" \in DaemonPhase
  BY <1>1 DEF DaemonPhase, Reconciled
<1>3. /\ OneStarts' /\ DOMAIN st' = Proc
      /\ \A q \in Daemon : st'[q] \in DaemonPhase
      /\ st'[p] = "reconciled" /\ st'[Old] = st[Old] /\ p # Old /\ p # None /\ Old # None
      /\ \A q \in Daemon : q # p => st'[q] = "off" /\ st[q] = "off" /\ Stage(q)'
  BY <1>1, <1>2, Alone DEF In
<1>4. floor' = effective[p].minimum /\ floor' \in Nat /\ floor' <= Version[p]
  BY <1>1, FloorOfRow
<1>5. effective[p] \in Markers /\ Version[p] \in Nat
  BY <1>1, VersionAssumption DEF BridgeInv, Stage
<1>6. /\ modern' \in Databases \cup {Missing} /\ legacy' \in Databases \cup {Missing, Tombstone}
      /\ Row' = effective[p] /\ TombstoneIsLast'
      /\ legacy.kind = "db" => legacy'.kind = "db"
  <2>1. CASE modern # Missing
    <3>1. modern \in Databases /\ modern' = WithRow(modern, effective[p]) /\ legacy' = legacy
      BY <1>1, <2>1 DEF BridgeInv, Types
    <3>2. modern' \in Databases /\ modern'.row = effective[p] /\ modern'.kind = "db"
      BY <1>5, <3>1, WithRowIsDatabase
    <3>3. modern' # Missing
      BY <3>2 DEF Missing
    <3> QED BY <3>1, <3>2, <3>3 DEF BridgeInv, Types, Row, Current, TombstoneIsLast
  <2>2. CASE modern = Missing
    <3>1. legacy \in Databases \cup {Missing} /\ legacy' = WithRow(legacy, effective[p]) /\ modern' = Missing
      BY <1>1, <2>2 DEF BridgeInv, Types, TombstoneIsLast
    <3>2. legacy' \in Databases /\ legacy'.row = effective[p] /\ legacy'.kind = "db"
      BY <1>5, <3>1, WithRowIsDatabase
    <3>3. legacy' # Tombstone
      BY <3>2 DEF Tombstone
    <3> QED BY <3>1, <3>2, <3>3 DEF Row, Current, TombstoneIsLast
  <2> QED BY <2>1, <2>2
<1>7. Types'
  BY <1>1, <1>3, <1>4, <1>6 DEF BridgeInv, Types
<1>8. ServingIsBound'
  BY <1>1, <1>3 DEF BridgeInv, ServingIsBound, Proc, In
<1>9. OldHasItsDatabase' /\ RowHasFloor'
  <2>1. In(Old, "opened") => startLock' = Old
    BY <1>1, <1>3 DEF BridgeInv, OldHasItsDatabase, Free
  <2>2. effective[p].kind = "marker" /\ effective[p].minimum >= floor'
    BY <1>4, <1>5 DEF Markers
  <2> QED BY <1>3, <1>6, <2>1, <2>2 DEF BridgeInv, OldHasItsDatabase, RowHasFloor, In
<1>10. Stage(p)'
  <2>1. Version[p] >= floor'
    BY <1>4, <1>5
  <2> QED BY <1>3, <2>1 DEF Stage, In, Reconciled, Moving
<1>11. Raised(Row, Row')
  BY <1>1, <1>6 DEF BridgeInv, Stage
<1> QED BY <1>3, <1>6, <1>7, <1>8, <1>9, <1>10, <1>11 DEF BridgeInv

LEMMA LockStorageKeeps == ASSUME BridgeInv, NEW p \in Daemon, LockStorage(p) PROVE BridgeInv'
<1> USE DEF LockStorage, In
<1>1. CASE Unowned(startLock) /\ lock = None
  <2>1. Stage(p)'
    BY <1>1, Alone DEF BridgeInv, Stage, Reconciled, Moving, DaemonPhase, hist
  <2>2. st[Old] # "opened"
    BY <1>1, NoneAssumption DEF BridgeInv, OldHasItsDatabase, Unowned, Alive
  <2> QED BY Quiet, <1>1, <2>1, <2>2 DEF DaemonPhase, Reconciled, files, hist
<1>2. CASE ~(Unowned(startLock) /\ lock = None)
  BY <1>2, ThrowKeeps DEF files, hist, Proc
<1> QED BY <1>1, <1>2

LEMMA CheckStorageKeeps == ASSUME BridgeInv, NEW p \in Daemon, CheckStorage(p) PROVE BridgeInv'
<1> USE DEF In
<1>1. st[p] = "checking" /\ UNCHANGED <<marker, legacy, modern, socket, effective, acked, floor>>
  BY DEF CheckStorage, files, hist
<1>2. startLock = p /\ Version[p] >= floor /\ st[Old] \in {"off", "opened", "serving"} /\ p # Old
  BY <1>1, NoneAssumption DEF BridgeInv, Stage, Reconciled, Moving, Types
<1>3. ASSUME NEW x \in {"publishing", "archiving", "binding"}, Goto(p, x), socket = None, UNCHANGED locks,
             x = "publishing" => legacy.kind = "db" /\ modern = Missing,
             x = "archiving" => legacy.kind = "db" /\ modern # Missing,
             x = "binding" => legacy = Tombstone
      PROVE  BridgeInv'
  <2>1. st[Old] = "off"
    BY <1>2, <1>3, NoneAssumption DEF BridgeInv, OldHasItsDatabase, ServingIsBound, Proc
  <2>2. x \in DaemonPhase \ {"serving"}
    BY DEF DaemonPhase, Reconciled, Moving
  <2>3. Stage(p)'
    BY <1>1, <1>2, <1>3, <2>1, <2>2, Alone DEF Stage, Reconciled, Moving, locks
  <2> QED BY <1>1, <1>3, <2>1, <2>2, <2>3, Quiet
<1>4. CASE Throw(p)
  BY <1>1, <1>4, ThrowKeeps DEF Proc
<1>5. CASE socket = None /\ modern # Missing /\ legacy = Tombstone /\ Goto(p, "binding") /\ UNCHANGED locks
  BY <1>3, <1>5
<1>6. CASE socket = None /\ legacy.kind = "db" /\ UNCHANGED locks
           /\ Goto(p, IF modern = Missing THEN "publishing" ELSE "archiving")
  BY <1>3, <1>6
<1> QED BY <1>4, <1>5, <1>6 DEF CheckStorage

(* A step that moves the database and leaves the row as it was *)
LEMMA Moves ==
  ASSUME BridgeInv, NEW p \in Daemon, NEW x \in Moving, Goto(p, x), st[p] \in Moving,
         UNCHANGED <<marker, startLock, socket, effective, acked, floor>>,
         legacy' \in Databases \cup {Missing, Tombstone},
         modern' \in Databases \cup {Missing},
         Row' = Row, TombstoneIsLast',
         x = "archiving" => legacy'.kind = "db" /\ modern' # Missing,
         x = "quarantining" => modern' # Missing,
         x = "binding" => legacy' = Tombstone,
         x # "publishing"
  PROVE  BridgeInv'
<1>1. st[p] # "off" /\ st[p] # "serving" /\ x \in DaemonPhase /\ x # "serving"
  BY DEF DaemonPhase, Reconciled, Moving
<1>2. /\ OneStarts' /\ DOMAIN st' = Proc
      /\ \A q \in Daemon : st'[q] \in DaemonPhase
      /\ st'[p] = x /\ st'[Old] = st[Old] /\ p # Old /\ p # None /\ Old # None
      /\ \A q \in Daemon : q # p => st'[q] = "off" /\ st[q] = "off" /\ Stage(q)'
  BY <1>1, Alone DEF In
<1>3. Version[p] >= floor /\ startLock = p /\ st[Old] = "off"
  BY DEF BridgeInv, Stage, Reconciled, In
<1>4. Types'
  BY <1>2 DEF BridgeInv, Types
<1>5. ServingIsBound'
  BY <1>1, <1>2 DEF BridgeInv, ServingIsBound, Proc, In
<1>6. OldHasItsDatabase' /\ RowHasFloor'
  BY <1>2, <1>3 DEF BridgeInv, OldHasItsDatabase, RowHasFloor, In
<1>7. Stage(p)'
  BY <1>2, <1>3 DEF Stage, Reconciled, Moving, In
<1> QED BY <1>2, <1>4, <1>5, <1>6, <1>7 DEF BridgeInv

LEMMA PublishModernKeeps == ASSUME BridgeInv, NEW p \in Daemon, PublishModern(p)
  PROVE  BridgeInv' /\ Row' = Row
<1> USE DEF PublishModern, In, Moving
<1>1. legacy.kind = "db" /\ modern = Missing
  BY DEF BridgeInv, Stage
<1>2. legacy \in Databases /\ legacy # Missing /\ legacy # Tombstone
  BY <1>1 DEF BridgeInv, Types, Missing, Tombstone
<1>3. Row' = Row /\ TombstoneIsLast'
  BY <1>1, <1>2 DEF Row, Current, TombstoneIsLast
<1> QED BY <1>1, <1>2, <1>3, Moves DEF locks, hist

LEMMA ArchiveLegacyKeeps == ASSUME BridgeInv, NEW p \in Daemon, ArchiveLegacy(p)
  PROVE  BridgeInv' /\ Row' = Row
<1> USE DEF ArchiveLegacy, In, Moving
<1>1. modern # Missing /\ modern \in Databases
  BY DEF BridgeInv, Stage, Types
<1>2. Row' = Row /\ TombstoneIsLast'
  BY <1>1 DEF Row, Current, TombstoneIsLast, Missing, Tombstone
<1> QED BY <1>1, <1>2, Moves DEF locks, hist

LEMMA QuarantineKeeps == ASSUME BridgeInv, NEW p \in Daemon, PublishQuarantineTombstone(p)
  PROVE  BridgeInv' /\ Row' = Row
<1> USE DEF PublishQuarantineTombstone, In, Moving
<1>1. modern # Missing /\ modern \in Databases
  BY DEF BridgeInv, Stage, Types
<1>2. Row' = Row /\ TombstoneIsLast'
  BY <1>1 DEF Row, Current, TombstoneIsLast
<1> QED BY <1>1, <1>2, Moves DEF locks, hist

LEMMA BindGuardKeeps == ASSUME BridgeInv, NEW p \in Daemon, BindGuard(p) PROVE BridgeInv'
<1> USE DEF In
<1>1. st[p] = "binding" /\ UNCHANGED <<marker, legacy, modern, effective, acked, floor>>
  BY DEF BindGuard, files, hist
<1>2. CASE socket = None
  <2>1. socket' = p /\ Goto(p, "serving") /\ Free(p)
    BY <1>2 DEF BindGuard
  <2>2. "serving" \in DaemonPhase
    BY DEF DaemonPhase, Reconciled
  <2>3. /\ OneStarts' /\ DOMAIN st' = Proc
        /\ \A q \in Daemon : st'[q] \in DaemonPhase
        /\ st'[p] = "serving" /\ st'[Old] = st[Old] /\ p # Old /\ p # None /\ Old # None
        /\ \A q \in Daemon : q # p => st'[q] = "off" /\ st[q] = "off" /\ Stage(q)'
    BY <1>1, <2>1, <2>2, Alone
  <2>4. legacy = Tombstone /\ Version[p] >= floor /\ st[Old] = "off"
    BY <1>1 DEF BridgeInv, Stage, Reconciled, Moving
  <2>5. Types'
    BY <1>1, <2>1, <2>3 DEF BridgeInv, Types, Proc
  <2>6. ServingIsBound'
    BY <1>2, <2>1, <2>3, <2>4 DEF ServingIsBound, Proc
  <2>7. OldHasItsDatabase' /\ TombstoneIsLast' /\ RowHasFloor'
    BY <1>1, <2>3, <2>4 DEF BridgeInv, OldHasItsDatabase, TombstoneIsLast, RowHasFloor, Row, Current
  <2>8. Stage(p)'
    BY <1>1, <2>3, <2>4 DEF Stage, Reconciled, Moving
  <2> QED BY <2>3, <2>5, <2>6, <2>7, <2>8 DEF BridgeInv
<1>3. CASE socket # None
  BY <1>1, <1>3, ThrowKeeps DEF BindGuard, Proc
<1> QED BY <1>2, <1>3

LEMMA StopKeeps == ASSUME BridgeInv, NEW p \in Proc, Stop(p) PROVE BridgeInv'
<1>1. socket = p
  BY DEF BridgeInv, ServingIsBound, Stop
<1> QED BY <1>1, Down DEF Stop, Throw, Free, files, hist

LEMMA KillKeeps == ASSUME BridgeInv, NEW p \in Proc, Kill(p) PROVE BridgeInv'
BY Down DEF Kill, files, locks, hist

LEMMA FailKeeps == ASSUME BridgeInv, NEW p \in Daemon, Fail(p) PROVE BridgeInv'
BY ThrowKeeps DEF Fail, Proc, In, files, hist

LEMMA OldOpenKeeps == ASSUME BridgeInv, OldOpen PROVE BridgeInv' /\ Row' = Row
<1> USE NoneAssumption DEF In
<1>1. /\ st' = [st EXCEPT ![Old] = "opened"] /\ startLock' = Old
      /\ legacy' = IF legacy = Missing THEN Database(NoMarker, {}) ELSE legacy
      /\ UNCHANGED <<marker, modern, socket, effective, acked, floor>>
      /\ socket = None /\ legacy # Tombstone /\ Unowned(startLock) /\ st[Old] = "off"
  BY DEF OldOpen, Goto, hist
<1>2. DOMAIN st = Proc /\ Old \in Proc /\ \A d \in Daemon : d \in Proc /\ d # Old /\ d # None
  BY DEF BridgeInv, Types, Proc
<1>3. /\ DOMAIN st' = Proc /\ st'[Old] = "opened" /\ \A d \in Daemon : st'[d] = st[d]
  BY <1>1, <1>2
<1>4. legacy' \in Databases /\ legacy'.kind = "db" /\ legacy' # Tombstone
  BY <1>1 DEF BridgeInv, Types, Databases, Database, Missing, Tombstone, NoMarker
<1>5. Row' = Row
  BY <1>1 DEF Row, Current, Database, Missing
<1>6. Types'
  BY <1>1, <1>3, <1>4 DEF BridgeInv, Types
<1>7. OneStarts' /\ ServingIsBound'
  BY <1>1, <1>3 DEF BridgeInv, OneStarts, ServingIsBound, Proc
<1>8. OldHasItsDatabase' /\ TombstoneIsLast' /\ RowHasFloor'
  BY <1>1, <1>3, <1>4, <1>5 DEF BridgeInv, OldHasItsDatabase, TombstoneIsLast, RowHasFloor
<1>9. \A p \in Daemon : Stage(p)'
  <2> SUFFICES ASSUME NEW p \in Daemon PROVE Stage(p)'
    OBVIOUS
  <2>1. Stage(p)
    BY DEF BridgeInv
  <2>2. st[p] \notin Moving \cup {"checking"}
    BY <1>1, <1>2, <2>1 DEF Stage, Unowned, Alive, Moving
  <2>3. st[p] # "serving"
    BY <1>1, <2>1 DEF Stage
  <2> QED BY <1>1, <1>3, <1>5, <2>1, <2>2, <2>3 DEF Stage, Reconciled, Moving
<1> QED BY <1>5, <1>6, <1>7, <1>8, <1>9 DEF BridgeInv

LEMMA OldServeKeeps == ASSUME BridgeInv, OldServe PROVE BridgeInv'
<1> USE NoneAssumption DEF In
<1>1. st[Old] = "opened" /\ UNCHANGED <<marker, legacy, modern, effective, acked, floor>> /\ Old \in Proc
  BY DEF OldServe, files, hist, Proc
<1>2. CASE socket = None
  <2>1. socket' = Old /\ st' = [st EXCEPT ![Old] = "serving"]
    BY <1>2 DEF OldServe, Goto
  <2>2. DOMAIN st = Proc /\ \A d \in Daemon : d \in Proc /\ d # Old /\ d # None
    BY DEF BridgeInv, Types, Proc
  <2>3. /\ DOMAIN st' = Proc /\ st'[Old] = "serving" /\ \A d \in Daemon : st'[d] = st[d]
    BY <1>1, <2>1, <2>2
  <2>4. Types' /\ OneStarts'
    BY <1>1, <2>1, <2>3 DEF BridgeInv, Types, OneStarts
  <2>5. ServingIsBound'
    BY <1>2, <2>1, <2>3 DEF BridgeInv, ServingIsBound, Proc
  <2>6. OldHasItsDatabase' /\ TombstoneIsLast' /\ RowHasFloor'
    BY <1>1, <2>3 DEF BridgeInv, OldHasItsDatabase, TombstoneIsLast, RowHasFloor, Row, Current
  <2>7. \A p \in Daemon : Stage(p)'
    <3> SUFFICES ASSUME NEW p \in Daemon PROVE Stage(p)'
      OBVIOUS
    <3>1. Stage(p) /\ startLock = Old
      BY <1>1 DEF BridgeInv, OldHasItsDatabase
    <3>2. st[p] \notin Moving \cup {"checking", "serving"}
      BY <1>1, <2>2, <3>1 DEF Stage, Moving
    <3> QED BY <1>1, <2>3, <3>1, <3>2 DEF Stage, Reconciled, Moving, Row, Current
  <2> QED BY <2>4, <2>5, <2>6, <2>7 DEF BridgeInv
<1>3. CASE socket # None
  BY <1>1, <1>3, ThrowKeeps DEF OldServe
<1> QED BY <1>2, <1>3

LEMMA RecordKeeps ==
  ASSUME BridgeInv, NEW p \in Proc, NEW r \in Reminder, Record(p, r)
  PROVE  BridgeInv' /\ Row' = Row
<1> USE DEF In
<1>1. st[p] = "serving" /\ UNCHANGED <<marker, startLock, socket, st, effective, floor>> /\ acked' = acked \cup {r}
  BY DEF Record, locks
<1>2. /\ legacy' \in Databases \cup {Missing, Tombstone} /\ modern' \in Databases \cup {Missing}
      /\ Row' = Row /\ TombstoneIsLast'
      /\ legacy.kind = "db" => legacy'.kind = "db"
      /\ legacy = Tombstone => legacy' = Tombstone
  <2>1. CASE p = Old
    <3>1. legacy.kind = "db" /\ legacy \in Databases
      BY <1>1, <2>1 DEF BridgeInv, OldHasItsDatabase, Types, Missing, Tombstone
    <3>2. legacy' = [legacy EXCEPT !.reminders = @ \cup {r}] /\ modern' = modern
      BY <2>1 DEF Record
    <3>3. legacy' \in Databases /\ legacy'.kind = "db" /\ legacy'.row = legacy.row
      BY <3>1, <3>2 DEF Databases
    <3>4. legacy # Tombstone /\ legacy' # Tombstone
      BY <3>1, <3>3 DEF Tombstone
    <3> QED BY <3>1, <3>2, <3>3, <3>4 DEF BridgeInv, Types, Row, Current, TombstoneIsLast
  <2>2. CASE p # Old
    <3>1. p \in Daemon /\ legacy = Tombstone /\ modern # Missing
      BY <1>1, <2>2 DEF BridgeInv, Stage, TombstoneIsLast, Proc
    <3>2. modern \in Databases
      BY <3>1 DEF BridgeInv, Types
    <3>3. modern' = [modern EXCEPT !.reminders = @ \cup {r}] /\ legacy' = legacy
      BY <2>2 DEF Record
    <3>4. modern' \in Databases /\ modern'.kind = "db" /\ modern.kind = "db" /\ modern'.row = modern.row
      BY <3>2, <3>3 DEF Databases
    <3>5. modern' # Missing
      BY <3>4 DEF Missing
    <3> QED BY <3>1, <3>2, <3>3, <3>4, <3>5 DEF BridgeInv, Types, Row, Current, TombstoneIsLast
  <2> QED BY <2>1, <2>2
<1>3. Types'
  BY <1>1, <1>2 DEF BridgeInv, Types
<1>4. OneStarts' /\ ServingIsBound' /\ OldHasItsDatabase' /\ RowHasFloor'
  BY <1>1, <1>2 DEF BridgeInv, OneStarts, ServingIsBound, OldHasItsDatabase, RowHasFloor
<1>5. \A q \in Daemon : Stage(q)'
  <2> SUFFICES ASSUME NEW q \in Daemon PROVE Stage(q)'
    OBVIOUS
  <2>1. Stage(q) /\ q # Old
    BY NoneAssumption DEF BridgeInv
  <2>2. q = p \/ st[q] \notin Moving
    BY <1>1, <2>1 DEF BridgeInv, OneStarts, Stage, Proc, Moving
  <2> QED BY <1>1, <1>2, <2>1, <2>2 DEF Stage, Moving, Reconciled
<1> QED BY <1>2, <1>3, <1>4, <1>5 DEF BridgeInv

LEMMA CorruptFileKeeps == ASSUME BridgeInv, CorruptFile PROVE BridgeInv'
<1>1. marker' = Corrupt /\ UNCHANGED <<legacy, modern, startLock, socket, st, effective, acked, floor>>
  BY DEF CorruptFile, locks, hist
<1>2. Types'
  BY <1>1 DEF BridgeInv, Types
<1>3. /\ OneStarts' /\ ServingIsBound' /\ OldHasItsDatabase' /\ TombstoneIsLast' /\ RowHasFloor'
  BY <1>1 DEF BridgeInv, OneStarts, ServingIsBound, OldHasItsDatabase, TombstoneIsLast, RowHasFloor,
              Row, Current, In
<1>4. \A p \in Daemon : Stage(p)'
  BY <1>1 DEF BridgeInv, Stage, Row, Current, In
<1> QED BY <1>2, <1>3, <1>4 DEF BridgeInv

(* A step that leaves all but the marker's lock alone *)
LEMMA IdleKeeps ==
  ASSUME BridgeInv, UNCHANGED <<marker, legacy, modern, startLock, socket, st, effective, acked, floor>>
  PROVE  BridgeInv' /\ Row' = Row
<1>1. Types'
  BY DEF BridgeInv, Types
<1>2. /\ OneStarts' /\ ServingIsBound' /\ OldHasItsDatabase' /\ TombstoneIsLast' /\ RowHasFloor'
  BY DEF BridgeInv, OneStarts, ServingIsBound, OldHasItsDatabase, TombstoneIsLast, RowHasFloor,
         Row, Current, In
<1>3. \A p \in Daemon : Stage(p)'
  BY DEF BridgeInv, Stage, Row, Current, In
<1> QED BY <1>1, <1>2, <1>3 DEF BridgeInv, Row, Current

LEMMA BridgeStep == BridgeInv /\ [Next]_vars => BridgeInv'
<1> SUFFICES ASSUME BridgeInv, [Next]_vars PROVE BridgeInv'
  OBVIOUS
<1>1. ASSUME NEW p \in Daemon, Boot(p) PROVE BridgeInv'
  BY <1>1, BootKeeps
<1>2. ASSUME NEW p \in Daemon, Start(p) PROVE BridgeInv'
  BY <1>2, LockMarkerKeeps, ReconcileFileKeeps, MirrorRowKeeps, LockStorageKeeps, CheckStorageKeeps,
     PublishModernKeeps, ArchiveLegacyKeeps, QuarantineKeeps, BindGuardKeeps DEF Start
<1>3. ASSUME NEW p \in Daemon, Fail(p) PROVE BridgeInv'
  BY <1>3, FailKeeps
<1>4. CASE OldOpen
  BY <1>4, OldOpenKeeps
<1>5. CASE OldServe
  BY <1>5, OldServeKeeps
<1>6. ASSUME NEW p \in Proc, Stop(p) PROVE BridgeInv'
  BY <1>6, StopKeeps
<1>7. ASSUME NEW p \in Proc, Kill(p) PROVE BridgeInv'
  BY <1>7, KillKeeps
<1>8. ASSUME NEW p \in Proc, NEW r \in Reminder, Record(p, r) PROVE BridgeInv'
  BY <1>8, RecordKeeps
<1>9. CASE CorruptFile
  BY <1>9, CorruptFileKeeps
<1>10. CASE RemoveLock
  BY <1>10, IdleKeeps DEF RemoveLock, files, hist
<1>11. CASE UNCHANGED vars
  BY <1>11, IdleKeeps DEF vars, files, locks, hist
<1> QED BY <1>1, <1>2, <1>3, <1>4, <1>5, <1>6, <1>7, <1>8, <1>9, <1>10, <1>11 DEF Next

(* The strengthening the theorems rest on: what is true of the files and of each   *)
(* process at every step of a start, and what a start that was cut off left behind *)
THEOREM BridgeInvariant == Spec => []BridgeInv
BY InitBridge, BridgeStep, PTL DEF Spec

-----------------------------------------------------------------------------
(* The marker                                                                *)

(* No daemon below a minimum version that reached both copies of the marker serves *)
(* requests: it compares its build with what both copies say before it goes on, and *)
(* the row is copied with the database.                                            *)
THEOREM BelowTheFloorIsKeptOut == Spec => []BelowFloorKeptOut
<1>1. BridgeInv => BelowFloorKeptOut
  BY DEF BridgeInv, Stage, BelowFloorKeptOut, In, Reconciled
<1> QED BY <1>1, BridgeInvariant, PTL

LEMMA StepRaises == BridgeInv /\ [Next]_vars => Raised(marker, marker') /\ Raised(Row, Row')
<1> SUFFICES ASSUME BridgeInv, [Next]_vars PROVE Raised(marker, marker') /\ Raised(Row, Row')
  OBVIOUS
<1>1. ASSUME UNCHANGED <<legacy, modern>> PROVE Row' = Row
  BY <1>1 DEF Row, Current
<1>2. ASSUME NEW p \in Daemon, ReconcileFile(p) PROVE Raised(marker, marker') /\ Row' = Row
  <2>1. Row' = Row
    BY <1>1, <1>2 DEF ReconcileFile
  <2>2. CASE marker' = marker
    BY <2>1, <2>2 DEF Raised
  <2>3. CASE marker' # marker
    <3> DEFINE merged == Merge(ValidCopies \cup {Candidate(p)})
    <3>1. marker' = merged /\ ~(Version[p] < merged.minimum)
      BY <1>2, <2>3 DEF ReconcileFile, WriteFile
    <3> QED BY <2>1, <3>1, ReconcileRaises
  <2> QED BY <2>2, <2>3
<1>3. ASSUME NEW p \in Daemon, MirrorRow(p) PROVE marker' = marker /\ Raised(Row, Row')
  BY <1>3, MirrorRowKeeps DEF MirrorRow
<1>4. CASE CorruptFile
  <2>1. marker' = Corrupt /\ Row' = Row
    BY <1>1, <1>4 DEF CorruptFile
  <2> QED BY <2>1 DEF Raised, Corrupt
<1>5. CASE marker' = marker /\ Row' = Row
  BY <1>5 DEF Raised
<1>6. ASSUME NEW p \in Daemon, PublishModern(p) \/ ArchiveLegacy(p) \/ PublishQuarantineTombstone(p)
      PROVE  marker' = marker /\ Row' = Row
  BY <1>6, PublishModernKeeps, ArchiveLegacyKeeps, QuarantineKeeps
     DEF PublishModern, ArchiveLegacy, PublishQuarantineTombstone
<1>7. ASSUME NEW p \in Daemon, Boot(p) \/ LockMarker(p) \/ LockStorage(p) \/ CheckStorage(p) \/ BindGuard(p) \/ Fail(p)
      PROVE  marker' = marker /\ Row' = Row
  BY <1>1, <1>7 DEF Boot, LockMarker, LockStorage, CheckStorage, BindGuard, Fail, files
<1>8. ASSUME NEW p \in Proc, Stop(p) \/ Kill(p) PROVE marker' = marker /\ Row' = Row
  BY <1>1, <1>8 DEF Stop, Kill, files
<1>9. ASSUME NEW p \in Proc, NEW r \in Reminder, Record(p, r) PROVE marker' = marker /\ Row' = Row
  BY <1>9, RecordKeeps DEF Record
<1>10. CASE OldOpen
  BY <1>5, <1>10, OldOpenKeeps DEF OldOpen
<1>11. CASE OldServe \/ RemoveLock \/ UNCHANGED vars
  BY <1>1, <1>5, <1>11 DEF OldServe, RemoveLock, vars, files
<1> QED BY <1>2, <1>3, <1>4, <1>5, <1>6, <1>7, <1>8, <1>9, <1>10, <1>11 DEF Next, Start, Raised

(* Neither copy of the marker is ever lowered, whichever daemon crashed between    *)
(* writing the file and the row: the merge takes the largest of both and of its own *)
(* candidate, and the row is raised to what was merged with it.                    *)
THEOREM NeitherCopyIsLowered == Spec => NeitherCopyLowered
<1>1. BridgeInv /\ [Next]_vars => [Raised(marker, marker') /\ Raised(Row, Row')]_vars
  BY StepRaises
<1> QED BY <1>1, BridgeInvariant, PTL DEF Spec, NeitherCopyLowered

-----------------------------------------------------------------------------
(* The database                                                              *)

(* Once a daemon that knows the bridge serves, the old path holds the tombstone and *)
(* the old daemon does not run.                                                    *)
THEOREM OneAuthorityServes == Spec => []OneAuthority
<1>1. BridgeInv => OneAuthority
  BY DEF BridgeInv, Stage, OneAuthority, Alive, In, Moving
<1> QED BY <1>1, BridgeInvariant, PTL

KeptInv == Recorded /\ LateIsAfter

LEMMA InitKept == Init => KeptInv
BY DEF Init, KeptInv, Recorded, LateIsAfter, Current, Database, Missing

(* A step that leaves what is at the two paths, and records nothing *)
LEMMA KeptAsItIs ==
  ASSUME KeptInv, UNCHANGED <<legacy, modern, acked, late>>
  PROVE  KeptInv'
BY DEF KeptInv, Recorded, LateIsAfter, Current

LEMMA KeptByMirrorRow ==
  ASSUME BridgeInv, KeptInv, NEW p \in Daemon, MirrorRow(p)
  PROVE  KeptInv'
<1>1. effective[p] \in Markers /\ acked' = acked /\ late' = late
  BY DEF MirrorRow, BridgeInv, Stage
<1>2. CASE modern # Missing
  <2>1. modern \in Databases /\ modern' = [modern EXCEPT !.row = effective[p]] /\ legacy' = legacy
    BY <1>2 DEF MirrorRow, WithRow, BridgeInv, Types
  <2>2. modern'.kind = "db" /\ modern'.reminders = modern.reminders /\ modern.kind = "db" /\ modern' # Missing
    BY <2>1 DEF Databases, Missing
  <2> QED BY <1>1, <1>2, <2>2 DEF KeptInv, Recorded, LateIsAfter, Current
<1>3. CASE modern = Missing
  <2>1. legacy \in Databases \cup {Missing} /\ modern' = Missing
    BY <1>3 DEF MirrorRow, BridgeInv, Types, TombstoneIsLast
  <2>2. CASE legacy = Missing
    <3>1. acked \ late = {} /\ legacy' = Database(effective[p], {})
      BY <1>3, <2>2 DEF MirrorRow, WithRow, KeptInv, Recorded, Current, Missing
    <3> QED BY <1>1, <1>3, <2>1, <3>1 DEF KeptInv, Recorded, LateIsAfter, Current, Database
  <2>3. CASE legacy # Missing
    <3>1. legacy' = [legacy EXCEPT !.row = effective[p]] /\ legacy \in Databases
      BY <1>3, <2>1, <2>3 DEF MirrorRow, WithRow
    <3>2. legacy'.kind = "db" /\ legacy'.reminders = legacy.reminders /\ legacy.kind = "db"
      BY <3>1 DEF Databases
    <3> QED BY <1>1, <1>3, <2>1, <3>2 DEF KeptInv, Recorded, LateIsAfter, Current
  <2> QED BY <2>2, <2>3
<1> QED BY <1>2, <1>3

LEMMA KeptByMoves ==
  ASSUME BridgeInv, KeptInv, NEW p \in Daemon,
         PublishModern(p) \/ ArchiveLegacy(p) \/ PublishQuarantineTombstone(p)
  PROVE  KeptInv'
<1>1. acked' = acked /\ late' = late
  BY DEF PublishModern, ArchiveLegacy, PublishQuarantineTombstone, hist
<1>2. CASE PublishModern(p)
  <2>1. modern' = legacy /\ legacy' = legacy /\ modern = Missing /\ legacy.kind = "db"
    BY <1>2 DEF PublishModern, BridgeInv, Stage
  <2>2. legacy # Missing
    BY <2>1 DEF Missing
  <2> QED BY <1>1, <2>1, <2>2 DEF KeptInv, Recorded, LateIsAfter, Current
<1>3. CASE ArchiveLegacy(p) \/ PublishQuarantineTombstone(p)
  <2>1. modern' = modern /\ modern # Missing
    BY <1>3 DEF ArchiveLegacy, PublishQuarantineTombstone, BridgeInv, Stage
  <2> QED BY <1>1, <2>1 DEF KeptInv, Recorded, LateIsAfter, Current
<1> QED BY <1>2, <1>3

LEMMA KeptByRecord ==
  ASSUME BridgeInv, KeptInv, NEW p \in Proc, NEW r \in Reminder, Record(p, r)
  PROVE  KeptInv'
<1>1. st[p] = "serving" /\ acked' = acked \cup {r}
  BY DEF Record, In
<1>2. CASE p = Old /\ modern = Missing
  <2>1. modern' = modern /\ late' = late /\ legacy.kind = "db" /\ legacy \in Databases
    BY <1>1, <1>2 DEF Record, BridgeInv, OldHasItsDatabase, Types, In, Missing, Tombstone
  <2>2. legacy' = [legacy EXCEPT !.reminders = @ \cup {r}]
    BY <1>2 DEF Record
  <2>3. legacy'.kind = "db" /\ legacy'.reminders = legacy.reminders \cup {r}
    BY <2>1, <2>2 DEF Databases
  <2> QED BY <1>1, <1>2, <2>1, <2>3 DEF KeptInv, Recorded, LateIsAfter, Current
<1>3. CASE p = Old /\ modern # Missing
  <2>1. modern' = modern /\ late' = late \cup {r} /\ modern.kind = "db"
    BY <1>3 DEF Record, BridgeInv, Types, Databases
  <2> QED BY <1>1, <1>3, <2>1 DEF KeptInv, Recorded, LateIsAfter, Current
<1>4. CASE p # Old
  <2>1. p \in Daemon /\ modern # Missing /\ legacy' = legacy /\ late' = late
    BY <1>1, <1>4 DEF Record, BridgeInv, Stage, TombstoneIsLast, Proc, In
  <2>2. modern \in Databases /\ modern' = [modern EXCEPT !.reminders = @ \cup {r}]
    BY <1>4, <2>1 DEF Record, BridgeInv, Types
  <2>3. modern'.kind = "db" /\ modern'.reminders = modern.reminders \cup {r} /\ modern.kind = "db"
    BY <2>2 DEF Databases
  <2>4. modern' # Missing
    BY <2>3 DEF Missing
  <2> QED BY <1>1, <2>1, <2>3, <2>4 DEF KeptInv, Recorded, LateIsAfter, Current
<1> QED BY <1>2, <1>3, <1>4

LEMMA KeptByOldOpen ==
  ASSUME BridgeInv, KeptInv, OldOpen
  PROVE  KeptInv'
<1>1. modern' = modern /\ acked' = acked /\ late' = late
  BY DEF OldOpen, hist
<1>2. CASE legacy = Missing /\ modern = Missing
  <2>1. acked \ late = {} /\ legacy' = Database(NoMarker, {})
    BY <1>2 DEF OldOpen, KeptInv, Recorded, Current, Missing
  <2> QED BY <1>1, <1>2, <2>1 DEF KeptInv, Recorded, LateIsAfter, Current, Database
<1>3. CASE legacy # Missing \/ modern # Missing
  BY <1>1, <1>3 DEF OldOpen, KeptInv, Recorded, LateIsAfter, Current
<1> QED BY <1>2, <1>3

LEMMA KeptStep == BridgeInv /\ KeptInv /\ [Next]_vars => KeptInv'
<1> SUFFICES ASSUME BridgeInv, KeptInv, [Next]_vars PROVE KeptInv'
  OBVIOUS
<1>1. ASSUME NEW p \in Daemon, Boot(p) \/ LockMarker(p) \/ ReconcileFile(p) \/ LockStorage(p)
                               \/ CheckStorage(p) \/ BindGuard(p) \/ Fail(p)
      PROVE  KeptInv'
  <2>1. UNCHANGED <<legacy, modern, acked, late>>
    BY <1>1 DEF Boot, LockMarker, ReconcileFile, LockStorage, CheckStorage, BindGuard, Fail, files, hist
  <2> QED BY <2>1, KeptAsItIs
<1>2. ASSUME NEW p \in Daemon, MirrorRow(p) PROVE KeptInv'
  BY <1>2, KeptByMirrorRow
<1>3. ASSUME NEW p \in Daemon, PublishModern(p) \/ ArchiveLegacy(p) \/ PublishQuarantineTombstone(p)
      PROVE  KeptInv'
  BY <1>3, KeptByMoves
<1>4. ASSUME NEW p \in Proc, NEW r \in Reminder, Record(p, r) PROVE KeptInv'
  BY <1>4, KeptByRecord
<1>5. CASE OldOpen
  BY <1>5, KeptByOldOpen
<1>6. CASE OldServe \/ CorruptFile \/ RemoveLock \/ UNCHANGED vars \/ \E p \in Proc : Stop(p) \/ Kill(p)
  BY <1>6, KeptAsItIs DEF OldServe, CorruptFile, RemoveLock, Stop, Kill, vars, files, hist
<1> QED BY <1>1, <1>2, <1>3, <1>4, <1>5, <1>6 DEF Next, Start

(* A reminder recorded by whichever daemon served is in the database that the next one  *)
(* opens, through every crash of the copy, of the archive and of the tombstone, and      *)
(* however often the old daemon is started in between, but for what the old daemon       *)
(* itself records once its database has been copied.                                     *)
THEOREM NoReminderIsLost == Spec => []ReminderKept
<1>1. KeptInv => ReminderKept
  BY DEF KeptInv, Recorded, ReminderKept
<1> QED BY <1>1, InitKept, KeptStep, BridgeInvariant, PTL DEF Spec
=============================================================================
