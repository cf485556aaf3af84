--------------------------- MODULE StorageBridge ---------------------------
(***************************************************************************)
(* The files a starting daemon takes over: the compatibility marker, kept  *)
(* as a file and as a row of the database (compatibility-marker*.ts), and  *)
(* the one-time bridge that copies the database of a daemon from before it *)
(* to a new path and leaves a tombstone at the old one (storage-bridge.ts).*)
(* The lifetime lock of daemon-startup.ts is taken for granted: one daemon *)
(* starts at a time.  The daemon from before the bridge is external.       *)
(* A version is a rank.  The service floor of the marker and its date are  *)
(* left out: the code treats them as it does the minimum version.          *)
(***************************************************************************)
EXTENDS Integers

CONSTANTS
  Daemon,     \* names of bridge-aware daemons
  Old,        \* the daemon from before the bridge
  Reminder,
  None,
  Version,    \* the version of each daemon
  Minimum,    \* the minimum version its candidate marker asks for
  Manual,     \* a lock whose owner is dead is removed by hand
  MaxGen,     \* bound: the last marker generation, which repeats
  MaxFaults   \* bound: kills, failures and corruptions

ASSUME NoneAssumption == None \notin Daemon \cup {Old} /\ Old \notin Daemon
ASSUME VersionAssumption == Version \in [Daemon -> Nat] /\ Minimum \in [Daemon -> Nat]
ASSUME KindAssumption == Manual \in BOOLEAN
ASSUME BoundAssumption == MaxGen \in Nat /\ MaxFaults \in Nat

VARIABLES
  marker,     \* the file copy of the marker
  legacy, modern, archive,  \* what is at the three paths
  lock,       \* the owner of compatibility-v1.lock
  startLock,  \* the owner of the daemon start lock
  socket,     \* who answers the historical socket
  st,         \* where each process is
  effective,  \* the marker each daemon has reconciled
  faults,
  acked,      \* history: reminders recorded by a daemon that served
  late,       \* history: those the old daemon recorded when its database had been copied
  floor       \* history: the highest minimum ever written to both copies

files == <<marker, legacy, modern, archive>>
locks == <<lock, startLock>>
hist == <<acked, late, floor>>
vars == <<files, locks, socket, st, effective, faults, hist>>

-----------------------------------------------------------------------------
Proc == Daemon \cup {Old}

Missing == [kind |-> "missing"]
Tombstone == [kind |-> "tombstone"]
Corrupt == [kind |-> "corrupt"]
NoMarker == [kind |-> "none"]

Marker(highest, minimum, generation) ==
  [kind |-> "marker", highest |-> highest, minimum |-> minimum, generation |-> generation]

Database(row, reminders) == [kind |-> "db", row |-> row, reminders |-> reminders]

Alive(p) == p # None /\ st[p] # "off"
In(p, phase) == st[p] = phase
Goto(p, phase) == st' = [st EXCEPT ![p] = phase]

Unowned(k) == k = None \/ ~Alive(k)

(* The database whose row is reconciled: the modern one as soon as it exists *)
Current == IF modern # Missing THEN modern ELSE legacy

Row == IF Current.kind = "db" THEN Current.row ELSE NoMarker

Candidate(p) == Marker(Version[p], Minimum[p], 0)

Largest(S) == CHOOSE n \in S : \A k \in S : k <= n

After(M) == Largest({0} \cup {m.generation + 1 : m \in {n \in M : n.generation < MaxGen}}
                        \cup {m.generation : m \in {n \in M : n.generation = MaxGen}})

(* Mutant: the generation of the candidate *)
MutMerge(M) ==
  Marker(Largest({m.highest : m \in M}), Largest({m.minimum : m \in M}), 1)

(* mergeCompatibilityMarkers *)
Merge(M) ==
  Marker(Largest({m.highest : m \in M}), Largest({m.minimum : m \in M}),
         After(M))

(* What a process holds is given back, whether it goes on or throws *)
Free(p) ==
  /\ lock' = IF lock = p THEN None ELSE lock
  /\ startLock' = IF startLock = p THEN None ELSE startLock

Throw(p) == Goto(p, "off") /\ Free(p)

-----------------------------------------------------------------------------
(* A daemon starts                                                           *)

(* acquireDaemonLock and the probe of the socket *)
Boot(p) ==
  /\ In(p, "off") /\ \A d \in Daemon : In(d, "off")
  /\ socket = None /\ lock # p
  /\ Goto(p, "starting")
  /\ UNCHANGED <<files, locks, socket, effective, faults, hist>>

(* withCompatibilityMarkerLock: created with "wx", whoever left it there *)
LockMarker(p) ==
  /\ In(p, "starting")
  /\ IF lock = None THEN Goto(p, "reconciling") /\ lock' = p /\ UNCHANGED startLock ELSE Throw(p)
  /\ UNCHANGED <<files, socket, effective, faults, hist>>

ValidCopies == {m \in {marker, Row} : m.kind = "marker"}

(* writeCompatibilityMarkerFileDurably: a temporary file, synced, takes the name *)
WriteFile(m) == marker' = m

(* Both copies are read, the build is checked, the file is written; a tombstone *)
(* without a modern database is not one that can be read.                       *)
ReconcileFile(p) ==
  LET merged == Merge(ValidCopies \cup {Candidate(p)})
      corrupt == ValidCopies = {} /\ marker = Corrupt
  IN
  /\ In(p, "reconciling")
  /\ IF Current = Tombstone \/ corrupt \/ Version[p] < merged.minimum
     THEN Throw(p) /\ UNCHANGED <<marker, effective>>
     ELSE /\ WriteFile(merged)
          /\ effective' = [effective EXCEPT ![p] = merged]
          /\ Goto(p, "mirroring")
          /\ UNCHANGED locks
  /\ UNCHANGED <<legacy, modern, archive, socket, faults, hist>>

WithRow(db, row) == IF db = Missing THEN Database(row, {}) ELSE [db EXCEPT !.row = row]

(* Mutant: the row of the old path, wherever the database is *)
MutMirrorRow(p) ==
  /\ In(p, "mirroring")
  /\ legacy' = IF legacy.kind = "db" THEN WithRow(legacy, effective[p]) ELSE legacy
  /\ floor' = Largest({floor, effective[p].minimum})
  /\ Goto(p, "reconciled")
  /\ Free(p)
  /\ UNCHANGED <<marker, modern, archive, socket, effective, faults, acked, late>>

(* writeDatabaseCopy, which creates the database that is not there yet *)
MirrorRow(p) ==
  /\ In(p, "mirroring")
  /\ IF modern # Missing
     THEN modern' = WithRow(modern, effective[p]) /\ UNCHANGED legacy
     ELSE legacy' = WithRow(legacy, effective[p]) /\ UNCHANGED modern
  /\ floor' = Largest({floor, effective[p].minimum})
  /\ Goto(p, "reconciled")
  /\ Free(p)
  /\ UNCHANGED <<marker, archive, socket, effective, faults, acked, late>>

-----------------------------------------------------------------------------
(* bridgeLegacyStorage                                                       *)

(* Mutant: the start lock is not looked at *)
MutLockStorage(p) ==
  /\ In(p, "reconciled")
  /\ IF lock = None THEN lock' = p /\ Goto(p, "checking") /\ UNCHANGED startLock ELSE Throw(p)
  /\ UNCHANGED <<files, socket, effective, faults, hist>>

LockStorage(p) ==
  /\ In(p, "reconciled")
  /\ IF Unowned(startLock) /\ lock = None
     THEN startLock' = p /\ lock' = p /\ Goto(p, "checking")
     ELSE Throw(p)
  /\ UNCHANGED <<files, socket, effective, faults, hist>>

CheckStorage(p) ==
  /\ In(p, "checking")
  /\ \/ /\ socket = None /\ modern # Missing /\ legacy = Tombstone
        /\ Goto(p, "binding") /\ UNCHANGED locks
     \/ /\ socket = None /\ legacy.kind = "db"
        /\ Goto(p, IF modern = Missing THEN "publishing" ELSE "archiving") /\ UNCHANGED locks
     \/ /\ \/ socket # None
           \/ legacy = Missing
           \/ legacy = Tombstone /\ modern = Missing
        /\ Throw(p)
  /\ UNCHANGED <<files, socket, effective, faults, hist>>

(* Mutant: the file is copied without its write-ahead log *)
MutPublishModern(p) ==
  /\ In(p, "publishing")
  /\ modern' = [legacy EXCEPT !.reminders = {}]
  /\ Goto(p, "archiving")
  /\ UNCHANGED <<marker, legacy, archive, locks, socket, effective, faults, hist>>

(* VACUUM INTO a temporary path, renamed *)
PublishModern(p) ==
  /\ In(p, "publishing")
  /\ modern' = legacy
  /\ Goto(p, "archiving")
  /\ UNCHANGED <<marker, legacy, archive, locks, socket, effective, faults, hist>>

ArchiveLegacy(p) ==
  /\ In(p, "archiving")
  /\ archive' = IF archive = Missing THEN legacy ELSE archive
  /\ legacy' = Missing
  /\ Goto(p, "quarantining")
  /\ UNCHANGED <<marker, modern, locks, socket, effective, faults, hist>>

PublishQuarantineTombstone(p) ==
  /\ In(p, "quarantining")
  /\ legacy' = Tombstone
  /\ Goto(p, "binding")
  /\ UNCHANGED <<marker, modern, archive, locks, socket, effective, faults, hist>>

(* bindGuard: from then on requests are served *)
BindGuard(p) ==
  /\ In(p, "binding")
  /\ IF socket = None THEN socket' = p /\ Goto(p, "serving") /\ Free(p)
     ELSE Throw(p) /\ UNCHANGED socket
  /\ UNCHANGED <<files, effective, faults, hist>>

Start(p) ==
  \/ LockMarker(p) \/ ReconcileFile(p) \/ MirrorRow(p)
  \/ LockStorage(p) \/ CheckStorage(p) \/ PublishModern(p) \/ ArchiveLegacy(p)
  \/ PublishQuarantineTombstone(p) \/ BindGuard(p)

Stop(p) ==
  /\ In(p, "serving")
  /\ socket' = None
  /\ Throw(p)
  /\ UNCHANGED <<files, effective, faults, hist>>

Record(p, r) ==
  /\ In(p, "serving") /\ r \notin acked
  /\ IF p = Old
     THEN legacy' = [legacy EXCEPT !.reminders = @ \cup {r}] /\ UNCHANGED modern
     ELSE modern' = [modern EXCEPT !.reminders = @ \cup {r}] /\ UNCHANGED legacy
  /\ acked' = acked \cup {r}
  /\ late' = IF p = Old /\ modern # Missing THEN late \cup {r} ELSE late
  /\ UNCHANGED <<marker, archive, locks, socket, st, effective, faults, floor>>

-----------------------------------------------------------------------------
(* The daemon from before the bridge: its launcher holds the start lock until *)
(* it serves; the tombstone is not a database it can open, and any other file  *)
(* is, also one that a bridge has copied and not yet replaced.                *)
OldOpen ==
  /\ In(Old, "off") /\ Unowned(startLock) /\ socket = None
  /\ legacy # Tombstone
  /\ legacy' = IF legacy = Missing THEN Database(NoMarker, {}) ELSE legacy
  /\ startLock' = Old
  /\ Goto(Old, "opened")
  /\ UNCHANGED <<marker, modern, archive, lock, socket, effective, faults, hist>>

OldServe ==
  /\ In(Old, "opened")
  /\ IF socket = None THEN socket' = Old /\ Goto(Old, "serving") /\ Free(Old)
     ELSE Throw(Old) /\ UNCHANGED socket
  /\ UNCHANGED <<files, effective, faults, hist>>

-----------------------------------------------------------------------------
Fault == faults < MaxFaults /\ faults' = faults + 1

Kill(p) ==
  /\ Fault /\ ~In(p, "off")
  /\ Goto(p, "off")
  /\ socket' = IF socket = p THEN None ELSE socket
  /\ UNCHANGED <<files, locks, effective, hist>>

(* A step throws: no space, a database that cannot be opened *)
Fail(p) ==
  /\ Fault /\ st[p] \notin {"off", "serving"}
  /\ Throw(p)
  /\ UNCHANGED <<files, socket, effective, hist>>

CorruptFile ==
  /\ Fault /\ marker.kind = "marker"
  /\ marker' = Corrupt
  /\ UNCHANGED <<legacy, modern, archive, locks, socket, st, effective, hist>>

RemoveLock ==
  /\ Manual /\ lock # None /\ ~Alive(lock)
  /\ lock' = None
  /\ UNCHANGED <<files, startLock, socket, st, effective, faults, hist>>

-----------------------------------------------------------------------------
Init ==
  /\ marker = NoMarker
  /\ legacy \in {Missing, Database(NoMarker, {})}
  /\ modern = Missing /\ archive = Missing
  /\ lock = None /\ startLock = None /\ socket = None
  /\ st = [p \in Proc |-> "off"]
  /\ effective = [d \in Daemon |-> NoMarker]
  /\ faults = 0
  /\ acked = {} /\ late = {} /\ floor = 0

Next ==
  \/ \E p \in Daemon : Boot(p) \/ Start(p) \/ Fail(p)
  \/ OldOpen \/ OldServe
  \/ \E p \in Proc : Stop(p) \/ Kill(p) \/ \E r \in Reminder : Record(p, r)
  \/ CorruptFile \/ RemoveLock

Spec == Init /\ [][Next]_vars

-----------------------------------------------------------------------------

Raised(old, new) ==
  old.kind = "marker" /\ new.kind = "marker" /\ new # old =>
    /\ new.generation > old.generation \/ old.generation = MaxGen
    /\ new.minimum >= old.minimum /\ new.highest >= old.highest

(* docs/plans/issue-40-protocol-migrations.md: "Neither copy may be lowered".  A   *)
(* copy that can be read is replaced only by one of a later generation that admits *)
(* no version the other refused, whoever crashed between the two writes.           *)
NeitherCopyLowered == [][Raised(marker, marker') /\ Raised(Row, Row')]_vars

(* "A crash after raising the floor may conservatively block old code, but can never *)
(* permit it to mutate contracted state": once a minimum version reached both copies *)
(* no daemon below it serves, though a copy is lost and the database moves.          *)
BelowFloorKeptOut == \A p \in Daemon : In(p, "serving") => Version[p] >= floor

(* Decision 3 of the plan, "guarantee no durable reminder loss", as far as it holds: *)
(* what any daemon has recorded is in the database that the next one opens, however  *)
(* often the old daemon is started between the crashes of a bridge.  It does not     *)
(* hold of what the old daemon records between the copy and the tombstone: the       *)
(* bridge that ends the move keeps the copy that is there.                           *)
ReminderKept == Current.kind = "db" => acked \ late \subseteq Current.reminders

(* docs/protocol.md on the storage bridge: "An older daemon started later fails on *)
(* that file instead of opening current data": once a bridge-aware daemon has      *)
(* served, the old one does not.                                                   *)
OneAuthority == \A p \in Daemon : In(p, "serving") => legacy = Tombstone /\ ~Alive(Old)
=============================================================================
