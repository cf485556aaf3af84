------------------------ MODULE DaemonElectionProofs ------------------------
(***************************************************************************)
(* Proofs about DaemonElection, for any launchers, daemons and builds:     *)
(* when a daemon that stops may cut another one off, and that short of a   *)
(* major fault no daemon is followed by an older one.                      *)
(***************************************************************************)
EXTENDS DaemonElection, TLAPS

DaemonPhase == {"off", "booting", "locked", "bridging", "bridged", "unbound", "bound", "listening",
                "serving", "stopping", "closing", "unlinked", "closed", "exiting"}
LauncherPhase == {"off", "locking", "waiting", "relocking", "holding", "planning", "asking", "signalling",
                  "draining", "free", "expecting", "spawned", "killed"}

LockFile == [owner: Proc \cup {None}, written: BOOLEAN, old: BOOLEAN]

LockFiles == {f \in [Lock -> LockFile] : f["daemon"].owner \in Daemon \cup {None}}

Acquisition == [step: {"none", "create", "write", "judge", "probe", "recheck", "unlink"},
                attempt: {1, 2}, judged: Proc \cup {None}]

FaultCounts == [minor: Nat, major: Nat]

(* A process takes a lock in these phases only *)
Acquires(p) == st[p] \in {"booting", "bridging", "locking", "relocking"}

PhaseOf(p) == IF p \in Daemon THEN DaemonPhase ELSE LauncherPhase

Types ==
  /\ file \in LockFiles
  /\ socket \in Daemon \cup {None}
  /\ st \in [Proc -> DaemonPhase \cup LauncherPhase]
  /\ \A p \in Proc : st[p] \in PhaseOf(p)
  /\ acq \in [Proc -> Acquisition]
  /\ \A p \in Proc : Acquires(p) \/ At(p, "none")
  /\ build \in [Daemon -> BuildType]
  /\ token \in [Daemon -> Launcher \cup {None}]
  /\ child \in [Launcher -> Daemon \cup {None}]
  /\ faults \in FaultCounts
  /\ served \in BuildType

-----------------------------------------------------------------------------
(* Types                                                                     *)

LEMMA Names ==
  /\ \A d \in Daemon : d # None /\ d \in Proc /\ d \notin Launcher
  /\ \A l \in Launcher : l # None /\ l \in Proc /\ l \notin Daemon
BY NoneAssumption DEF Proc

LEMMA Plain ==
  /\ Absent \in LockFile /\ NoAcq \in Acquisition /\ NoAcq.step = "none"
  /\ [NoAcq EXCEPT !.step = "create"] \in Acquisition
  /\ [NoAcq EXCEPT !.step = "create", !.attempt = 2] \in Acquisition
  /\ Unknown \in BuildType
BY DEF Absent, LockFile, NoAcq, Acquisition, Unknown, BuildType

(* Faults are counted *)
LEMMA Counted ==
  ASSUME Types, UNCHANGED faults \/ \E kind \in {"minor", "major"} : Fault(kind)
  PROVE  faults' \in FaultCounts
<1>1. faults \in [minor: Nat, major: Nat]
  BY DEF Types, FaultCounts
<1>2. CASE UNCHANGED faults
  BY <1>1, <1>2 DEF FaultCounts
<1>3. ASSUME NEW kind \in {"minor", "major"}, Fault(kind) PROVE faults' \in [minor: Nat, major: Nat]
  <2>1. faults[kind] + 1 \in Nat /\ faults' = [faults EXCEPT ![kind] = faults[kind] + 1]
    BY <1>1, <1>3 DEF Fault
  <2> QED BY <1>1, <2>1
<1> QED BY <1>2, <1>3 DEF FaultCounts

(* What is answered or not in time counts as it should *)
LEMMA Probed ==
  ASSUME Types, Answered \/ Unanswered \/ \E gone : Ends(gone)
  PROVE  faults' \in FaultCounts
BY Counted DEF Answered, Unanswered, Ends

(* A process goes to a phase of its own, and takes a lock there only if it may *)
LEMMA Moves ==
  ASSUME Types, NEW p \in Proc, NEW x \in PhaseOf(p), st' = [st EXCEPT ![p] = x],
         NEW a \in Acquisition, acq' = [acq EXCEPT ![p] = a],
         a.step = "none" \/ x \in {"booting", "bridging", "locking", "relocking"}
  PROVE  /\ st' \in [Proc -> DaemonPhase \cup LauncherPhase]
         /\ \A q \in Proc : st'[q] \in PhaseOf(q)
         /\ acq' \in [Proc -> Acquisition]
         /\ \A q \in Proc : Acquires(q)' \/ At(q, "none")'
<1>1. x \in DaemonPhase \cup LauncherPhase
  BY DEF PhaseOf
<1>2. /\ st' \in [Proc -> DaemonPhase \cup LauncherPhase] /\ st'[p] = x
      /\ \A q \in Proc : q # p => st'[q] = st[q]
  BY <1>1 DEF Types
<1>3. /\ acq' \in [Proc -> Acquisition] /\ acq'[p] = a
      /\ \A q \in Proc : q # p => acq'[q] = acq[q]
  BY DEF Types
<1>4. \A q \in Proc : st'[q] \in PhaseOf(q)
  BY <1>2 DEF Types
<1>5. \A q \in Proc : Acquires(q)' \/ At(q, "none")'
  BY <1>2, <1>3 DEF Types, Acquires, At
<1> QED BY <1>2, <1>3, <1>4, <1>5

(* The same where only the phase changes *)
LEMMA Goes ==
  ASSUME Types, NEW p \in Proc, NEW x \in PhaseOf(p), Goto(p, x), UNCHANGED acq, At(p, "none")
  PROVE  /\ st' \in [Proc -> DaemonPhase \cup LauncherPhase]
         /\ \A q \in Proc : st'[q] \in PhaseOf(q)
         /\ \A q \in Proc : Acquires(q)' \/ At(q, "none")'
<1>1. acq' = [acq EXCEPT ![p] = acq[p]] /\ acq[p] \in Acquisition /\ acq[p].step = "none"
  BY DEF Types, At
<1> QED BY <1>1, Moves DEF Goto

LEMMA Stays ==
  ASSUME Types, NEW p \in Proc, UNCHANGED st, Acquires(p),
         NEW a \in Acquisition, acq' = [acq EXCEPT ![p] = a]
  PROVE  /\ acq' \in [Proc -> Acquisition]
         /\ \A q \in Proc : Acquires(q)' \/ At(q, "none")'
<1>1. /\ acq' \in [Proc -> Acquisition] /\ acq'[p] = a
      /\ \A q \in Proc : q # p => acq'[q] = acq[q]
  BY DEF Types
<1> QED BY <1>1 DEF Types, Acquires, At

LEMMA Acquirer ==
  ASSUME Types, NEW p \in Proc, ~At(p, "none")
  PROVE  /\ Acquires(p) /\ LockOf(p) \in Lock
         /\ AfterAcquired(p) \in PhaseOf(p) /\ AfterRefused(p) \in PhaseOf(p)
         /\ AfterAcquired(p) \notin {"booting", "bridging", "locking", "relocking"}
         /\ AfterRefused(p) \notin {"booting", "bridging", "locking", "relocking"}
<1>1. Acquires(p) /\ st[p] \in PhaseOf(p)
  BY DEF Types
<1>2. LockOf(p) \in Lock
  BY DEF LockOf, Lock
<1>3. \/ p \in Daemon /\ st[p] \in {"booting", "bridging"}
      \/ p \notin Daemon /\ st[p] \in {"locking", "relocking"}
  BY <1>1 DEF PhaseOf, Acquires, DaemonPhase, LauncherPhase
<1>4. \/ p \in Daemon /\ AfterAcquired(p) \in {"locked", "bridged"} /\ AfterRefused(p) \in {"bridged", "exiting"}
      \/ p \notin Daemon /\ AfterAcquired(p) = "holding" /\ AfterRefused(p) \in {"waiting", "off"}
  BY <1>3 DEF AfterAcquired, AfterRefused
<1> QED BY <1>1, <1>2, <1>4 DEF PhaseOf, DaemonPhase, LauncherPhase

LEMMA AcquireTypes ==
  ASSUME Types, NEW p \in Proc, Acquire(p)
  PROVE  Types'
<1> DEFINE k == LockOf(p)
<1>1. /\ ~At(p, "none") /\ UNCHANGED AcqVars /\ faults' \in FaultCounts
  BY Counted, Probed DEF Acquire, Create, Write, Judge, ProbeOwner, Recheck, Unlink, At
<1>2. Acquires(p) /\ k \in Lock /\ file[k] \in LockFile
  BY <1>1, Acquirer DEF Types, LockFiles
<1>3. file' \in LockFiles
  <2>1. \/ UNCHANGED file
        \/ file' = [file EXCEPT ![k] = Absent]
        \/ file' = [file EXCEPT ![k].owner = p]
        \/ file' = [file EXCEPT ![k].written = TRUE]
    BY DEF Acquire, Create, Write, Judge, ProbeOwner, Recheck, Unlink
  <2>2. [file[k] EXCEPT !.owner = p] \in LockFile /\ [file[k] EXCEPT !.written = TRUE] \in LockFile
    BY <1>2 DEF LockFile
  <2>3. k = "daemon" => p \in Daemon /\ file[k].owner \in Daemon \cup {None}
    BY <1>2 DEF Types, LockFiles, LockOf, PhaseOf, LauncherPhase
  <2> HIDE DEF k
  <2>4. \E f \in LockFile : /\ file' \in {file, [file EXCEPT ![k] = f]}
                            /\ k = "daemon" => f.owner \in Daemon \cup {None}
    <3>1. file[k] \in LockFile /\ (k = "daemon" => file[k].owner \in Daemon \cup {None})
      BY <1>2, <2>3
    <3>2. CASE UNCHANGED file
      BY <3>1, <3>2
    <3>3. CASE file' = [file EXCEPT ![k] = Absent]
      BY <3>3, Plain DEF Absent
    <3>4. CASE file' = [file EXCEPT ![k] = [file[k] EXCEPT !.owner = p]]
      BY <2>2, <2>3, <3>1, <3>4 DEF LockFile
    <3>5. CASE file' = [file EXCEPT ![k] = [file[k] EXCEPT !.written = TRUE]]
      BY <2>2, <2>3, <3>1, <3>5 DEF LockFile
    <3> QED BY <2>1, <3>2, <3>3, <3>4, <3>5
  <2>5. file \in [Lock -> LockFile] /\ file["daemon"].owner \in Daemon \cup {None} /\ "daemon" \in Lock
    BY DEF Types, LockFiles, Lock
  <2>6. file' \in [Lock -> LockFile] /\ file'["daemon"].owner \in Daemon \cup {None}
    BY <1>2, <2>4, <2>5
  <2> QED BY <2>6 DEF LockFiles
<1>4. CASE Acquired(p) \/ Refused(p)
  <2>1. PICK x \in PhaseOf(p) : st' = [st EXCEPT ![p] = x] /\ acq' = [acq EXCEPT ![p] = NoAcq]
    BY <1>1, <1>4, Acquirer DEF Acquired, Refused, Goto
  <2> QED BY <1>1, <1>3, <2>1, Moves, Plain DEF Types, AcqVars
<1>5. CASE UNCHANGED st /\ \E a \in Acquisition : acq' = [acq EXCEPT ![p] = a]
  BY <1>1, <1>2, <1>3, <1>5, Stays DEF Types, AcqVars
<1>6. \/ Acquired(p) \/ Refused(p)
      \/ UNCHANGED st /\ \E a \in Acquisition : acq' = [acq EXCEPT ![p] = a]
  <2> USE DEF Types
  <2>1. acq[p] \in Acquisition /\ Owner(k) \in Proc \cup {None}
    BY <1>2 DEF Owner, LockFile
  <2>2. ASSUME NEW to \in {"create", "write", "judge", "probe", "recheck", "unlink"}, Step(p, to)
        PROVE  \E a \in Acquisition : acq' = [acq EXCEPT ![p] = a]
    <3>1. acq' = [acq EXCEPT ![p] = [acq[p] EXCEPT !.step = to]]
      BY <2>2 DEF Step
    <3>2. [acq[p] EXCEPT !.step = to] \in Acquisition
      BY <2>1 DEF Acquisition
    <3> QED BY <3>1, <3>2
  <2>3. ASSUME NEW to \in {"create", "write", "judge", "probe", "recheck", "unlink"}, Remember(p, to)
        PROVE  \E a \in Acquisition : acq' = [acq EXCEPT ![p] = a]
    <3>1. acq' = [acq EXCEPT ![p] = [acq[p] EXCEPT !.step = to, !.judged = Owner(k)]]
      BY <2>3 DEF Remember
    <3>2. [acq[p] EXCEPT !.step = to, !.judged = Owner(k)] \in Acquisition
      BY <2>1 DEF Acquisition
    <3> QED BY <3>1, <3>2
  <2>4. CASE Create(p)
    BY <2>2, <2>4 DEF Create
  <2>5. CASE Write(p)
    BY <2>5 DEF Write
  <2>6. CASE Judge(p)
    BY <2>3, <2>6 DEF Judge
  <2>7. CASE ProbeOwner(p)
    BY <2>2, <2>7 DEF ProbeOwner
  <2>8. CASE Recheck(p)
    BY <2>2, <2>8 DEF Recheck
  <2>9. CASE Unlink(p)
    BY <2>9, Plain DEF Unlink
  <2> QED BY <2>4, <2>5, <2>6, <2>7, <2>8, <2>9 DEF Acquire
<1> QED BY <1>4, <1>5, <1>6

(* What is released is gone, the rest of the lock files stays *)
LEMMA Releases ==
  ASSUME Types, NEW k \in Lock, NEW p \in Proc
  PROVE  /\ Without(file, k, p) \in LockFiles
         /\ \A i \in Lock : i # k => Without(file, k, p)[i] = file[i]
         /\ Without(file, k, p)[k] = IF file[k].written /\ file[k].owner = p THEN Absent ELSE file[k]
<1>1. file \in [Lock -> LockFile] /\ file["daemon"].owner \in Daemon \cup {None} /\ "daemon" \in Lock
  BY DEF Types, LockFiles, Lock
<1>2. CASE file[k].written /\ file[k].owner = p
  <2>1. Without(file, k, p) = [file EXCEPT ![k] = Absent]
    BY <1>2 DEF Without
  <2>2. [file EXCEPT ![k] = Absent] \in [Lock -> LockFile]
    BY <1>1, Plain
  <2>3. [file EXCEPT ![k] = Absent]["daemon"].owner \in Daemon \cup {None}
    BY <1>1 DEF Absent
  <2> QED BY <1>1, <1>2, <2>1, <2>2, <2>3 DEF LockFiles
<1>3. CASE ~(file[k].written /\ file[k].owner = p)
  BY <1>1, <1>3 DEF Without, LockFiles
<1> QED BY <1>2, <1>3

LEMMA Exits ==
  ASSUME Types, NEW d \in Daemon, NEW locks \in SUBSET Lock, Exit(d, locks)
  PROVE  /\ file' \in LockFiles
         /\ st' \in [Proc -> DaemonPhase \cup LauncherPhase]
         /\ \A q \in Proc : st'[q] \in PhaseOf(q)
         /\ acq' \in [Proc -> Acquisition]
         /\ \A q \in Proc : Acquires(q)' \/ At(q, "none")'
         /\ token' \in [Daemon -> Launcher \cup {None}]
<1>1. d \in Proc /\ "off" \in PhaseOf(d)
  BY Names DEF PhaseOf, DaemonPhase
<1>2. \A k \in Lock : Without(file, k, d) \in LockFiles
  BY <1>1, Releases
<1>3. file' \in LockFiles
  BY <1>2 DEF Exit, Types, LockFiles, Lock
<1>4. token' \in [Daemon -> Launcher \cup {None}]
  BY DEF Exit, Types
<1> QED BY <1>1, <1>3, <1>4, Moves, Plain DEF Exit, Goto

LEMMA DaemonTypes ==
  ASSUME Types, NEW d \in Daemon, DaemonStep(d) \/ Serve(d) \/ StopIdle(d)
  PROVE  Types'
<1>0. /\ d \in Proc /\ Lock \in SUBSET Lock /\ {"daemon"} \in SUBSET Lock
      /\ {"start", "daemon"} = Lock
  BY Names DEF Lock
<1>1. ASSUME NEW locks \in SUBSET Lock, Exit(d, locks), UNCHANGED <<socket, build, child, served>>,
             faults' \in FaultCounts
      PROVE  Types'
  BY <1>1, Exits DEF Types
<1>2. ASSUME NEW x \in {"unbound", "bound", "listening", "serving", "stopping", "closing", "unlinked", "closed"},
             Goto(d, x),
             st[d] \in {"bridged", "unbound", "bound", "listening", "serving", "stopping", "closing", "unlinked"},
             UNCHANGED <<acq, build, child>>, faults' \in FaultCounts,
             file' \in LockFiles, socket' \in Daemon \cup {None},
             token' \in [Daemon -> Launcher \cup {None}], served' \in BuildType
      PROVE  Types'
  <2>1. x \in PhaseOf(d)
    BY <1>2 DEF PhaseOf, DaemonPhase
  <2>2. At(d, "none")
    BY <1>0, <1>2 DEF Types, Acquires
  <2> QED BY <1>0, <1>2, <2>1, <2>2, Goes DEF Types
<1>3. CASE Acquire(d)
  BY <1>0, <1>3, AcquireTypes
<1>4. CASE GiveUp(d)
  BY <1>0, <1>1, <1>4 DEF GiveUp, Types
<1>5. CASE CheckSocket(d)
  <2>1. faults' \in FaultCounts
    BY <1>5, Probed DEF CheckSocket
  <2>2. CASE Exit(d, Lock)
    BY <1>0, <1>1, <1>5, <2>1, <2>2 DEF CheckSocket
  <2>3. CASE Acquiring(d, "bridging") /\ UNCHANGED <<file, token>>
    <3>1. "bridging" \in PhaseOf(d)
      BY DEF PhaseOf, DaemonPhase
    <3>2. /\ st' = [st EXCEPT ![d] = "bridging"]
          /\ acq' = [acq EXCEPT ![d] = [NoAcq EXCEPT !.step = "create"]]
      BY <2>3 DEF Acquiring, Goto
    <3>3. UNCHANGED <<socket, build, child, served>>
      BY <1>5 DEF CheckSocket
    <3> QED BY <1>0, <2>1, <2>3, <3>1, <3>2, <3>3, Moves, Plain DEF Types
  <2> QED BY <1>5, <2>2, <2>3 DEF CheckSocket
<1>6. CASE ProbeSocket(d)
  <2>1. faults' \in FaultCounts
    BY <1>6, Probed DEF ProbeSocket
  <2> QED BY <1>0, <1>1, <1>2, <1>6, <2>1 DEF ProbeSocket, In, Types
<1>7. CASE Bind(d)
  <2>1. Without(file, "start", d) \in LockFiles
    BY <1>0, Releases DEF Lock
  <2>2. token' \in [Daemon -> Launcher \cup {None}]
    BY <1>7 DEF Bind, Types
  <2> QED BY <1>2, <1>7, <2>1, <2>2 DEF Bind, In, Types
<1>8. CASE Listen(d)
  <2>1. \E x \in {"listening", "stopping"} : Goto(d, x)
    BY <1>8 DEF Listen
  <2> QED BY <1>2, <1>8, <2>1 DEF Listen, In, Types
<1>9. CASE Serve(d)
  BY <1>2, <1>9 DEF Serve, In, Types
<1>10. CASE LoseLock(d)
  BY <1>2, <1>10 DEF LoseLock, In, Types
<1>11. CASE CloseGuard(d)
  <2>1. \E x \in {"closing", "closed"} : Goto(d, x)
    BY <1>11 DEF CloseGuard
  <2> QED BY <1>2, <1>11, <2>1 DEF CloseGuard, In, Types
<1>14. CASE RemovePath(d)
  <2>1. \E x \in {"unlinked", "closed"} : Goto(d, x)
    BY <1>14 DEF RemovePath
  <2> QED BY <1>2, <1>14, <2>1 DEF RemovePath, Closing, Types
<1>12. CASE ReleaseLock(d)
  BY <1>0, <1>1, <1>12 DEF ReleaseLock, Types
<1>13. CASE StopIdle(d)
  <2>1. faults' \in FaultCounts
    BY <1>13, Counted DEF StopIdle
  <2> QED BY <1>2, <1>13, <2>1 DEF StopIdle, In, Types
<1> QED BY <1>14, <1>3, <1>4, <1>5, <1>6, <1>7, <1>8, <1>9, <1>10, <1>11, <1>12, <1>13 DEF DaemonStep

LEMMA Finishes ==
  ASSUME Types, NEW l \in Launcher, Finish(l)
  PROVE  /\ file' \in LockFiles
         /\ st' \in [Proc -> DaemonPhase \cup LauncherPhase]
         /\ \A q \in Proc : st'[q] \in PhaseOf(q)
         /\ acq' \in [Proc -> Acquisition]
         /\ \A q \in Proc : Acquires(q)' \/ At(q, "none")'
         /\ child' \in [Launcher -> Daemon \cup {None}]
         /\ token' \in [Daemon -> Launcher \cup {None}]
<1>1. l \in Proc /\ "off" \in PhaseOf(l) /\ "start" \in Lock
  BY Names DEF PhaseOf, LauncherPhase, Lock
<1>2. file' \in LockFiles
  BY <1>1, Releases DEF Finish
<1>3. /\ child' \in [Launcher -> Daemon \cup {None}]
      /\ token' \in [Daemon -> Launcher \cup {None}]
  BY DEF Finish, Types
<1> QED BY <1>1, <1>2, <1>3, Moves, Plain DEF Finish, Goto

(* Two processes go on in one step: a launcher, and the daemon it asks, spawns or kills *)
LEMMA BothMove ==
  ASSUME Types, NEW l \in Launcher, NEW d \in Daemon, NEW x \in PhaseOf(l), NEW y \in PhaseOf(d),
         st' = [st EXCEPT ![l] = x, ![d] = y], At(l, "none"),
         x \notin {"locking", "relocking"},
         NEW a \in Acquisition, acq' = [acq EXCEPT ![d] = a],
         a.step = "none" \/ y = "booting"
  PROVE  /\ st' \in [Proc -> DaemonPhase \cup LauncherPhase]
         /\ \A q \in Proc : st'[q] \in PhaseOf(q)
         /\ acq' \in [Proc -> Acquisition]
         /\ \A q \in Proc : Acquires(q)' \/ At(q, "none")'
<1>1. l \in Proc /\ d \in Proc /\ l # d /\ x \in DaemonPhase \cup LauncherPhase /\ y \in DaemonPhase \cup LauncherPhase
  BY Names DEF PhaseOf
<1>2. /\ st' \in [Proc -> DaemonPhase \cup LauncherPhase] /\ st'[l] = x /\ st'[d] = y
      /\ \A q \in Proc : q # l /\ q # d => st'[q] = st[q]
  BY <1>1 DEF Types
<1>3. /\ acq' \in [Proc -> Acquisition] /\ acq'[d] = a
      /\ \A q \in Proc : q # d => acq'[q] = acq[q]
  BY <1>1 DEF Types
<1>4. \A q \in Proc : st'[q] \in PhaseOf(q)
  BY <1>2 DEF Types
<1>5. \A q \in Proc : Acquires(q)' \/ At(q, "none")'
  BY <1>1, <1>2, <1>3 DEF Types, Acquires, At
<1> QED BY <1>2, <1>3, <1>4, <1>5

LEMMA LauncherTypes ==
  ASSUME Types, NEW l \in Launcher, Launch(l) \/ LauncherStep(l)
  PROVE  Types'
<1>0. l \in Proc /\ l \notin Daemon /\ l # None /\ socket \in Daemon \cup {None} /\ child[l] \in Daemon \cup {None}
  BY Names DEF Types
<1>1. ASSUME Finish(l), UNCHANGED <<socket, build, served>>, faults' \in FaultCounts
      PROVE  Types'
  BY <1>1, Finishes DEF Types
<1>2. ASSUME NEW x \in {"off", "planning", "asking", "signalling", "free", "expecting", "killed"}, Goto(l, x),
             ~Acquires(l), UNCHANGED <<file, socket, acq, build, token, served>>, faults' \in FaultCounts,
             child' \in [Launcher -> Daemon \cup {None}]
      PROVE  Types'
  <2>1. x \in PhaseOf(l) /\ At(l, "none")
    BY <1>0, <1>2 DEF PhaseOf, LauncherPhase, Types
  <2> QED BY <1>0, <1>2, <2>1, Goes DEF Types
<1>3. ASSUME NEW x \in {"locking", "relocking"}, Acquiring(l, x),
             UNCHANGED <<file, socket, build, token, child, served>>, faults' \in FaultCounts
      PROVE  Types'
  <2>1. x \in PhaseOf(l)
    BY <1>0, <1>3 DEF PhaseOf, LauncherPhase
  <2>2. /\ st' = [st EXCEPT ![l] = x] /\ acq' = [acq EXCEPT ![l] = [NoAcq EXCEPT !.step = "create"]]
    BY <1>3 DEF Acquiring, Goto
  <2> QED BY <1>0, <1>3, <2>1, <2>2, Moves, Plain DEF Types
<1>4. ASSUME NEW x \in PhaseOf(l), NEW d \in Daemon \cup {None}, Wait(l, x, d)
      PROVE  Goto(l, x) /\ child' \in [Launcher -> Daemon \cup {None}]
  BY <1>4 DEF Wait, Types
<1>5. {"asking", "signalling", "free", "expecting"} \subseteq PhaseOf(l)
  BY <1>0 DEF PhaseOf, LauncherPhase
<1>6. CASE Launch(l)
  <2>1. faults' \in FaultCounts
    BY <1>6, Counted DEF Launch
  <2> QED BY <1>3, <1>6, <2>1 DEF Launch
<1>7. CASE Acquire(l)
  BY <1>0, <1>7, AcquireTypes
<1>8. CASE AwaitOther(l)
  BY <1>2, <1>3, <1>8 DEF AwaitOther, In, Acquires, Types
<1>9. CASE LockedProbe(l)
  <2>1. faults' \in FaultCounts
    BY <1>9, Probed DEF LockedProbe
  <2> QED BY <1>1, <1>2, <1>9, <2>1 DEF LockedProbe, In, Acquires, Types
<1>15. CASE Plan(l)
  <2>1. /\ faults' \in FaultCounts /\ ~Acquires(l) /\ UNCHANGED <<socket, build, served>>
    BY <1>15, Probed DEF Plan, In, Acquires
  <2>2. CASE Finish(l)
    BY <1>1, <2>1, <2>2
  <2>3. CASE /\ Wait(l, IF build[socket].asks THEN "asking" ELSE "signalling", socket)
             /\ UNCHANGED <<file, acq, token>>
    <3>1. PICK x \in {"asking", "signalling"} : Wait(l, x, socket)
      BY <2>3
    <3> QED BY <1>0, <1>2, <1>4, <1>5, <2>1, <2>3, <3>1
  <2>4. CASE Goto(l, "signalling") /\ UNCHANGED <<file, acq, token, child>>
    BY <1>2, <2>1, <2>4 DEF Types
  <2> QED BY <1>15, <2>2, <2>3, <2>4 DEF Plan
<1>11. CASE AwaitDrained(l)
  <2>1. /\ faults' \in FaultCounts /\ ~Acquires(l) /\ UNCHANGED <<socket, build, served>>
    BY <1>11, Probed DEF AwaitDrained, In, Acquires
  <2> QED BY <1>0, <1>1, <1>2, <1>4, <1>5, <1>11, <2>1 DEF AwaitDrained
<1>13. CASE AwaitDaemon(l)
  <2>1. faults' \in FaultCounts
    BY <1>13, Counted, Probed DEF AwaitDaemon, Abandoned
  <2> QED BY <1>1, <1>13, <2>1 DEF AwaitDaemon
<1>16. ASSUME NEW d \in Daemon, NEW x \in {"draining", "killed"},
              NEW y \in {"off", "listening", "serving", "stopping", "closing", "unlinked", "closed"},
              st' = [st EXCEPT ![l] = x, ![d] = y], acq' = [acq EXCEPT ![d] = NoAcq], ~Acquires(l),
              child' \in [Launcher -> Daemon \cup {None}], UNCHANGED <<file, token, socket, build, served>>,
              faults' \in FaultCounts
       PROVE  Types'
  <2>1. x \in PhaseOf(l) /\ x \notin {"locking", "relocking"} /\ y \in PhaseOf(d) /\ At(l, "none")
    BY <1>0, <1>16, Names DEF PhaseOf, DaemonPhase, LauncherPhase, Types
  <2>2. /\ st' \in [Proc -> DaemonPhase \cup LauncherPhase]
        /\ \A q \in Proc : st'[q] \in PhaseOf(q)
        /\ acq' \in [Proc -> Acquisition]
        /\ \A q \in Proc : Acquires(q)' \/ At(q, "none")'
    BY <1>16, <2>1, BothMove, Plain
  <2> QED BY <1>16, <2>2 DEF Types
<1>10. CASE Ask(l)
  <2>1. CASE Finish(l)
    BY <1>1, <1>10, <2>1 DEF Ask, Types
  <2>2. CASE /\ st' = [st EXCEPT ![l] = "draining",
                                 ![child[l]] = IF @ = "serving" THEN "stopping" ELSE @]
             /\ st[child[l]] \in {"listening", "serving"}
             /\ UNCHANGED <<file, acq, token, child>>
    <3>1. st[l] = "asking" /\ ~Acquires(l) /\ UNCHANGED <<socket, build, faults, served>>
      BY <1>10 DEF Ask, In, Acquires
    <3>2. /\ st \in [Proc -> DaemonPhase \cup LauncherPhase] /\ acq \in [Proc -> Acquisition]
          /\ None \notin Proc /\ child[l] # l
      BY <1>0, NoneAssumption DEF Types, Proc
    <3>3. CASE child[l] \in Daemon
      <4>1. PICK d \in Daemon : d = child[l]
        BY <3>3
      <4>2. \E y \in {"stopping", "listening"} : st' = [st EXCEPT ![l] = "draining", ![d] = y]
        BY <2>2, <3>2, <4>1
      <4>3. /\ acq' = [acq EXCEPT ![d] = acq[d]] /\ acq[d] \in Acquisition /\ acq[d].step = "none"
        BY <2>2, <3>2, <4>1, Names DEF Types, Acquires, At
      <4>4. PICK y \in {"stopping", "listening"} : st' = [st EXCEPT ![l] = "draining", ![d] = y]
        BY <4>2
      <4>5. "draining" \in PhaseOf(l) /\ y \in PhaseOf(d) /\ At(l, "none")
        BY <1>0, <3>1, <4>4 DEF PhaseOf, DaemonPhase, LauncherPhase, Types
      <4>6. /\ st' \in [Proc -> DaemonPhase \cup LauncherPhase]
            /\ \A q \in Proc : st'[q] \in PhaseOf(q)
            /\ acq' \in [Proc -> Acquisition]
            /\ \A q \in Proc : Acquires(q)' \/ At(q, "none")'
        BY <4>3, <4>4, <4>5, BothMove
      <4> QED BY <2>2, <3>1, <4>6 DEF Types
    <3>4. CASE child[l] = None
      <4>1. Goto(l, "draining") /\ "draining" \in PhaseOf(l) /\ At(l, "none")
        BY <1>0, <2>2, <3>1, <3>2, <3>4 DEF Goto, PhaseOf, LauncherPhase, Types
      <4> QED BY <1>0, <2>2, <3>1, <4>1, Goes DEF Types
    <3> QED BY <1>0, <3>3, <3>4
  <2> QED BY <1>10, <2>1, <2>2 DEF Ask
<1>17. CASE Signal(l)
  <2>1. faults' \in FaultCounts /\ ~Acquires(l) /\ UNCHANGED <<socket, build, served>>
    BY <1>17, Probed, Counted DEF Signal, In, Acquires
  <2>2. CASE Finish(l)
    BY <1>1, <2>1, <2>2
  <2>3. CASE ~Finish(l)
    <3>1. PICK d : d = Owner("daemon") /\ d # None
      BY <1>17, <2>3 DEF Signal, DaemonLockHeld
    <3>2. d \in Daemon /\ d # l /\ st \in [Proc -> DaemonPhase \cup LauncherPhase]
      BY <3>1, <1>0 DEF Types, Owner, LockFiles
    <3>3. /\ st' = [st EXCEPT ![l] = "draining", ![d] = Signalled(@)]
          /\ acq' = [acq EXCEPT ![d] = NoAcq]
          /\ child' = [child EXCEPT ![l] = d]
          /\ UNCHANGED <<file, token>>
      BY <1>17, <2>3, <3>1 DEF Signal
    <3>4. st' = [st EXCEPT ![l] = "draining", ![d] = Signalled(st[d])]
      BY <3>2, <3>3
    <3>5. Signalled(st[d]) \in {"off", "listening", "serving", "stopping", "closing", "unlinked", "closed"}
      BY DEF Signalled, Leaving, Closing
    <3>6. child' \in [Launcher -> Daemon \cup {None}]
      BY <3>2, <3>3 DEF Types
    <3> QED BY <1>16, <2>1, <3>2, <3>3, <3>4, <3>5, <3>6
  <2> QED BY <2>2, <2>3
<1>12. CASE Spawn(l)
  <2>1. CASE /\ DaemonStarting
             /\ Wait(l, "expecting", Owner("daemon"))
             /\ UNCHANGED <<acq, build, token>>
    <3>1. Owner("daemon") \in Daemon \cup {None}
      BY DEF Types, Owner, LockFiles
    <3>2. Goto(l, "expecting") /\ child' \in [Launcher -> Daemon \cup {None}]
      BY <1>4, <1>5, <2>1, <3>1
    <3> QED BY <1>2, <1>12, <2>1, <3>2 DEF Spawn, In, Acquires, Types
  <2>2. ASSUME NEW d \in Daemon,
               st' = [st EXCEPT ![l] = "spawned", ![d] = "booting"],
               acq' = [acq EXCEPT ![d] = [NoAcq EXCEPT !.step = "create"]],
               child' = [child EXCEPT ![l] = d],
               build' = [build EXCEPT ![d] = Build[l]],
               token' = [token EXCEPT ![d] = l]
        PROVE  Types'
    <3>1. "spawned" \in PhaseOf(l) /\ "booting" \in PhaseOf(d) /\ At(l, "none") /\ Build[l] \in BuildType
      BY <1>0, <1>12, BuildAssumption DEF Spawn, In, PhaseOf, DaemonPhase, LauncherPhase, Types, Acquires
    <3>2. /\ build' \in [Daemon -> BuildType]
          /\ token' \in [Daemon -> Launcher \cup {None}]
          /\ child' \in [Launcher -> Daemon \cup {None}]
      BY <2>2, <3>1 DEF Types
    <3>3. /\ st' \in [Proc -> DaemonPhase \cup LauncherPhase]
          /\ \A q \in Proc : st'[q] \in PhaseOf(q)
          /\ acq' \in [Proc -> Acquisition]
          /\ \A q \in Proc : Acquires(q)' \/ At(q, "none")'
      BY <2>2, <3>1, BothMove, Plain
    <3> QED BY <1>12, <3>2, <3>3 DEF Types, Spawn
  <2> QED BY <1>12, <2>1, <2>2 DEF Spawn
<1>14. CASE KillChild(l)
  <2>1. st[l] = "spawned" /\ ~Acquires(l) /\ UNCHANGED <<file, socket, build, token, child, served>> /\ faults' \in FaultCounts
    BY <1>14, Probed DEF KillChild, In, Abandoned, Acquires
  <2>2. CASE Goto(l, "killed") /\ UNCHANGED acq
    BY <1>2, <2>1, <2>2 DEF Types
  <2>3. ASSUME NEW x \in {Signalled(st[child[l]])} \cup (IF st[child[l]] \in Leaving THEN {"off"} ELSE {}),
               st' = [st EXCEPT ![l] = "killed", ![child[l]] = x], acq' = [acq EXCEPT ![child[l]] = NoAcq]
        PROVE  Types'
    <3>1. CASE child[l] \in Daemon
      <4>1. PICK d \in Daemon : d = child[l]
        BY <3>1
      <4>2. x \in {"off", "listening", "serving", "stopping", "closing", "unlinked", "closed"}
        BY DEF Signalled, Leaving, Closing
      <4>3. child' \in [Launcher -> Daemon \cup {None}]
        BY <2>1 DEF Types
      <4> QED BY <1>16, <2>1, <2>3, <4>1, <4>2, <4>3
    <3>2. CASE child[l] = None
      <4>1. None \notin Proc /\ st \in [Proc -> DaemonPhase \cup LauncherPhase] /\ acq \in [Proc -> Acquisition]
        BY NoneAssumption DEF Proc, Types
      <4> QED BY <1>0, <2>2, <2>3, <3>2, <4>1 DEF Goto
    <3> QED BY <1>0, <3>1, <3>2
  <2> QED BY <1>14, <2>2, <2>3 DEF KillChild
<1> QED BY <1>6, <1>7, <1>8, <1>9, <1>10, <1>11, <1>12, <1>13, <1>14, <1>15, <1>17 DEF LauncherStep

LEMMA KillTypes ==
  ASSUME Types, NEW p \in Proc, Kill(p)
  PROVE  Types'
<1>1. "off" \in PhaseOf(p)
  BY DEF PhaseOf, DaemonPhase, LauncherPhase
<1>2. /\ child' \in [Launcher -> Daemon \cup {None}]
      /\ token' \in [Daemon -> Launcher \cup {None}]
      /\ faults' \in FaultCounts
  BY Counted DEF Kill, Types
<1>3. /\ st' = [st EXCEPT ![p] = "off"] /\ acq' = [acq EXCEPT ![p] = NoAcq]
      /\ UNCHANGED <<file, socket, build, served>>
  BY DEF Kill, Goto
<1> QED BY <1>1, <1>2, <1>3, Moves, Plain DEF Types

LEMMA AgeTypes ==
  ASSUME Types, NEW k \in Lock, Age(k)
  PROVE  Types'
<1>1. file \in [Lock -> LockFile] /\ file["daemon"].owner \in Daemon \cup {None} /\ "daemon" \in Lock
  BY DEF Types, LockFiles, Lock
<1>2. [file[k] EXCEPT !.old = TRUE] \in LockFile /\ [file[k] EXCEPT !.old = TRUE].owner = file[k].owner
  BY <1>1 DEF LockFile
<1>3. file' = [file EXCEPT ![k] = [file[k] EXCEPT !.old = TRUE]]
  BY DEF Age
<1>4. file' \in [Lock -> LockFile] /\ file'["daemon"].owner = file["daemon"].owner
  BY <1>1, <1>2, <1>3
<1>5. faults' \in FaultCounts
  BY Counted DEF Age
<1> QED BY <1>1, <1>4, <1>5 DEF Age, procVars, Types, LockFiles, Acquires, At

LEMMA InitialTypes == Init => Types
<1> SUFFICES ASSUME Init PROVE Types
  OBVIOUS
<1>1. file \in LockFiles
  BY Plain DEF Init, LockFiles, Lock, Absent
<1>2. \A p \in Proc : st[p] \in PhaseOf(p) /\ At(p, "none")
  BY Plain DEF Init, PhaseOf, DaemonPhase, LauncherPhase, At
<1> QED BY <1>1, <1>2, Plain DEF Init, Types, DaemonPhase, FaultCounts

LEMMA TypesKept == Types /\ [Next]_vars => Types'
<1> SUFFICES ASSUME Types, [Next]_vars PROVE Types'
  OBVIOUS
<1>1. CASE UNCHANGED vars
  BY <1>1 DEF vars, procVars, Types, Acquires, At
<1> QED BY <1>1, LauncherTypes, DaemonTypes, AgeTypes, KillTypes DEF Next
-----------------------------------------------------------------------------
(* Sockets                                                                   *)

(* A daemon that closes the path when another has it was closing it already when the *)
(* other bound it; if the other listens by now, the one that closes has lost its     *)
(* daemon lock.                                                                      *)
Window ==
  \A c, e \in Daemon :
    c # e /\ socket = c /\ st[e] \in Closing =>
      /\ e \in rivals
      /\ st[c] \in {"listening", "serving"} => Owner("daemon") # e

(* What a step does that neither binds the socket nor removes the path wrongly: *)
(* who closes it has it, who listens has its daemon lock, and nobody that is    *)
(* about to close it gets one.                                                  *)
Guarded ==
  /\ socket' \in {socket, None} /\ UNCHANGED rivals
  /\ \A e \in Daemon : st'[e] \in Closing => st[e] \in Closing \/ socket = e
  /\ \A c \in Daemon : st'[c] \in {"listening", "serving"} =>
       st[c] \in {"listening", "serving"} \/ (Owner("daemon") = c /\ UNCHANGED file)
  /\ \A e \in Daemon : Owner("daemon")' = e => Owner("daemon") = e \/ st'[e] = "locked"

LEMMA WindowGuarded ==
  ASSUME Types, Window, Guarded
  PROVE  Window'
<1> SUFFICES ASSUME NEW c \in Daemon, NEW e \in Daemon, c # e, socket' = c, st'[e] \in Closing
             PROVE  e \in rivals' /\ (st'[c] \in {"listening", "serving"} => Owner("daemon")' # e)
  BY DEF Window
<1>1. socket = c /\ st[e] \in Closing /\ st'[e] # "locked"
  BY Names DEF Guarded, Closing
<1>2. e \in rivals'
  BY <1>1 DEF Window, Guarded
<1>3. ASSUME st'[c] \in {"listening", "serving"}, Owner("daemon")' = e PROVE FALSE
  <2>1. Owner("daemon") = e
    BY <1>1, <1>3 DEF Guarded
  <2> QED BY <1>1, <1>3, <2>1 DEF Window, Guarded
<1> QED BY <1>2, <1>3

(* The daemon lock is its owner's from when it is written until it is removed *)
LEMMA AcquireGuarded ==
  ASSUME Types, NEW p \in Proc, Acquire(p)
  PROVE  Guarded
<1> DEFINE k == LockOf(p)
<1>1. ~At(p, "none") /\ UNCHANGED <<socket, rivals>>
  BY DEF Acquire, Create, Write, Judge, ProbeOwner, Recheck, Unlink, At, AcqVars
<1>2. /\ k \in Lock /\ st \in [Proc -> DaemonPhase \cup LauncherPhase]
      /\ file \in [Lock -> LockFile] /\ "daemon" \in Lock /\ file["daemon"].owner \in Daemon \cup {None}
  BY <1>1, Acquirer DEF Types, LockFiles, Lock
<1>3. ASSUME NEW q \in Proc PROVE st'[q] = st[q] \/ st'[q] \in {"locked", "bridged", "holding", "exiting", "waiting", "off"}
  <2>1. AfterAcquired(p) \in {"locked", "bridged", "holding"} /\ AfterRefused(p) \in {"bridged", "exiting", "waiting", "off"}
    BY DEF AfterAcquired, AfterRefused
  <2>2. UNCHANGED st \/ st' = [st EXCEPT ![p] = AfterAcquired(p)] \/ st' = [st EXCEPT ![p] = AfterRefused(p)]
    BY DEF Acquire, Create, Write, Judge, ProbeOwner, Recheck, Unlink, Acquired, Refused, Goto
  <2> QED BY <1>2, <2>1, <2>2
<1>4. ASSUME NEW e \in Daemon, Owner("daemon")' = e PROVE Owner("daemon") = e \/ st'[e] = "locked"
  <2>1. e # None /\ e \in Proc
    BY Names
  <2>2. CASE UNCHANGED file
    BY <1>4, <2>2 DEF Owner
  <2>3. CASE Create(p) /\ file[k] = Absent
    <3>1. file' = [file EXCEPT ![k] = [Absent EXCEPT !.owner = p]]
      BY <2>3 DEF Create
    <3>2. CASE k = "daemon"
      BY <1>2, <1>4, <2>1, <3>1, <3>2 DEF Owner, Absent
    <3>3. CASE k # "daemon"
      BY <1>2, <1>4, <3>1, <3>3 DEF Owner
    <3> QED BY <3>2, <3>3
  <2>4. CASE Write(p)
    <3>1. CASE k = "daemon" /\ file[k].owner = p
      <4>1. file' = [file EXCEPT ![k] = [file[k] EXCEPT !.written = TRUE]]
        BY <2>4, <3>1 DEF Write
      <4>2. [file[k] EXCEPT !.written = TRUE].owner = p
        BY <1>2, <3>1 DEF LockFile
      <4>3. e = p
        BY <1>2, <1>4, <2>1, <3>1, <4>1, <4>2 DEF Owner
      <4>4. st[p] = "booting"
        BY <3>1 DEF LockOf
      <4> QED BY <1>2, <2>4, <4>3, <4>4 DEF Write, Acquired, Goto, AfterAcquired
    <3>2. CASE ~(k = "daemon" /\ file[k].owner = p)
      <4>1. file'["daemon"] = file["daemon"]
        BY <1>2, <2>4, <3>2 DEF Write
      <4> QED BY <1>4, <4>1 DEF Owner
    <3> QED BY <3>1, <3>2
  <2>5. CASE Unlink(p)
    <3>1. file'["daemon"] = file["daemon"] \/ file'["daemon"] = Absent
      BY <1>2, <2>5 DEF Unlink
    <3> QED BY <1>4, <2>1, <3>1 DEF Owner, Absent
  <2> QED BY <2>2, <2>3, <2>4, <2>5 DEF Acquire, Create, Judge, ProbeOwner, Recheck
<1> QED BY <1>1, <1>3, <1>4, Names DEF Guarded, Closing

(* A launcher leaves the daemon locks alone, and makes a daemon start, stop or die *)
LEMMA LauncherGuarded ==
  ASSUME Types, NEW l \in Launcher, Launch(l) \/ LauncherStep(l)
  PROVE  Guarded
<1>1. CASE Acquire(l)
  BY <1>1, AcquireGuarded, Names
<1>2. CASE ~Acquire(l)
  <2>1. UNCHANGED <<socket, rivals>>
    BY <1>2 DEF Launch, LauncherStep, AwaitOther, LockedProbe, Plan, Ask, Signal, AwaitDrained, Spawn, AwaitDaemon, KillChild
  <2>2. file' = file \/ Finish(l)
    BY <1>2 DEF Launch, LauncherStep, AwaitOther, LockedProbe, Plan, Ask, Signal, AwaitDrained, Spawn, AwaitDaemon, KillChild
  <2>3. file'["daemon"] = file["daemon"]
    BY <2>2, Releases, Names DEF Finish, Lock
  <2>4. ASSUME NEW d \in Daemon PROVE st'[d] \in {st[d], "off", "stopping", "booting"}
    <3>1. d # l /\ d \in Proc /\ st \in [Proc -> DaemonPhase \cup LauncherPhase]
      BY Names DEF Types
    <3>2. CASE \E x : Goto(l, x)
      BY <3>1, <3>2 DEF Goto
    <3>3. CASE Ask(l) /\ st' = [st EXCEPT ![l] = "draining", ![child[l]] = IF @ = "serving" THEN "stopping" ELSE @]
      <4>1. CASE d = child[l]
        BY <3>1, <3>3, <4>1
      <4>2. CASE d # child[l]
        BY <3>1, <3>3, <4>2
      <4> QED BY <4>1, <4>2
    <3>4. CASE st' = [st EXCEPT ![l] = "draining", ![Owner("daemon")] = Signalled(@)]
      <4>1. Signalled(st[d]) \in {st[d], "off", "stopping"}
        BY DEF Signalled
      <4> QED BY <3>1, <3>4, <4>1
    <3>5. CASE \E c \in Daemon : st' = [st EXCEPT ![l] = "spawned", ![c] = "booting"]
      BY <3>1, <3>5
    <3>6. CASE \E x \in {Signalled(st[child[l]])} \cup (IF st[child[l]] \in Leaving THEN {"off"} ELSE {}) :
                 st' = [st EXCEPT ![l] = "killed", ![child[l]] = x]
      <4>1. Signalled(st[d]) \in {st[d], "off", "stopping"}
        BY DEF Signalled
      <4> QED BY <3>1, <3>6, <4>1
    <3> QED
      BY <1>2, <3>2, <3>3, <3>4, <3>5, <3>6
      DEF Launch, LauncherStep, AwaitOther, Acquiring, LockedProbe, Plan, Ask, Signal, AwaitDrained, Spawn,
          AwaitDaemon, KillChild, Finish, Wait
  <2> QED BY <2>1, <2>3, <2>4 DEF Guarded, Closing, Owner
<1> QED BY <1>1, <1>2

LEMMA WindowKept == Types /\ Window /\ [Next]_vars => Window'
<1> SUFFICES ASSUME Types, Window, [Next]_vars PROVE Window'
  OBVIOUS
<1>1. CASE UNCHANGED vars
  BY <1>1 DEF vars, procVars, Window, Owner
<1>2. CASE \E l \in Launcher : Launch(l) \/ LauncherStep(l)
  BY <1>2, LauncherGuarded, WindowGuarded
<1>3. ASSUME NEW d \in Daemon, DaemonStep(d) \/ Serve(d) \/ StopIdle(d)
      PROVE  Window'
  <2>1. d \in Proc /\ d # None /\ st \in [Proc -> DaemonPhase \cup LauncherPhase]
    BY Names DEF Types
  <2>2. ASSUME NEW x, Goto(d, x), UNCHANGED rivals, socket' \in {socket, None},
               x \in Closing => st[d] \in Closing \/ socket = d,
               x \in {"listening", "serving"} =>
                 st[d] \in {"listening", "serving"} \/ (Owner("daemon") = d /\ UNCHANGED file),
               file'["daemon"] \in {file["daemon"], Absent}
        PROVE  Window'
    <3>1. st'[d] = x /\ \A c \in Daemon : c # d => st'[c] = st[c]
      BY <2>1, <2>2, Names DEF Goto
    <3>2. \A e \in Daemon : Owner("daemon")' = e => Owner("daemon") = e
      BY <2>2, Names DEF Owner, Absent
    <3>3. Guarded
      BY <2>2, <3>1, <3>2 DEF Guarded
    <3> QED BY <3>3, WindowGuarded
  <2>3. ASSUME NEW locks \in SUBSET Lock, Exit(d, locks) PROVE file'["daemon"] \in {file["daemon"], Absent}
    BY <2>1, <2>3, Releases DEF Exit, Lock
  <2>4. CASE Acquire(d)
    BY <2>1, <2>4, AcquireGuarded, WindowGuarded
  <2>5. CASE Bind(d)
    <3>1. /\ socket' = d /\ rivals' = {e \in Daemon : st[e] \in Closing} /\ st'[d] = "bound"
          /\ \A e \in Daemon : e # d => st'[e] = st[e]
      BY <2>1, <2>5, Names DEF Bind, Goto
    <3> QED BY <3>1 DEF Window
  <2>6. CASE GiveUp(d) \/ ReleaseLock(d)
    BY <2>2, <2>3, <2>6 DEF GiveUp, ReleaseLock, Exit, Closing, Lock
  <2>7. CASE CheckSocket(d)
    BY <2>2, <2>3, <2>7 DEF CheckSocket, Exit, Acquiring, Closing
  <2>8. CASE ProbeSocket(d)
    BY <2>2, <2>3, <2>8 DEF ProbeSocket, Exit, Closing
  <2>9. CASE Listen(d)
    BY <2>2, <2>9 DEF Listen, Closing
  <2>10. CASE Serve(d) \/ LoseLock(d) \/ StopIdle(d)
    BY <2>2, <2>10 DEF Serve, LoseLock, StopIdle, In, Closing
  <2>11. CASE CloseGuard(d)
    BY <2>2, <2>11 DEF CloseGuard, Closing
  <2>12. CASE RemovePath(d)
    BY <2>2, <2>12 DEF RemovePath, In, Closing
  <2> QED BY <1>3, <2>4, <2>5, <2>6, <2>7, <2>8, <2>9, <2>10, <2>11, <2>12 DEF DaemonStep
<1>4. ASSUME NEW k \in Lock, Age(k) PROVE Window'
  <2>1. file'["daemon"].owner = file["daemon"].owner /\ file'["daemon"].written = file["daemon"].written
    <3>1. /\ file \in [Lock -> LockFile] /\ "daemon" \in Lock
          /\ file' = [file EXCEPT ![k] = [file[k] EXCEPT !.old = TRUE]]
      BY <1>4 DEF Types, LockFiles, Lock, Age
    <3>2. /\ [file[k] EXCEPT !.old = TRUE].owner = file[k].owner
          /\ [file[k] EXCEPT !.old = TRUE].written = file[k].written
      BY <3>1 DEF LockFile
    <3> QED BY <3>1, <3>2
  <2>2. UNCHANGED <<socket, st, rivals>>
    BY <1>4 DEF Age, procVars
  <2> QED BY <2>1, <2>2 DEF Window, Owner
<1>5. ASSUME NEW p \in Proc, Kill(p) PROVE Window'
  <2>1. /\ UNCHANGED <<file, socket, rivals>> /\ \A d \in Daemon : st'[d] \in {st[d], "off"}
    BY <1>5, Names DEF Kill, Goto, Types
  <2> QED BY <2>1 DEF Window, Closing, Owner
<1> QED BY <1>1, <1>2, <1>3, <1>4, <1>5 DEF Next

(* A daemon that listens or serves loses the path to another's shutdown only in the   *)
(* time between that one's look at the path and its removal: the other was closing    *)
(* when the path was bound, and has lost its daemon lock to the one that is cut off.  *)
THEOREM CutOffInTheWindowOnly == Spec => SocketNotCutOff
<1>1. Init => Window
  BY Names DEF Init, Window
<1>2. Window /\ [Next]_vars =>
        [\A c, e \in Daemon :
           /\ socket = c /\ socket' = None /\ st[c] \in {"listening", "serving"}
           /\ e # c /\ st[e] \in Closing /\ st'[e] # st[e]
           => e \in rivals /\ Owner("daemon") # e]_vars
  BY DEF Window
<1> QED BY <1>1, <1>2, InitialTypes, TypesKept, WindowKept, PTL DEF Spec, SocketNotCutOff

-----------------------------------------------------------------------------
(* Builds: short of a major fault                                            *)

Bound == {"bound", "listening", "serving"}
Holding == {"holding", "planning", "asking", "signalling", "draining", "free", "spawned"}

(* The start lock is the one launcher's that is past it, and not old before it is written *)
StartHeld ==
  /\ \/ file["start"] = Absent
     \/ /\ file["start"].owner \in Launcher /\ (file["start"].old => file["start"].written)
        /\ IF file["start"].written THEN st[file["start"].owner] \in Holding
                                    ELSE At(file["start"].owner, "write")
  /\ \A l \in Launcher :
       /\ st[l] \in Holding => file["start"].owner = l /\ file["start"].written
       /\ ~At(l, "none") => acq[l].step \in {"create", "write", "judge"}
       /\ At(l, "write") => file["start"].owner = l /\ ~file["start"].written
       /\ st[l] \notin {"expecting", "killed"}

OneLives == \A c, d \in Daemon : Alive(c) /\ Alive(d) => c = d

Owns(d) == file["daemon"].owner = d /\ file["daemon"].written

(* The daemon lock is that of a daemon that is gone *)
Dead == file["daemon"].owner # None /\ file["daemon"].written /\ ~Alive(file["daemon"].owner)

Taking(d) ==
  \/ At(d, "create") /\ (file["daemon"] = Absent \/ (Dead /\ acq[d].attempt = 1))
  \/ At(d, "write") /\ file["daemon"].owner = d
  \/ At(d, "judge") /\ Dead /\ acq[d].attempt = 1
  \/ At(d, "recheck") /\ Dead /\ acq[d].attempt = 1 /\ acq[d].judged = file["daemon"].owner
  \/ At(d, "unlink") /\ Dead /\ acq[d].attempt = 1

(* A daemon that is about to serve is the child of the launcher that holds the start *)
(* lock, one that stops has been asked to by it; what is about to serve is not older *)
(* than what served.                                                                 *)
DaemonCalm(d) ==
  /\ st[d] # "exiting"
  /\ st[d] = "off" => file["daemon"].owner # d \/ file["daemon"].written
  /\ st[d] \in Early => /\ token[d] \in Launcher /\ st[token[d]] = "spawned" /\ child[token[d]] = d
                        /\ socket # d
  /\ st[d] \in Bound \cup {"stopping"} => socket = d
  /\ st[d] \in Leaving => \E l \in Launcher : st[l] = "draining" /\ child[l] = d
  /\ st[d] = "booting" => Taking(d)
  /\ st[d] = "bridging" => acq[d].step \in {"create", "judge"}
  /\ st[d] \notin {"off", "booting"} => Owns(d)
  /\ st[d] \in Early \cup {"bound", "listening"} => ~Newer(served, build[d])
  /\ st[d] \in Leaving \cup {"serving"} => served = build[d]

LauncherCalm(l) ==
  /\ st[l] = "planning" => \E d \in Daemon : st[d] \in Bound
  /\ st[l] \in {"asking", "signalling"} =>
       child[l] \in Daemon /\ st[child[l]] \in Bound /\ Newer(Build[l], build[child[l]])
  /\ st[l] = "draining" =>
       /\ child[l] \in Daemon
       /\ st[child[l]] \in {"listening", "serving", "off"} \cup Leaving
       /\ \A d \in Daemon : Alive(d) => d = child[l]
       /\ Newer(Build[l], build[child[l]]) /\ ~Newer(served, Build[l])
  /\ st[l] = "free" => (\A d \in Daemon : ~Alive(d)) /\ ~Newer(served, Build[l])
  /\ st[l] = "spawned" => child[l] \in Daemon /\ st[child[l]] \in Early \cup Bound

(* What served is replaced by the launcher that asked it to stop *)
Succeeded ==
  \/ served.release = 0
  \/ \E d \in Daemon : Alive(d)
  \/ \E l \in Launcher : st[l] \in {"draining", "free"}

Calm ==
  /\ StartHeld
  /\ OneLives
  /\ file["daemon"].owner = None => file["daemon"] = Absent
  /\ \A d \in Daemon : DaemonCalm(d)
  /\ \A l \in Launcher : LauncherCalm(l)
  /\ Succeeded

LEMMA NewerOrder ==
  ASSUME NEW x \in BuildType, NEW y \in BuildType, NEW z \in BuildType, Newer(z, y)
  PROVE  /\ ~Newer(y, z)
         /\ ~Newer(x, y) => ~Newer(x, z)
BY DEF Newer, BuildType

(* The phase and the attempt of one process change, and nothing of another's *)
OnlyMoves(p) == \A q \in Proc : q # p => st'[q] = st[q] /\ acq'[q] = acq[q]
LaunchersStay(l) == \A m \in Launcher : m # l => st'[m] = st[m] /\ acq'[m] = acq[m]

(* A launcher moves on without a daemon *)
LEMMA LauncherAlone ==
  ASSUME Types, Calm, NEW l \in Launcher, OnlyMoves(l), UNCHANGED <<socket, build, served>>,
         UNCHANGED file["daemon"],
         st[l] \notin {"spawned", "draining", "free"},
         \A m \in Launcher : m # l => child'[m] = child[m],
         \A d \in Daemon : token'[d] = token[d] \/ token[d] = l
  PROVE  /\ OneLives'
         /\ (file["daemon"].owner = None => file["daemon"] = Absent)'
         /\ \A d \in Daemon : DaemonCalm(d)'
         /\ \A m \in Launcher : m # l => LauncherCalm(m)'
         /\ Succeeded'
<1>1. /\ \A d \in Daemon : d \in Proc /\ d # l /\ st'[d] = st[d] /\ acq'[d] = acq[d]
      /\ \A m \in Launcher : m \in Proc /\ (m # l => st'[m] = st[m] /\ acq'[m] = acq[m])
  BY Names DEF OnlyMoves
<1>2. OneLives'
  BY <1>1 DEF Calm, OneLives, Alive
<1>3. (file["daemon"].owner = None => file["daemon"] = Absent)'
  BY DEF Calm
<1>4. ASSUME NEW d \in Daemon PROVE DaemonCalm(d)'
  BY <1>1 DEF Calm, DaemonCalm, Taking, Dead, Owns, At, Alive, Early, Bound, Leaving, Closing, Types, LockFiles
<1>5. ASSUME NEW m \in Launcher, m # l PROVE LauncherCalm(m)'
  BY <1>1, <1>5 DEF Calm, LauncherCalm, Alive
<1>6. Succeeded'
  BY <1>1 DEF Calm, Succeeded, Alive
<1> QED BY <1>2, <1>3, <1>4, <1>5, <1>6

LEMMA Shapes ==
  ASSUME Types
  PROVE  /\ file["start"] \in LockFile /\ file["daemon"] \in LockFile
         /\ file["daemon"].owner \in Daemon \cup {None}
         /\ \A p \in Proc : st[p] \in PhaseOf(p) /\ acq[p] \in Acquisition
         /\ \A l \in Launcher : At(l, "none") \/ st[l] \in {"locking", "relocking"}
         /\ \A d \in Daemon : At(d, "none") \/ st[d] \in {"booting", "bridging"}
<1>1. file \in [Lock -> LockFile] /\ file["daemon"].owner \in Daemon \cup {None} /\ {"start", "daemon"} = Lock
  BY DEF Types, LockFiles, Lock
<1>2. \A p \in Proc : st[p] \in PhaseOf(p) /\ acq[p] \in Acquisition /\ (Acquires(p) \/ At(p, "none"))
  BY DEF Types
<1> QED BY <1>1, <1>2, Names DEF PhaseOf, DaemonPhase, LauncherPhase, Acquires

(* What a launcher may do to the start lock and to itself *)
LEMMA StartKept ==
  ASSUME Types, Calm, NEW l \in Launcher, LaunchersStay(l),
         \/ UNCHANGED file["start"] /\ st[l] \notin Holding /\ ~At(l, "write")
         \/ UNCHANGED file["start"] /\ st[l] \in Holding /\ st'[l] \in Holding
         \/ /\ file["start"] = Absent \/ file["start"].owner = l
            /\ file'["start"] = Absent
            /\ st'[l] \notin Holding
         \/ /\ file["start"] = Absent \/ file["start"].owner = l
            /\ file'["start"].owner = l /\ (file'["start"].old => file'["start"].written)
            /\ IF file'["start"].written THEN st'[l] \in Holding ELSE At(l, "write")',
         st'[l] \in Holding => file'["start"].owner = l /\ file'["start"].written,
         ~At(l, "none")' => acq'[l].step \in {"create", "write", "judge"},
         At(l, "write")' => file'["start"].owner = l /\ ~file'["start"].written,
         st'[l] \notin {"expecting", "killed"}
  PROVE  StartHeld'
<1>1. \A m \in Launcher : m # l => st'[m] = st[m] /\ acq'[m] = acq[m]
  BY DEF LaunchersStay
<1>2. Absent.owner = None /\ ~Absent.written
  BY DEF Absent
<1>3. \A m \in Launcher : m # None
  BY Names
<1>4. StartHeld
  BY DEF Calm
<1>5. ASSUME NEW m \in Launcher
      PROVE  /\ st'[m] \in Holding => file'["start"].owner = m /\ file'["start"].written
             /\ ~At(m, "none")' => acq'[m].step \in {"create", "write", "judge"}
             /\ At(m, "write")' => file'["start"].owner = m /\ ~file'["start"].written
             /\ st'[m] \notin {"expecting", "killed"}
  BY <1>1, <1>2, <1>3, <1>4 DEF StartHeld, At
<1>6. \/ file'["start"] = Absent
      \/ /\ file'["start"].owner \in Launcher /\ (file'["start"].old => file'["start"].written)
         /\ IF file'["start"].written THEN st'[file'["start"].owner] \in Holding
                                      ELSE At(file["start"].owner, "write")'
  <2>1. CASE /\ UNCHANGED file["start"]
             /\ (st[l] \notin Holding /\ ~At(l, "write")) \/ (st[l] \in Holding /\ st'[l] \in Holding)
    <3>1. CASE file["start"].owner = l /\ file["start"] # Absent
      BY <1>2, <1>3, <1>4, <2>1, <3>1 DEF StartHeld
    <3>2. CASE file["start"].owner # l /\ file["start"] # Absent
      BY <1>1, <1>4, <2>1, <3>2 DEF StartHeld, At
    <3> QED BY <2>1, <3>1, <3>2
  <2>2. CASE /\ file'["start"].owner = l /\ (file'["start"].old => file'["start"].written)
             /\ IF file'["start"].written THEN st'[l] \in Holding ELSE At(l, "write")'
    BY <2>2
  <2> QED BY <2>1, <2>2
<1> QED BY <1>5, <1>6 DEF StartHeld

LEMMA StartStaysHeld ==
  ASSUME Types, Calm, NEW l \in Launcher, OnlyMoves(l),
         \/ UNCHANGED file["start"] /\ st[l] \notin Holding /\ ~At(l, "write")
         \/ UNCHANGED file["start"] /\ st[l] \in Holding /\ st'[l] \in Holding
         \/ /\ file["start"] = Absent \/ file["start"].owner = l
            /\ file'["start"] = Absent
            /\ st'[l] \notin Holding
         \/ /\ file["start"] = Absent \/ file["start"].owner = l
            /\ file'["start"].owner = l /\ (file'["start"].old => file'["start"].written)
            /\ IF file'["start"].written THEN st'[l] \in Holding ELSE At(l, "write")',
         st'[l] \in Holding => file'["start"].owner = l /\ file'["start"].written,
         ~At(l, "none")' => acq'[l].step \in {"create", "write", "judge"},
         At(l, "write")' => file'["start"].owner = l /\ ~file'["start"].written,
         st'[l] \notin {"expecting", "killed"}
  PROVE  StartHeld'
<1> LaunchersStay(l)
  BY Names DEF OnlyMoves, LaunchersStay
<1> QED BY StartKept

(* The start lock is no one's to break *)
LEMMA StartNotStale ==
  ASSUME Types, Calm
  PROVE  ~Stale("start")
<1>1. CASE file["start"] = Absent
  BY <1>1 DEF Stale
<1>2. CASE file["start"] # Absent /\ file["start"].written
  <2>1. st[file["start"].owner] \in Holding /\ file["start"].owner # None
    BY <1>2, Names DEF Calm, StartHeld
  <2> QED BY <1>2, <2>1 DEF Stale, Owner, Alive, Holding
<1>3. CASE file["start"] # Absent /\ ~file["start"].written
  BY <1>3 DEF Calm, StartHeld, Stale
<1> QED BY <1>1, <1>2, <1>3

LEMMA TakesStart ==
  ASSUME Types, Calm, NEW l \in Launcher, Acquire(l)
  PROVE  Calm'
<1>1. /\ LockOf(l) = "start" /\ st[l] \in {"locking", "relocking"} /\ l \in Proc /\ l \notin Daemon /\ l # None
      /\ UNCHANGED AcqVars /\ acq[l].step \in {"create", "write", "judge"}
      /\ At(l, "write") => file["start"].owner = l /\ ~file["start"].written
  <2>1. ~At(l, "none") /\ UNCHANGED AcqVars
    BY DEF Acquire, Create, Write, Judge, ProbeOwner, Recheck, Unlink, At
  <2>2. st[l] \in {"locking", "relocking"}
    BY <2>1, Shapes
  <2> QED BY <2>1, <2>2, Names DEF LockOf, Calm, StartHeld
<1>2. /\ st \in [Proc -> DaemonPhase \cup LauncherPhase] /\ acq \in [Proc -> Acquisition]
      /\ file \in [Lock -> LockFile] /\ Lock = {"start", "daemon"}
  BY DEF Types, LockFiles, Lock
<1>3. ASSUME OnlyMoves(l), UNCHANGED file["daemon"], StartHeld', LauncherCalm(l)'
      PROVE  Calm'
  BY <1>1, <1>3, LauncherAlone DEF Calm, AcqVars
<1>4. ASSUME st'[l] \notin Holding PROVE LauncherCalm(l)'
  BY <1>4 DEF LauncherCalm, Holding
<1>5. CASE Create(l)
  <2>1. CASE file["start"] = Absent
    <3>1. /\ file'["start"].owner = l /\ ~file'["start"].written /\ ~file'["start"].old /\ UNCHANGED file["daemon"]
      BY <1>1, <1>2, <1>5, <2>1 DEF Create, Absent
    <3>2. acq'[l].step = "write" /\ st'[l] = st[l] /\ OnlyMoves(l)
      BY <1>1, <1>2, <1>5, <2>1 DEF Create, Step, OnlyMoves, Acquisition
    <3> QED BY <1>1, <1>3, <1>4, <2>1, <3>1, <3>2, StartStaysHeld DEF Holding, At
  <2>2. CASE file["start"] # Absent
    <3>1. acq'[l].step = "judge" /\ st'[l] = st[l] /\ OnlyMoves(l) /\ UNCHANGED file
      BY <1>1, <1>2, <1>5, <2>2 DEF Create, Step, OnlyMoves, Acquisition
    <3> QED BY <1>1, <1>3, <1>4, <1>5, <2>2, <3>1, StartStaysHeld DEF Holding, At, Create
  <2> QED BY <2>1, <2>2
<1>6. CASE Write(l)
  <2>1. /\ file'["start"].owner = l /\ file'["start"].written
        /\ UNCHANGED file["daemon"]
    BY <1>1, <1>2, <1>6 DEF Write, At, LockFile
  <2>2. acq'[l].step = "none" /\ st'[l] = "holding" /\ OnlyMoves(l)
    BY <1>1, <1>2, <1>6, Plain DEF Write, Acquired, Goto, AfterAcquired, OnlyMoves
  <2>3. file["start"].owner = l
    BY <1>1, <1>6 DEF Write
  <2>4. LauncherCalm(l)'
    BY <2>2 DEF LauncherCalm
  <2> QED BY <1>1, <1>3, <2>1, <2>2, <2>3, <2>4, StartStaysHeld DEF Holding, At
<1>7. CASE Judge(l)
  <2>1. ~Stale("start")
    BY StartNotStale
  <2>2. Refused(l) /\ UNCHANGED file
    BY <1>1, <1>7, <2>1 DEF Judge
  <2>3. acq'[l].step = "none" /\ st'[l] \in {"waiting", "off"} /\ OnlyMoves(l)
    BY <1>1, <1>2, <2>2, Plain DEF Refused, Goto, AfterRefused, OnlyMoves
  <2> QED BY <1>1, <1>3, <1>4, <1>7, <2>2, <2>3, StartStaysHeld DEF Holding, At, Judge
<1> QED BY <1>1, <1>5, <1>6, <1>7 DEF Acquire, ProbeOwner, Recheck, Unlink, At

LEMMA NoFault ==
  ASSUME Types, faults'.major = 0
  PROVE  ~Fault("major") /\ \A gone : Ends(gone) => gone
<1>1. faults \in [minor: Nat, major: Nat]
  BY DEF Types, FaultCounts
<1>2. ~Fault("major")
  BY <1>1 DEF Fault
<1> QED BY <1>2 DEF Ends

LEMMA LaunchCalm ==
  ASSUME Types, Calm, NEW l \in Launcher, Launch(l)
  PROVE  Calm'
<1>1. /\ st'[l] = "locking" /\ acq'[l].step = "create" /\ OnlyMoves(l) /\ UNCHANGED <<file, socket, build, token, child, served>>
      /\ st[l] = "off"
  BY Names, Plain DEF Launch, Acquiring, Goto, In, OnlyMoves, Types, NoAcq
<1>2. At(l, "none")
  BY <1>1, Shapes
<1>3. StartHeld'
  BY <1>1, <1>2, StartStaysHeld DEF Holding, At
<1>4. LauncherCalm(l)'
  BY <1>1 DEF LauncherCalm
<1> QED BY <1>1, <1>3, <1>4, LauncherAlone DEF Calm

LEMMA AwaitOtherCalm ==
  ASSUME Types, Calm, NEW l \in Launcher, AwaitOther(l)
  PROVE  Calm'
<1>1. /\ st[l] = "waiting" /\ At(l, "none") /\ UNCHANGED <<file, socket, build, token, child, served>>
  BY Shapes DEF AwaitOther, In
<1>2. /\ OnlyMoves(l)
      /\ \/ st'[l] = "off" /\ acq'[l] = acq[l]
         \/ st'[l] = "relocking" /\ acq'[l].step = "create"
  BY Names, Plain DEF AwaitOther, Acquiring, Goto, OnlyMoves, Types, NoAcq
<1>3. StartHeld'
  BY <1>1, <1>2, StartStaysHeld DEF Holding, At
<1>4. LauncherCalm(l)'
  BY <1>2 DEF LauncherCalm
<1> QED BY <1>1, <1>2, <1>3, <1>4, LauncherAlone DEF Calm

(* The launcher that holds the start lock is the only one, and no daemon is about to *)
(* serve or stops without it                                                         *)
LEMMA HolderAlone ==
  ASSUME Types, Calm, NEW l \in Launcher, st[l] \in Holding
  PROVE  /\ file["start"].owner = l /\ file["start"].written
         /\ \A m \in Launcher : m # l => st[m] \notin Holding
         /\ st[l] # "spawned" => \A d \in Daemon : st[d] \notin Early
         /\ st[l] # "draining" => \A d \in Daemon : st[d] \notin Leaving
<1>1. StartHeld
  BY DEF Calm
<1>2. file["start"].owner = l /\ file["start"].written
  BY <1>1 DEF StartHeld, Absent
<1>3. \A m \in Launcher : m # l => st[m] \notin Holding
  BY <1>1, <1>2 DEF StartHeld
<1>4. ASSUME NEW d \in Daemon, st[d] \in Early PROVE st[l] = "spawned"
  BY <1>3, <1>4 DEF Calm, DaemonCalm, Holding
<1>5. ASSUME NEW d \in Daemon, st[d] \in Leaving PROVE st[l] = "draining"
  BY <1>3, <1>5 DEF Calm, DaemonCalm, Holding
<1> QED BY <1>2, <1>3, <1>4, <1>5

(* A launcher that has the start lock and finds what it needs, or nothing *)
LEMMA FinishCalm ==
  ASSUME Types, Calm, NEW l \in Launcher, Finish(l), UNCHANGED <<socket, build, served>>,
         st[l] \in {"holding", "planning", "asking", "signalling"}
  PROVE  Calm'
<1>1. /\ file["start"].owner = l /\ file["start"].written
  BY HolderAlone DEF Holding
<1>2. l \in Proc /\ "start" \in Lock
  BY Names DEF Lock
<1>3. /\ file'["start"] = Absent /\ UNCHANGED file["daemon"]
  BY <1>1, <1>2, Releases DEF Finish, Lock
<1>4. st'[l] = "off" /\ acq'[l].step = "none" /\ OnlyMoves(l)
  BY <1>2, Plain DEF Finish, Goto, OnlyMoves, Types
<1>5. /\ \A m \in Launcher : m # l => child'[m] = child[m]
      /\ \A d \in Daemon : token'[d] = token[d] \/ token[d] = l
  BY DEF Finish, Types
<1>6. StartHeld'
  BY <1>1, <1>3, <1>4, StartStaysHeld DEF Holding, At
<1>7. LauncherCalm(l)'
  BY <1>4 DEF LauncherCalm
<1> QED BY <1>3, <1>4, <1>5, <1>6, <1>7, LauncherAlone DEF Calm

(* What has bound the socket is reached there *)
LEMMA BoundReachable ==
  ASSUME Types, Calm, NEW d \in Daemon, st[d] \in Bound
  PROVE  Reachable /\ socket = d /\ Owner("daemon") = d /\ DaemonLockHeld
BY Names DEF Calm, DaemonCalm, Reachable, Alive, Bound, Owns, Owner, DaemonLockHeld

(* The launcher with the start lock finds the daemon that serves, or none *)
LEMMA LockedProbeCalm ==
  ASSUME Types, Calm, NEW l \in Launcher, LockedProbe(l), faults'.major = 0
  PROVE  Calm'
<1>1. st[l] = "holding" /\ At(l, "none") /\ l \in Proc /\ file["start"].owner = l /\ file["start"].written
  BY Names, Shapes, HolderAlone DEF LockedProbe, In, Holding
<1>2. ASSUME OnlyMoves(l), st'[l] \in {"planning", "free"}, UNCHANGED <<file, socket, acq, build, token, child, served>>,
             LauncherCalm(l)'
      PROVE  Calm'
  <2>1. StartHeld'
    BY <1>1, <1>2, StartStaysHeld DEF Holding, At
  <2> QED BY <1>1, <1>2, <2>1, LauncherAlone DEF Calm
<1>3. CASE Reachable
  <2>1. Goto(l, "planning") /\ UNCHANGED <<file, socket, acq, build, token, child, served>>
    BY <1>3, NoFault DEF LockedProbe, Unanswered
  <2>2. st'[l] = "planning" /\ OnlyMoves(l)
    BY <1>1, <2>1 DEF Goto, OnlyMoves, Types
  <2>3. PICK d \in Daemon : d = socket
    BY <1>3 DEF Types, Reachable
  <2>4. st[d] \in Bound
    <3>1. st[d] # "off" /\ st[d] \in DaemonPhase /\ d # l
      BY <1>3, <2>3, Names, Shapes DEF Reachable, Alive, PhaseOf
    <3>2. st[d] \notin Early /\ st[d] # "exiting"
      BY <2>3 DEF Calm, DaemonCalm
    <3>3. st[d] \notin Leaving
      BY <1>1, HolderAlone DEF Holding
    <3> QED BY <3>1, <3>2, <3>3 DEF DaemonPhase, Bound, Early, Leaving, Closing
  <2>5. st'[d] \in Bound
    BY <2>2, <2>4, Names DEF OnlyMoves
  <2>6. LauncherCalm(l)'
    BY <2>2, <2>5 DEF LauncherCalm
  <2> QED BY <1>2, <2>1, <2>2, <2>6
<1>4. CASE ~Reachable
  <2>1. Goto(l, "free") /\ UNCHANGED <<file, socket, acq, build, token, child, served>>
    BY <1>4 DEF LockedProbe, Answered
  <2>2. st'[l] = "free" /\ OnlyMoves(l)
    BY <1>1, <2>1 DEF Goto, OnlyMoves, Types
  <2>3. ASSUME NEW d \in Daemon PROVE ~Alive(d)
    <3>1. st[d] \in DaemonPhase /\ d # None
      BY Names, Shapes DEF PhaseOf
    <3>2. st[d] \notin Early \cup Leaving
      BY <1>1, HolderAlone DEF Holding
    <3>3. st[d] # "exiting" /\ st[d] \notin Bound
      BY <1>4, BoundReachable DEF Calm, DaemonCalm
    <3> QED BY <3>1, <3>2, <3>3 DEF Alive, DaemonPhase, Bound, Early, Leaving, Closing
  <2>4. served.release = 0
    BY <1>1, <2>3, HolderAlone DEF Calm, Succeeded, Holding
  <2>5. LauncherCalm(l)'
    BY <1>1, <2>1, <2>2, <2>3, <2>4, Names DEF LauncherCalm, OnlyMoves, Newer, Alive
  <2> QED BY <1>2, <2>1, <2>2, <2>5
<1> QED BY <1>3, <1>4

(* The daemon it asks, or signals, is the one that it has found *)
LEMMA PlanCalm ==
  ASSUME Types, Calm, NEW l \in Launcher, Plan(l), faults'.major = 0
  PROVE  Calm'
<1>1. /\ st[l] = "planning" /\ At(l, "none") /\ l \in Proc /\ file["start"].owner = l /\ file["start"].written
      /\ UNCHANGED <<socket, build, served>>
  BY Names, Shapes, HolderAlone DEF Plan, In, Holding
<1>2. PICK d \in Daemon : st[d] \in Bound
  BY <1>1 DEF Calm, LauncherCalm
<1>3. Reachable /\ socket = d /\ d # l
  BY <1>2, BoundReachable, Names
<1>4. ~Unanswered
  BY <1>3, NoFault DEF Unanswered
<1>5. CASE Finish(l)
  BY <1>1, <1>5, FinishCalm
<1>6. CASE ~Finish(l)
  <2>1. PICK x \in {"asking", "signalling"} : Wait(l, x, d)
    BY <1>3, <1>4, <1>6 DEF Plan
  <2>2. Newer(Build[l], build[d]) /\ UNCHANGED <<file, acq, token>>
    BY <1>3, <1>4, <1>6 DEF Plan, Content
  <2>3. /\ st'[l] = x /\ child'[l] = d /\ OnlyMoves(l) /\ \A m \in Launcher : m # l => child'[m] = child[m]
    BY <1>1, <2>1, <2>2 DEF Wait, Goto, OnlyMoves, Types
  <2>4. LauncherCalm(l)'
    BY <1>1, <1>2, <1>3, <2>2, <2>3, Names DEF LauncherCalm, OnlyMoves
  <2>5. StartHeld'
    BY <1>1, <2>2, <2>3, StartStaysHeld DEF Holding, At
  <2> QED BY <1>1, <2>2, <2>3, <2>4, <2>5, LauncherAlone DEF Calm
<1> QED BY <1>5, <1>6

(* The daemon that a launcher replaces stops, or goes on for a while *)
LEMMA DrainCalm ==
  ASSUME Types, Calm, NEW l \in Launcher, st[l] \in {"asking", "signalling"},
         NEW d \in Daemon, d = child[l], child'[l] = d, UNCHANGED <<file, socket, build, token, served>>,
         \A m \in Launcher : m # l => child'[m] = child[m],
         st'[l] = "draining", st'[d] \in {"listening", "stopping", "off"},
         st'[d] = "listening" => st[d] = "listening", st'[d] = "stopping" => st[d] = "serving",
         \A q \in Proc : q # l /\ q # d => st'[q] = st[q],
         acq'[d].step = "none", \A q \in Proc : q # d => acq'[q] = acq[q]
  PROVE  Calm'
<1>1. At(l, "none") /\ l \in Proc /\ file["start"].owner = l /\ file["start"].written
  BY Names, Shapes, HolderAlone DEF Holding
<1>2. /\ st[d] \in Bound /\ Newer(Build[l], build[d]) /\ d \in Proc /\ d # l /\ d # None
      /\ \A c \in Daemon : Alive(c) <=> c = d
      /\ socket = d /\ Owns(d)
  <2>1. st[d] \in Bound /\ Newer(Build[l], build[d])
    BY DEF Calm, LauncherCalm
  <2> QED BY <2>1, Names DEF Calm, OneLives, DaemonCalm, Alive, Bound
<1>3. LaunchersStay(l) /\ st'[l] \in Holding /\ acq'[l] = acq[l] /\ st[l] \in Holding
  BY <1>1, <1>2, Names DEF LaunchersStay, Holding
<1>4. StartHeld'
  BY <1>1, <1>3, StartKept DEF At
<1>5. \A c \in Daemon : Alive(c)' => c = d
  BY <1>2, Names DEF Alive
<1>6. served = build[d] \/ ~Newer(served, build[d])
  BY <1>2 DEF Calm, DaemonCalm, Bound
<1>7. ~Newer(served, Build[l])
  <2>1. Build[l] \in BuildType /\ build[d] \in BuildType /\ served \in BuildType
    BY BuildAssumption DEF Types
  <2> QED BY <1>2, <1>6, <2>1, NewerOrder
<1>8. LauncherCalm(l)'
  BY <1>1, <1>2, <1>5, <1>7 DEF LauncherCalm, Leaving
<1>9. ASSUME NEW m \in Launcher, m # l PROVE LauncherCalm(m)'
  <2>1. st'[m] \notin Holding
    BY <1>3, <1>9, HolderAlone DEF LaunchersStay
  <2> QED BY <2>1 DEF LauncherCalm, Holding
<1>10. DaemonCalm(d)'
  BY <1>1, <1>2 DEF Calm, DaemonCalm, Owns, Early, Bound, Leaving, Closing
<1>11. ASSUME NEW c \in Daemon, c # d PROVE DaemonCalm(c)'
  <2>1. st'[c] = "off" /\ st[c] = "off"
    BY <1>2, <1>11, Names DEF Alive
  <2> QED BY <1>2, <1>11, <2>1 DEF Owns, DaemonCalm, Early, Bound, Leaving, Closing
<1>12. OneLives' /\ Succeeded'
  BY <1>5 DEF OneLives, Succeeded
<1> QED BY <1>4, <1>8, <1>9, <1>10, <1>11, <1>12 DEF Calm

LEMMA AskCalm ==
  ASSUME Types, Calm, NEW l \in Launcher, Ask(l)
  PROVE  Calm'
<1>1. /\ st[l] = "asking" /\ l \in Proc /\ UNCHANGED <<socket, build, served>>
  BY Names DEF Ask, In
<1>2. PICK d \in Daemon : d = child[l] /\ st[d] \in Bound
  BY <1>1 DEF Calm, LauncherCalm
<1>3. d \in Proc /\ d # l /\ At(d, "none")
  BY <1>2, Names, Shapes DEF Bound
<1>4. CASE Finish(l)
  BY <1>1, <1>4, FinishCalm
<1>5. CASE ~Finish(l)
  <2>1. /\ st[d] \in {"listening", "serving"} /\ UNCHANGED <<file, acq, token, child>>
        /\ st' = [st EXCEPT ![l] = "draining", ![d] = IF @ = "serving" THEN "stopping" ELSE @]
    BY <1>2, <1>5 DEF Ask
  <2>2. /\ st'[l] = "draining" /\ st'[d] = IF st[d] = "serving" THEN "stopping" ELSE st[d]
        /\ \A q \in Proc : q # l /\ q # d => st'[q] = st[q]
    BY <1>1, <1>3, <2>1 DEF Types
  <2>3. /\ st'[d] \in {"listening", "stopping", "off"} /\ (st'[d] = "listening" => st[d] = "listening")
        /\ st'[d] = "stopping" => st[d] = "serving"
    BY <2>1, <2>2
  <2>4. /\ UNCHANGED <<file, socket, build, token, served>> /\ st[l] \in {"asking", "signalling"}
        /\ child'[l] = d /\ acq'[d].step = "none" /\ \A q \in Proc : q # d => acq'[q] = acq[q]
        /\ \A m \in Launcher : m # l => child'[m] = child[m]
    BY <1>1, <1>2, <1>3, <2>1 DEF At
  <2> QED BY <1>2, <2>2, <2>3, <2>4, DrainCalm
<1> QED BY <1>4, <1>5

(* The daemon that has bound the socket owns the daemon lock: the signal is for it *)
LEMMA SignalCalm ==
  ASSUME Types, Calm, NEW l \in Launcher, Signal(l), faults'.major = 0
  PROVE  Calm'
<1>1. /\ st[l] = "signalling" /\ l \in Proc /\ UNCHANGED <<socket, build, served>>
  BY Names DEF Signal, In
<1>2. PICK d \in Daemon : d = child[l] /\ st[d] \in Bound
  BY <1>1 DEF Calm, LauncherCalm
<1>3. d \in Proc /\ d # l /\ Reachable /\ Owner("daemon") = d /\ DaemonLockHeld
  BY <1>2, Names, BoundReachable
<1>4. /\ st' = [st EXCEPT ![l] = "draining", ![d] = Signalled(@)]
      /\ acq' = [acq EXCEPT ![d] = NoAcq]
      /\ child' = [child EXCEPT ![l] = d]
      /\ UNCHANGED <<file, token>>
  BY <1>3, NoFault DEF Signal, Unanswered
<1>5. /\ st'[l] = "draining" /\ st'[d] = Signalled(st[d])
      /\ \A q \in Proc : q # l /\ q # d => st'[q] = st[q]
  BY <1>1, <1>3, <1>4 DEF Types
<1>6. Signalled(st[d]) = IF st[d] = "serving" THEN "stopping" ELSE "off"
  BY <1>2 DEF Signalled, Bound, Leaving, Closing
<1>7. acq'[d].step = "none" /\ \A q \in Proc : q # d => acq'[q] = acq[q]
  BY <1>3, <1>4, Plain DEF Types
<1>8. child'[l] = d /\ \A m \in Launcher : m # l => child'[m] = child[m]
  BY <1>4 DEF Types
<1>9. /\ st'[d] \in {"listening", "stopping", "off"} /\ (st'[d] = "listening" => st[d] = "listening")
      /\ st'[d] = "stopping" => st[d] = "serving"
  BY <1>5, <1>6
<1>10. UNCHANGED <<file, socket, build, token, served>> /\ st[l] \in {"asking", "signalling"}
  BY <1>1, <1>4
<1> QED BY <1>2, <1>5, <1>7, <1>8, <1>9, <1>10, DrainCalm

(* The old daemon is gone, or runs on and its launcher gives up *)
LEMMA AwaitDrainedCalm ==
  ASSUME Types, Calm, NEW l \in Launcher, AwaitDrained(l), faults'.major = 0
  PROVE  Calm'
<1>1. /\ st[l] = "draining" /\ At(l, "none") /\ l \in Proc /\ file["start"].owner = l /\ file["start"].written
      /\ UNCHANGED <<socket, build, served>>
  BY Names, Shapes, HolderAlone DEF AwaitDrained, In, Holding
<1>2. PICK d : d = child[l] /\ d \in Daemon
  BY <1>1 DEF Calm, LauncherCalm
<1>3. /\ st[d] \in {"listening", "serving", "off"} \cup Leaving
      /\ \A c \in Daemon : Alive(c) => c = d
      /\ ~Newer(served, Build[l])
      /\ d # None
  BY <1>1, <1>2, Names DEF Calm, LauncherCalm
<1>4. Alive(d) => DaemonLockHeld
  BY <1>2, <1>3 DEF Calm, DaemonCalm, Owns, Alive, DaemonLockHeld, Owner, Leaving, Closing
<1>5. Owner("daemon") \in Daemon \cup {None}
  BY Shapes DEF Owner
<1>6. ~Alive(d) => ~DaemonLockHeld /\ ~Reachable
  BY <1>3, <1>5 DEF DaemonLockHeld, Reachable, Types
<1>7. ASSUME OnlyMoves(l), st'[l] \in {"off", "free"}
      PROVE  /\ \A c \in Daemon : st'[c] = st[c] /\ acq'[c] = acq[c]
             /\ \A m \in Launcher : m # l => LauncherCalm(m)'
             /\ OneLives'
  <2>1. \A c \in Daemon : st'[c] = st[c] /\ acq'[c] = acq[c]
    BY <1>7, Names DEF OnlyMoves
  <2>2. ASSUME NEW m \in Launcher, m # l PROVE LauncherCalm(m)'
    <3>1. st'[m] \notin Holding
      BY <1>1, <1>7, <2>2, HolderAlone, Names DEF OnlyMoves, Holding
    <3> QED BY <3>1 DEF LauncherCalm, Holding
  <2> QED BY <2>1, <2>2 DEF Calm, OneLives, Alive
<1>8. CASE Alive(d)
  <2>1. Finish(l) /\ st[d] \in {"listening", "serving"}
    BY <1>2, <1>3, <1>4, <1>8, NoFault DEF AwaitDrained, Alive
  <2>2. /\ file'["start"] = Absent /\ UNCHANGED file["daemon"]
    BY <1>1, <2>1, Releases DEF Finish, Lock
  <2>3. st'[l] = "off" /\ acq'[l].step = "none" /\ OnlyMoves(l)
    BY <1>1, <2>1, Plain, Names DEF Finish, Goto, OnlyMoves, Types
  <2>4. StartHeld'
    BY <1>1, <2>2, <2>3, StartStaysHeld DEF Holding, At
  <2>5. ASSUME NEW c \in Daemon PROVE DaemonCalm(c)'
    <3>1. st'[c] = st[c] /\ st[c] \in {"listening", "serving", "off"}
      BY <1>3, <1>7, <2>1, <2>3 DEF Alive
    <3> QED BY <1>1, <2>2, <3>1 DEF Calm, DaemonCalm, Owns, Early, Bound, Leaving, Closing
  <2>6. LauncherCalm(l)' /\ Succeeded'
    BY <1>2, <1>7, <1>8, <2>3 DEF LauncherCalm, Succeeded, Alive
  <2> QED BY <1>7, <2>2, <2>3, <2>4, <2>5, <2>6 DEF Calm
<1>9. CASE ~Alive(d)
  <2>1. Wait(l, "free", None) /\ UNCHANGED <<file, acq, token>>
    BY <1>6, <1>9 DEF AwaitDrained
  <2>2. st'[l] = "free" /\ OnlyMoves(l)
    BY <1>1, <2>1, Names DEF Wait, Goto, OnlyMoves, Types
  <2>3. StartHeld'
    BY <1>1, <2>1, <2>2, StartStaysHeld DEF Holding, At
  <2>4. \A c \in Daemon : st[c] = "off" /\ st'[c] = "off"
    BY <1>3, <1>7, <1>9, <2>2 DEF Alive
  <2>5. LauncherCalm(l)' /\ Succeeded'
    BY <1>1, <1>3, <2>2, <2>4 DEF LauncherCalm, Succeeded, Alive
  <2>6. ASSUME NEW c \in Daemon PROVE DaemonCalm(c)'
    BY <2>1, <2>4 DEF Calm, DaemonCalm, Early, Bound, Leaving, Closing
  <2> QED BY <1>1, <1>7, <2>1, <2>2, <2>3, <2>5, <2>6 DEF Calm
<1> QED BY <1>8, <1>9

LEMMA SpawnCalm ==
  ASSUME Types, Calm, NEW l \in Launcher, Spawn(l)
  PROVE  Calm'
<1>1. /\ st[l] = "free" /\ At(l, "none") /\ l \in Proc /\ file["start"].owner = l /\ file["start"].written
      /\ UNCHANGED <<file, socket, served>>
  BY Names, Shapes, HolderAlone DEF Spawn, In, Holding
<1>2. (\A c \in Daemon : ~Alive(c)) /\ ~Newer(served, Build[l])
  BY <1>1 DEF Calm, LauncherCalm
<1>3. ~DaemonStarting
  <2>1. Owner("daemon") \in Daemon \cup {None}
    BY Shapes DEF Owner
  <2> QED BY <1>2, <2>1 DEF DaemonStarting, DaemonLockHeld
<1>4. PICK d \in Daemon :
        /\ Fresh(d)
        /\ st' = [st EXCEPT ![l] = "spawned", ![d] = "booting"]
        /\ acq' = [acq EXCEPT ![d] = [NoAcq EXCEPT !.step = "create"]]
        /\ child' = [child EXCEPT ![l] = d]
        /\ build' = [build EXCEPT ![d] = Build[l]]
        /\ token' = [token EXCEPT ![d] = l]
  BY <1>3 DEF Spawn
<1>5. d \in Proc /\ d # l /\ d # None /\ l # None
  BY Names
<1>6. /\ st'[l] = "spawned" /\ st'[d] = "booting" /\ \A q \in Proc : q # l /\ q # d => st'[q] = st[q]
  BY <1>1, <1>4, <1>5 DEF Types
<1>7. /\ acq'[d].step = "create" /\ acq'[d].attempt = 1 /\ \A q \in Proc : q # d => acq'[q] = acq[q]
  BY <1>4, <1>5 DEF Types, NoAcq
<1>8. child'[l] = d /\ build'[d] = Build[l] /\ token'[d] = l
  BY <1>4 DEF Types
<1>9. LaunchersStay(l) /\ st'[l] \in Holding /\ acq'[l] = acq[l] /\ st[l] \in Holding
  BY <1>1, <1>5, <1>6, <1>7, Names DEF LaunchersStay, Holding
<1>10. StartHeld'
  BY <1>1, <1>6, <1>9, StartKept DEF At
<1>11. \A c \in Daemon : c # d => st[c] = "off" /\ st'[c] = "off"
  BY <1>2, <1>5, <1>6, Names DEF Alive
<1>12. LauncherCalm(l)'
  BY <1>6, <1>8 DEF LauncherCalm, Early
<1>13. ASSUME NEW m \in Launcher, m # l PROVE LauncherCalm(m)'
  <2>1. st'[m] \notin Holding
    BY <1>1, <1>9, <1>13, HolderAlone DEF LaunchersStay
  <2> QED BY <2>1 DEF LauncherCalm, Holding
<1>14. DaemonCalm(d)'
  <2>1. Fresh(d) /\ file["daemon"].owner # d /\ socket # d
    BY <1>4 DEF Fresh, Lock
  <2>2. file["daemon"] = Absent \/ Dead'
    <3>1. file["daemon"].owner \in Daemon \cup {None}
      BY Shapes
    <3>2. CASE file["daemon"].owner = None
      BY <3>2 DEF Calm
    <3>3. CASE file["daemon"].owner \in Daemon
      BY <1>1, <1>11, <2>1, <3>3, Names DEF Calm, DaemonCalm, Dead, Alive
    <3> QED BY <3>1, <3>2, <3>3
  <2>3. Taking(d)'
    BY <1>1, <1>7, <2>2 DEF Taking, At
  <2> QED BY <1>1, <1>2, <1>6, <1>8, <2>1, <2>3 DEF DaemonCalm, Early, Bound, Leaving, Closing
<1>15. ASSUME NEW c \in Daemon, c # d PROVE DaemonCalm(c)'
  BY <1>1, <1>11, <1>15 DEF Calm, DaemonCalm, Early, Bound, Leaving, Closing
<1>16. OneLives' /\ Succeeded'
  BY <1>6, <1>11 DEF OneLives, Succeeded, Alive
<1> QED BY <1>1, <1>10, <1>12, <1>13, <1>14, <1>15, <1>16 DEF Calm

LEMMA AwaitDaemonCalm ==
  ASSUME Types, Calm, NEW l \in Launcher, AwaitDaemon(l), faults'.major = 0
  PROVE  Calm'
<1>1. st[l] = "spawned"
  BY DEF AwaitDaemon, In, Calm, StartHeld
<1>2. PICK d : d = child[l] /\ d \in Daemon /\ st[d] \in Early \cup Bound
  BY <1>1 DEF Calm, LauncherCalm
<1>3. /\ Reachable /\ Finish(l) /\ UNCHANGED <<socket, build, served>> /\ l \in Proc
      /\ file["start"].owner = l /\ file["start"].written
  <2>1. Abandoned(l) => ~Reachable /\ st[d] \in Bound
    BY <1>2, NoFault DEF Abandoned
  <2>2. st[d] \in Bound => Reachable
    BY <1>2, BoundReachable
  <2> QED BY <1>1, <2>1, <2>2, Names, HolderAlone DEF AwaitDaemon, In, Holding
<1>4. st[d] \in Bound /\ \A c \in Daemon : Alive(c) => c = d
  <2>1. socket \in Daemon /\ Alive(socket)
    BY <1>3 DEF Types, Reachable
  <2> QED BY <1>2, <2>1 DEF Calm, OneLives, DaemonCalm, Alive, Early, Bound
<1>5. /\ file'["start"] = Absent /\ UNCHANGED file["daemon"]
  BY <1>3, Releases DEF Finish, Lock
<1>6. st'[l] = "off" /\ acq'[l].step = "none" /\ OnlyMoves(l) /\ \A c \in Daemon : c # l /\ c \in Proc
  BY <1>3, Plain, Names DEF Finish, Goto, OnlyMoves, Types
<1>7. StartHeld'
  BY <1>3, <1>5, <1>6, StartStaysHeld DEF Holding, At
<1>8. ASSUME NEW m \in Launcher PROVE LauncherCalm(m)'
  <2>1. st'[m] \notin Holding
    BY <1>1, <1>6, HolderAlone, Names DEF OnlyMoves, Holding
  <2> QED BY <2>1 DEF LauncherCalm, Holding
<1>9. ASSUME NEW c \in Daemon PROVE DaemonCalm(c)'
  <2>1. st'[c] = st[c] /\ st[c] \in Bound \cup {"off"}
    BY <1>4, <1>6 DEF OnlyMoves, Alive
  <2> QED BY <1>3, <1>5, <1>6, <2>1 DEF Calm, DaemonCalm, Owns, Early, Bound, Leaving, Closing
<1>10. OneLives' /\ Succeeded'
  BY <1>2, <1>4, <1>6 DEF Calm, OneLives, Succeeded, Alive, OnlyMoves, Bound
<1> QED BY <1>3, <1>5, <1>7, <1>8, <1>9, <1>10 DEF Calm

LEMMA KillChildNever ==
  ASSUME Types, Calm, NEW l \in Launcher, KillChild(l), faults'.major = 0
  PROVE  FALSE
<1>1. st[l] = "spawned" /\ ~Reachable /\ st[child[l]] \notin Early
  BY NoFault DEF KillChild, In, Abandoned
<1>2. child[l] \in Daemon /\ st[child[l]] \in Bound
  BY <1>1 DEF Calm, LauncherCalm
<1> QED BY <1>1, <1>2, BoundReachable

LEMMA LauncherStepCalm ==
  ASSUME Types, Calm, NEW l \in Launcher, Launch(l) \/ LauncherStep(l), faults'.major = 0
  PROVE  Calm'
BY LaunchCalm, TakesStart, AwaitOtherCalm, LockedProbeCalm, PlanCalm, AskCalm, SignalCalm, AwaitDrainedCalm, SpawnCalm,
   AwaitDaemonCalm, KillChildNever DEF LauncherStep

(* The one daemon that lives goes on *)
LEMMA DaemonAlone ==
  ASSUME Types, Calm, NEW d \in Daemon, st[d] # "off", st'[d] # "off", OnlyMoves(d),
         UNCHANGED <<build, child>>, UNCHANGED file["start"],
         served' = served \/ served' = build[d],
         file'["daemon"].owner = d \/ file'["daemon"] \in {file["daemon"], Absent},
         st[d] \in Early => st'[d] \in Early \cup Bound,
         st[d] \in Bound => st'[d] \in Bound,
         st[d] \in {"listening", "serving"} => st'[d] \in {"listening", "serving"},
         st[d] \in Leaving => st'[d] \in Leaving,
         file'["daemon"].owner = None => file'["daemon"] = Absent,
         DaemonCalm(d)'
  PROVE  Calm'
<1>1. /\ \A c \in Daemon : c \in Proc /\ c # None /\ (c # d => st'[c] = st[c] /\ acq'[c] = acq[c])
      /\ \A m \in Launcher : m \in Proc /\ m # d /\ st'[m] = st[m] /\ acq'[m] = acq[m]
  BY Names DEF OnlyMoves
<1>2. \A c \in Daemon : c # d => st[c] = "off" /\ st'[c] = "off"
  BY <1>1 DEF Calm, OneLives, Alive
<1>3. StartHeld'
  BY <1>1 DEF Calm, StartHeld, At
<1>4. OneLives' /\ Succeeded'
  BY <1>2 DEF OneLives, Succeeded, Alive
<1>5. ASSUME NEW c \in Daemon, c # d PROVE DaemonCalm(c)'
  <2>1. st[c] = "off" /\ st'[c] = "off" /\ c # None /\ (file["daemon"].owner # c \/ file["daemon"].written)
    BY <1>1, <1>2, <1>5 DEF Calm, DaemonCalm
  <2>2. file'["daemon"].owner # c \/ file'["daemon"].written
    BY <1>5, <2>1 DEF Absent
  <2> QED BY <2>1, <2>2 DEF DaemonCalm, Early, Bound, Leaving, Closing
<1>6. ASSUME NEW m \in Launcher PROVE LauncherCalm(m)'
  <2>1. LauncherCalm(m) /\ st'[m] = st[m]
    BY <1>1 DEF Calm
  <2>2. st[m] # "free"
    BY <2>1 DEF LauncherCalm, Alive
  <2>3. CASE st[m] \in {"planning", "asking", "signalling"}
    BY <1>2, <2>1, <2>3 DEF LauncherCalm, Bound
  <2>4. CASE st[m] = "spawned"
    BY <1>2, <2>1, <2>4 DEF LauncherCalm, Early, Bound
  <2>5. CASE st[m] = "draining"
    <3>1. /\ child[m] = d /\ st[d] \in {"listening", "serving"} \cup Leaving
          /\ Newer(Build[m], build[d]) /\ ~Newer(served, Build[m])
      BY <2>1, <2>5 DEF LauncherCalm, Alive
    <3>2. ~Newer(build[d], Build[m])
      BY <3>1, NewerOrder, BuildAssumption DEF Types
    <3>3. st'[d] \in {"listening", "serving"} \cup Leaving
      BY <3>1
    <3>4. (\A c \in Daemon : Alive(c) => c = child[m])'
      BY <1>2, <3>1 DEF Alive
    <3> QED BY <2>1, <2>5, <3>1, <3>2, <3>3, <3>4 DEF LauncherCalm
  <2> QED BY <2>1, <2>2, <2>3, <2>4, <2>5 DEF LauncherCalm
<1> QED BY <1>3, <1>4, <1>5, <1>6 DEF Calm

LEMMA TakesDaemonLock ==
  ASSUME Types, Calm, NEW d \in Daemon, Acquire(d), st[d] = "booting"
  PROVE  Calm'
<1>1. /\ d \in Proc /\ d # None /\ LockOf(d) = "daemon" /\ UNCHANGED AcqVars
  BY Names DEF LockOf, Acquire, Create, Write, Judge, ProbeOwner, Recheck, Unlink
<1>2. /\ st \in [Proc -> DaemonPhase \cup LauncherPhase] /\ acq \in [Proc -> Acquisition]
      /\ file \in [Lock -> LockFile] /\ Lock = {"start", "daemon"}
  BY DEF Types, LockFiles, Lock
<1>3. DaemonCalm(d) /\ Taking(d) /\ \A c \in Daemon : Alive(c) => c = d
  BY DEF Calm, DaemonCalm, OneLives, Alive
<1>4. ASSUME OnlyMoves(d), UNCHANGED file["start"], st'[d] \in {"booting", "locked"},
             file'["daemon"].owner = d \/ file'["daemon"] \in {file["daemon"], Absent},
             st'[d] = "booting" => Taking(d)', st'[d] = "locked" => Owns(d)'
      PROVE  Calm'
  <2>1. token[d] \in Launcher /\ token[d] # d /\ token[d] \in Proc /\ st'[token[d]] = st[token[d]]
    BY <1>3, <1>4, Names DEF DaemonCalm, OnlyMoves, Early
  <2>2. DaemonCalm(d)'
    BY <1>1, <1>3, <1>4, <2>1 DEF DaemonCalm, AcqVars, Early, Bound, Leaving, Closing
  <2>3. file'["daemon"].owner = None => file'["daemon"] = Absent
    BY <1>1, <1>4 DEF Calm
  <2> QED BY <1>1, <1>4, <2>2, <2>3, DaemonAlone DEF AcqVars, Early, Bound, Leaving, Closing
<1>5. CASE Create(d)
  <2>1. CASE file["daemon"] = Absent
    <3>1. /\ file'["daemon"].owner = d /\ UNCHANGED file["start"]
      <4>1. file' = [file EXCEPT !["daemon"] = [file["daemon"] EXCEPT !.owner = d]]
        BY <1>1, <1>5, <2>1 DEF Create
      <4>2. file["daemon"] \in LockFile /\ [file["daemon"] EXCEPT !.owner = d].owner = d
        BY Shapes DEF LockFile
      <4> QED BY <1>2, <4>1, <4>2
    <3>2. acq'[d].step = "write" /\ st'[d] = st[d] /\ OnlyMoves(d)
      BY <1>1, <1>2, <1>5, <2>1 DEF Create, Step, OnlyMoves, Acquisition
    <3> QED BY <1>4, <3>1, <3>2 DEF Taking, At
  <2>2. CASE file["daemon"] # Absent
    <3>1. acq'[d].step = "judge" /\ acq'[d].attempt = acq[d].attempt /\ UNCHANGED st /\ OnlyMoves(d) /\ UNCHANGED file
      BY <1>1, <1>2, <1>5, <2>2 DEF Create, Step, OnlyMoves, Acquisition
    <3>2. Dead /\ acq[d].attempt = 1
      BY <1>3, <1>5, <2>2 DEF Create, Taking, At
    <3> QED BY <1>4, <3>1, <3>2 DEF Taking, At, Dead, Alive
  <2> QED BY <2>1, <2>2
<1>6. CASE Write(d)
  <2>1. file["daemon"].owner = d
    BY <1>3, <1>6 DEF Write, Taking, At
  <2>2. /\ file'["daemon"].owner = d /\ file'["daemon"].written /\ UNCHANGED file["start"]
    BY <1>1, <1>2, <1>6, <2>1 DEF Write, LockFile
  <2>3. st'[d] = "locked" /\ OnlyMoves(d)
    BY <1>1, <1>2, <1>6 DEF Write, Acquired, Goto, AfterAcquired, OnlyMoves
  <2> QED BY <1>4, <2>2, <2>3 DEF Owns
<1>7. CASE Judge(d)
  <2>1. Dead /\ acq[d].attempt = 1
    BY <1>3, <1>7 DEF Judge, Taking, At
  <2>2. Owner("daemon") = file["daemon"].owner /\ Owner("daemon") # None /\ ~Alive(Owner("daemon"))
    BY <2>1 DEF Dead, Owner
  <2>3. Remember(d, "recheck") /\ UNCHANGED st /\ UNCHANGED file
    BY <1>1, <1>7, <2>2 DEF Judge
  <2>4. /\ acq'[d].step = "recheck" /\ acq'[d].attempt = 1 /\ acq'[d].judged = file["daemon"].owner /\ OnlyMoves(d)
    BY <1>1, <1>2, <2>1, <2>2, <2>3 DEF Remember, OnlyMoves, Acquisition
  <2> QED BY <1>4, <2>1, <2>3, <2>4 DEF Taking, At, Dead, Alive
<1>8. CASE Recheck(d)
  <2>1. Dead /\ acq[d].attempt = 1 /\ acq[d].judged = file["daemon"].owner
    BY <1>3, <1>8 DEF Recheck, Taking, At
  <2>2. Step(d, "unlink") /\ UNCHANGED st /\ UNCHANGED file
    BY <1>1, <1>8, <2>1 DEF Recheck, Dead, Owner
  <2>3. /\ acq'[d].step = "unlink" /\ acq'[d].attempt = 1 /\ OnlyMoves(d)
    BY <1>1, <1>2, <2>1, <2>2 DEF Step, OnlyMoves, Acquisition
  <2> QED BY <1>4, <2>1, <2>2, <2>3 DEF Taking, At, Dead, Alive
<1>9. CASE Unlink(d)
  <2>1. acq[d].attempt = 1
    BY <1>3, <1>9 DEF Unlink, Taking, At
  <2>2. /\ file'["daemon"] = Absent /\ UNCHANGED file["start"] /\ UNCHANGED st
        /\ acq'[d].step = "create" /\ OnlyMoves(d)
    <3>1. /\ file' = [file EXCEPT !["daemon"] = Absent] /\ UNCHANGED st
          /\ acq' = [acq EXCEPT ![d] = [NoAcq EXCEPT !.step = "create", !.attempt = 2]]
      BY <1>1, <1>9, <2>1 DEF Unlink
    <3>2. [NoAcq EXCEPT !.step = "create", !.attempt = 2].step = "create"
      BY DEF NoAcq
    <3> QED BY <1>1, <1>2, <3>1, <3>2 DEF OnlyMoves
  <2> QED BY <1>4, <2>2 DEF Taking, At
<1>10. ~ProbeOwner(d)
  BY <1>3 DEF ProbeOwner, Taking, At
<1> QED BY <1>5, <1>6, <1>7, <1>8, <1>9, <1>10 DEF Acquire

(* The start lock is its launcher's, and counts as its own *)
LEMMA TakesOver ==
  ASSUME Types, Calm, NEW d \in Daemon, Acquire(d), st[d] = "bridging"
  PROVE  Calm'
<1>1. /\ d \in Proc /\ d # None /\ LockOf(d) = "start" /\ UNCHANGED AcqVars
  BY Names DEF LockOf, Acquire, Create, Write, Judge, ProbeOwner, Recheck, Unlink
<1>2. /\ st \in [Proc -> DaemonPhase \cup LauncherPhase] /\ acq \in [Proc -> Acquisition]
  BY DEF Types
<1>3. /\ DaemonCalm(d) /\ acq[d].step \in {"create", "judge"} /\ Owns(d)
      /\ token[d] \in Launcher /\ st[token[d]] = "spawned"
  BY DEF Calm, DaemonCalm, Early
<1>4. /\ file["start"].owner = token[d] /\ file["start"].written /\ ~Stale("start")
      /\ token[d] # None /\ token[d] # d /\ token[d] \in Proc
  BY <1>3, HolderAlone, StartNotStale, Names DEF Holding
<1>5. ASSUME OnlyMoves(d), UNCHANGED file, st'[d] \in {"bridging", "bridged"},
             st'[d] = "bridging" => acq'[d].step = "judge"
      PROVE  Calm'
  <2>1. st'[token[d]] = st[token[d]]
    BY <1>4, <1>5 DEF OnlyMoves
  <2>2. DaemonCalm(d)'
    BY <1>1, <1>3, <1>5, <2>1 DEF DaemonCalm, AcqVars, Owns, Early, Bound, Leaving, Closing
  <2>3. file["daemon"].owner = None => file["daemon"] = Absent
    BY DEF Calm
  <2> QED BY <1>1, <1>5, <2>2, <2>3, DaemonAlone DEF AcqVars, Early, Bound, Leaving, Closing
<1>6. CASE Create(d)
  <2>1. file["start"] # Absent
    BY <1>4 DEF Absent
  <2>2. UNCHANGED <<st, file>> /\ acq'[d].step = "judge" /\ OnlyMoves(d)
    BY <1>1, <1>2, <1>6, <2>1 DEF Create, Step, OnlyMoves, Acquisition
  <2> QED BY <1>5, <2>2
<1>7. CASE Judge(d)
  <2>1. Refused(d) /\ UNCHANGED file
    BY <1>1, <1>4, <1>7 DEF Judge
  <2>2. AfterRefused(d) = "bridged"
    BY <1>4 DEF AfterRefused, Inherits, Owner
  <2>3. st'[d] = "bridged" /\ OnlyMoves(d)
    BY <1>1, <1>2, <2>1, <2>2 DEF Refused, Goto, OnlyMoves
  <2> QED BY <1>5, <2>1, <2>3
<1> QED BY <1>3, <1>6, <1>7 DEF Acquire, Write, ProbeOwner, Recheck, Unlink, At

(* A daemon before and after it serves *)
LEMMA DaemonGoes ==
  ASSUME Types, Calm, NEW d \in Daemon, NEW x \in DaemonPhase \ {"off", "exiting"}, Goto(d, x),
         UNCHANGED <<file, build, child>>,
         IF x = "bridging" THEN acq' = [acq EXCEPT ![d] = [NoAcq EXCEPT !.step = "create"]] ELSE acq' = acq,
         <<st[d], x>> \in {<<"locked", "bridging">>, <<"bridged", "unbound">>, <<"unbound", "bound">>,
                           <<"bound", "listening">>, <<"listening", "serving">>, <<"stopping", "closing">>,
                           <<"closing", "unlinked">>, <<"unlinked", "closed">>},
         x \in Early => token' = token /\ socket' = socket,
         x = "bound" => socket' = d,
         x \in {"listening", "serving", "closing"} => socket' = socket,
         IF x = "serving" THEN served' = build[d] ELSE served' = served
  PROVE  Calm'
<1>1. /\ d \in Proc /\ d # None /\ st'[d] = x /\ OnlyMoves(d) /\ (x = "bridging" => acq'[d].step = "create")
  BY Names DEF Types, Goto, OnlyMoves, NoAcq
<1>2. DaemonCalm(d) /\ Owns(d) /\ (file["daemon"].owner = None => file["daemon"] = Absent)
  BY DEF Calm, DaemonCalm
<1>3. DaemonCalm(d)'
  <2>1. ASSUME st[d] \in Early
        PROVE  token[d] \in Launcher /\ st'[token[d]] = st[token[d]]
    BY <1>1, <1>2, <2>1, Names DEF DaemonCalm, OnlyMoves
  <2>2. ASSUME st[d] \in Leaving
        PROVE  \E l \in Launcher : st'[l] = "draining" /\ child'[l] = d
    <3>1. PICK l \in Launcher : st[l] = "draining" /\ child[l] = d
      BY <1>2, <2>2 DEF DaemonCalm
    <3> QED BY <1>1, <3>1, Names DEF OnlyMoves
  <2> QED BY <1>1, <1>2, <2>1, <2>2 DEF DaemonCalm, Owns, Early, Bound, Leaving, Closing
<1> QED BY <1>1, <1>2, <1>3, DaemonAlone DEF Early, Bound, Leaving, Closing

LEMMA ReleaseLockCalm ==
  ASSUME Types, Calm, NEW d \in Daemon, ReleaseLock(d)
  PROVE  Calm'
<1>1. /\ st[d] = "closed" /\ d \in Proc /\ d # None /\ Owns(d) /\ UNCHANGED <<socket, build, child, served>>
  BY Names DEF ReleaseLock, In, Calm, DaemonCalm
<1>2. PICK l \in Launcher : st[l] = "draining" /\ child[l] = d
  BY <1>1 DEF Calm, DaemonCalm, Leaving
<1>3. /\ \A c \in Daemon : c # d => st[c] = "off"
      /\ \A m \in Launcher : m # l => st[m] \notin Holding
  BY <1>1, <1>2, HolderAlone DEF Calm, OneLives, Alive, Holding
<1>4. /\ file'["daemon"] = Absent /\ UNCHANGED file["start"]
  BY <1>1, Releases DEF ReleaseLock, Exit, Lock, Owns
<1>5. /\ st'[d] = "off" /\ acq'[d].step = "none" /\ OnlyMoves(d)
  BY <1>1, Plain DEF ReleaseLock, Exit, Goto, OnlyMoves, Types
<1>6. \A m \in Launcher : st'[m] = st[m] /\ acq'[m] = acq[m]
  BY <1>5, Names DEF OnlyMoves
<1>7. \A c \in Daemon : st'[c] = "off" /\ c # None
  BY <1>3, <1>5, Names DEF OnlyMoves
<1>8. StartHeld'
  BY <1>4, <1>6 DEF Calm, StartHeld, At
<1>9. OneLives' /\ Succeeded'
  BY <1>2, <1>6, <1>7 DEF OneLives, Succeeded, Alive
<1>10. ASSUME NEW c \in Daemon PROVE DaemonCalm(c)'
  BY <1>4, <1>7 DEF DaemonCalm, Absent, Early, Bound, Leaving, Closing
<1>11. ASSUME NEW m \in Launcher PROVE LauncherCalm(m)'
  <2>1. CASE m # l
    BY <1>3, <1>6, <2>1 DEF LauncherCalm, Holding
  <2>2. CASE m = l
    BY <1>1, <1>2, <1>6, <1>7, <2>2 DEF Calm, LauncherCalm, Alive
  <2> QED BY <2>1, <2>2
<1> QED BY <1>4, <1>8, <1>9, <1>10, <1>11 DEF Calm

LEMMA DaemonStepCalm ==
  ASSUME Types, Calm, NEW d \in Daemon, DaemonStep(d) \/ Serve(d) \/ StopIdle(d), faults'.major = 0
  PROVE  Calm'
<1>1. DaemonCalm(d) /\ d # None
  BY Names DEF Calm
<1>2. Owns(d) => Owner("daemon") = d
  BY DEF Owns, Owner
<1>3. st[d] \in Early => ~Reachable
  BY <1>1 DEF Calm, OneLives, DaemonCalm, Reachable, Alive, Types, Early
<1>4. CASE Acquire(d)
  <2>1. ~At(d, "none")
    BY <1>4 DEF Acquire, Create, Write, Judge, ProbeOwner, Recheck, Unlink, At
  <2> QED BY <1>4, <2>1, Shapes, TakesDaemonLock, TakesOver
<1>5. ~GiveUp(d) /\ ~LoseLock(d) /\ ~StopIdle(d)
  BY <1>1, <1>2, NoFault DEF GiveUp, LoseLock, StopIdle, In, DaemonCalm
<1>6. CASE CheckSocket(d)
  <2>1. Goto(d, "bridging") /\ acq' = [acq EXCEPT ![d] = [NoAcq EXCEPT !.step = "create"]]
        /\ st[d] = "locked" /\ UNCHANGED <<file, socket, build, token, child, served>>
    BY <1>3, <1>6 DEF CheckSocket, In, Early, Acquiring, Answered
  <2>2. "bridging" \in DaemonPhase \ {"off", "exiting"}
    BY DEF DaemonPhase
  <2> QED BY <2>1, <2>2, DaemonGoes
<1>7. CASE ProbeSocket(d)
  <2>1. Goto(d, "unbound") /\ st[d] = "bridged" /\ UNCHANGED <<file, socket, acq, build, token, child, served>>
    BY <1>3, <1>7 DEF ProbeSocket, In, Early, Answered
  <2>2. "unbound" \in DaemonPhase \ {"off", "exiting"}
    BY DEF DaemonPhase
  <2> QED BY <2>1, <2>2, DaemonGoes
<1>8. CASE Bind(d)
  <2>1. file["start"].owner # d
    BY Names DEF Calm, StartHeld, Absent
  <2>2. Goto(d, "bound") /\ st[d] = "unbound" /\ socket' = d /\ UNCHANGED <<file, acq, build, child, served>>
    BY <1>8, <2>1 DEF Bind, In, Without
  <2>3. "bound" \in DaemonPhase \ {"off", "exiting"} /\ "bound" \notin Early
    BY DEF DaemonPhase, Early
  <2> QED BY <2>2, <2>3, DaemonGoes
<1>9. CASE Listen(d)
  <2>1. Owner("daemon") = d
    BY <1>1, <1>2, <1>9 DEF Listen, In, DaemonCalm
  <2>2. Goto(d, "listening") /\ st[d] = "bound" /\ UNCHANGED <<file, socket, acq, build, token, child, served>>
    BY <1>9, <2>1 DEF Listen, In
  <2>3. "listening" \in DaemonPhase \ {"off", "exiting"}
    BY DEF DaemonPhase
  <2> QED BY <2>2, <2>3, DaemonGoes
<1>10. CASE Serve(d)
  <2>1. Goto(d, "serving") /\ st[d] = "listening" /\ served' = build[d]
        /\ UNCHANGED <<file, socket, acq, build, token, child>>
    BY <1>10 DEF Serve, In
  <2>2. "serving" \in DaemonPhase \ {"off", "exiting"}
    BY DEF DaemonPhase
  <2> QED BY <2>1, <2>2, DaemonGoes
<1>11. CASE CloseGuard(d)
  <2>1. st[d] = "stopping" /\ socket = d
    BY <1>1, <1>11 DEF CloseGuard, In, DaemonCalm
  <2>2. Goto(d, "closing") /\ UNCHANGED <<file, socket, acq, build, token, child, served>>
    BY <1>11, <2>1 DEF CloseGuard
  <2>3. "closing" \in DaemonPhase \ {"off", "exiting"} /\ "closing" \notin Early
    BY DEF DaemonPhase, Early
  <2> QED BY <2>1, <2>2, <2>3, DaemonGoes
<1>13. CASE RemovePath(d)
  <2>1. \/ st[d] = "closing" /\ Goto(d, "unlinked")
        \/ st[d] = "unlinked" /\ Goto(d, "closed")
    BY <1>13 DEF RemovePath, In, Closing
  <2>2. UNCHANGED <<file, acq, build, token, child, served>>
    BY <1>13 DEF RemovePath
  <2>3. {"unlinked", "closed"} \subseteq DaemonPhase \ {"off", "exiting"} /\ "unlinked" \notin Early /\ "closed" \notin Early
    BY DEF DaemonPhase, Early
  <2> QED BY <2>1, <2>2, <2>3, DaemonGoes
<1>12. CASE ReleaseLock(d)
  BY <1>12, ReleaseLockCalm
<1> QED BY <1>4, <1>5, <1>6, <1>7, <1>8, <1>9, <1>10, <1>11, <1>12, <1>13 DEF DaemonStep

(* A lock that grows old is one that is written, or the daemons' own *)
LEMMA AgeCalm ==
  ASSUME Types, Calm, NEW k \in Lock, Age(k), faults'.major = 0
  PROVE  Calm'
<1>1. /\ file[k] # Absent
      /\ file' = [file EXCEPT ![k] = [file[k] EXCEPT !.old = TRUE]]
      /\ UNCHANGED <<socket, st, acq, build, token, child, served>>
  BY DEF Age, procVars
<1>2. k = "daemon" \/ file[k].written
  <2>1. ASSUME k = "start", ~file[k].written
        PROVE  Alive(file[k].owner) /\ ~In(file[k].owner, "serving")
    <3>1. PICK l \in Launcher : l = file[k].owner /\ At(l, "write")
      BY <1>1, <2>1 DEF Calm, StartHeld
    <3>2. st[l] \in {"locking", "relocking"}
      BY <3>1, Shapes DEF At
    <3> QED BY <3>1, <3>2 DEF Alive, In
  <2>2. ~Fault("major")
    BY NoFault
  <2> QED BY <2>1, <2>2 DEF Lock, Age
<1>3. file["daemon"] \in LockFile /\ file["start"] \in LockFile /\ file \in [Lock -> LockFile] /\ Lock = {"start", "daemon"}
  BY Shapes DEF Types, LockFiles, Lock
<1>4. \A i \in Lock : /\ file'[i].owner = file[i].owner /\ file'[i].written = file[i].written
                      /\ file'[i].old => file[i].old \/ i = k
                      /\ i # k => file'[i] = file[i]
  <2>1. /\ [file[k] EXCEPT !.old = TRUE].owner = file[k].owner
        /\ [file[k] EXCEPT !.old = TRUE].written = file[k].written
    BY <1>3 DEF LockFile
  <2> QED BY <1>1, <1>3, <2>1
<1>5. "daemon" = k => file["daemon"].owner # None
  BY <1>1 DEF Calm
<1>6. OneLives' /\ Succeeded' /\ (file["daemon"].owner = None => file["daemon"] = Absent)'
  BY <1>1, <1>3, <1>4, <1>5 DEF Calm, OneLives, Succeeded, Alive
<1>7. StartHeld'
  <2>1. CASE k = "start"
    <3>1. file["start"].written /\ file["start"] # Absent
      BY <1>1, <1>2, <2>1
    <3> QED BY <1>1, <1>3, <1>4, <2>1, <3>1 DEF Calm, StartHeld, At
  <2>2. CASE k # "start"
    BY <1>1, <1>3, <1>4, <2>2 DEF Calm, StartHeld, At
  <2> QED BY <2>1, <2>2
<1>8. ASSUME NEW d \in Daemon PROVE DaemonCalm(d)'
  <2>1. Dead' <=> Dead
    BY <1>1, <1>3, <1>4 DEF Dead, Alive
  <2>2. file["daemon"] = Absent => file'["daemon"] = Absent
    BY <1>1, <1>3, <1>4
  <2>3. Taking(d) => Taking(d)'
    BY <1>1, <1>3, <1>4, <2>1, <2>2 DEF Taking, At
  <2> QED BY <1>1, <1>3, <1>4, <2>3 DEF Calm, DaemonCalm, Owns
<1>9. ASSUME NEW l \in Launcher PROVE LauncherCalm(l)'
  BY <1>1 DEF Calm, LauncherCalm, Alive
<1> QED BY <1>6, <1>7, <1>8, <1>9 DEF Calm

(* A launcher may die that has nothing yet *)
LEMMA KillCalm ==
  ASSUME Types, Calm, NEW p \in Proc, Kill(p), faults'.major = 0
  PROVE  Calm'
<1>1. Outside(p)
  BY NoFault DEF Kill
<1>2. st[p] \in {"locking", "waiting", "relocking"} /\ acq[p].step \in {"none", "create", "judge"}
  BY <1>1 DEF Outside
<1>3. p \notin Daemon /\ p \in Launcher
  BY <1>2, Shapes DEF PhaseOf, DaemonPhase, Proc
<1>4. /\ UNCHANGED <<file, socket, build, served>> /\ token' = token
      /\ st'[p] = "off" /\ acq'[p].step = "none" /\ OnlyMoves(p)
      /\ \A m \in Launcher : m # p => child'[m] = child[m]
  <2>1. \A d \in Daemon : d # p
    BY <1>3
  <2>2. token' = [d \in Daemon |-> token[d]]
    BY <2>1 DEF Kill
  <2> QED BY <2>2, Plain DEF Kill, Goto, OnlyMoves, Types
<1>5. StartHeld'
  BY <1>2, <1>3, <1>4, StartStaysHeld DEF Holding, At
<1>6. LauncherCalm(p)'
  BY <1>4 DEF LauncherCalm
<1> QED BY <1>2, <1>3, <1>4, <1>5, <1>6, LauncherAlone DEF Calm

LEMMA InitialCalm == Init => Calm
<1> SUFFICES ASSUME Init PROVE Calm
  OBVIOUS
<1>1. /\ file["start"] = Absent /\ file["daemon"] = Absent /\ Absent.owner = None
      /\ \A p \in Proc : st[p] = "off" /\ acq[p].step = "none"
      /\ served.release = 0
  BY DEF Init, Lock, Absent, NoAcq, Unknown
<1>2. StartHeld
  BY <1>1, Names DEF StartHeld, At, Holding
<1>3. OneLives /\ Succeeded
  BY <1>1, Names DEF OneLives, Succeeded, Alive
<1>4. ASSUME NEW d \in Daemon PROVE DaemonCalm(d)
  BY <1>1, Names DEF DaemonCalm, Early, Bound, Leaving, Closing
<1>5. ASSUME NEW l \in Launcher PROVE LauncherCalm(l)
  BY <1>1, Names DEF LauncherCalm
<1> QED BY <1>1, <1>2, <1>3, <1>4, <1>5 DEF Calm

LEMMA CalmKept == Types /\ Calm /\ [Next]_vars /\ faults'.major = 0 => Calm'
<1> SUFFICES ASSUME Types, Calm, [Next]_vars, faults'.major = 0 PROVE Calm'
  OBVIOUS
<1>1. CASE UNCHANGED vars
  BY <1>1 DEF vars, procVars, Calm, StartHeld, OneLives, DaemonCalm, LauncherCalm, Succeeded, Taking, Dead, Owns, Alive, At
<1> QED BY <1>1, LauncherStepCalm, DaemonStepCalm, AgeCalm, KillCalm DEF Next

(* Faults are never taken back *)
LEMMA FaultsStay == Types /\ [Next]_vars /\ faults'.major = 0 => faults.major = 0
<1> SUFFICES ASSUME Types, [Next]_vars, faults'.major = 0 PROVE faults.major = 0
  OBVIOUS
<1>1. UNCHANGED faults \/ Fault("minor") \/ Fault("major")
  BY DEF Next, vars, Launch, LauncherStep, DaemonStep, Acquire, Create, Write, Judge, ProbeOwner, Recheck,
     Unlink, AwaitOther, Ends, Answered, Unanswered, LockedProbe, Plan, Ask, Signal, AwaitDrained, Spawn, AwaitDaemon,
     Abandoned, KillChild, GiveUp, CheckSocket, ProbeSocket, Bind, Listen, Serve, LoseLock, CloseGuard, RemovePath,
     ReleaseLock, StopIdle, Age, Kill
<1>2. faults \in [minor: Nat, major: Nat]
  BY DEF Types, FaultCounts
<1>3. CASE Fault("minor")
  <2>1. faults' = [faults EXCEPT !["minor"] = faults["minor"] + 1]
    BY <1>3 DEF Fault
  <2> QED BY <1>2, <2>1
<1> QED BY <1>1, <1>3, NoFault

(* Short of a major fault, whatever else dies or takes how long, no daemon is followed *)
(* by an older one: whoever asks a daemon to stop keeps the start lock until its own   *)
(* build runs, or the old one runs on.                                                 *)
THEOREM BuildsOnlyRise == Spec => NeverDowngraded
<1> DEFINE IInv == Types /\ (faults.major = 0 => Calm)
<1>1. Init => IInv
  BY InitialTypes, InitialCalm
<1>2. IInv /\ [Next]_vars => IInv'
  BY TypesKept, CalmKept, FaultsStay
<1>3. ASSUME IInv, [Next]_vars, faults'.major = 0, served' # served
      PROVE  ~Newer(served, served')
  <2>1. Calm
    BY <1>3, FaultsStay
  <2>2. PICK d \in Daemon : Serve(d)
    BY <1>3 DEF Next, vars, Launch, LauncherStep, DaemonStep, Acquire, Create, Write, Judge, ProbeOwner, Recheck,
       Unlink, AcqVars, AwaitOther, LockedProbe, Plan, Ask, Signal, AwaitDrained, Spawn, AwaitDaemon, KillChild, GiveUp,
       CheckSocket, ProbeSocket, Bind, Listen, LoseLock, CloseGuard, RemovePath, ReleaseLock, StopIdle, Age, Kill
  <2> QED BY <2>1, <2>2 DEF Serve, In, Calm, DaemonCalm
<1>4. IInv /\ [Next]_vars => [faults'.major = 0 /\ served' # served => ~Newer(served, served')]_vars
  BY <1>3
<1> HIDE DEF IInv
<1> QED BY <1>1, <1>2, <1>4, PTL DEF Spec, NeverDowngraded
=============================================================================
