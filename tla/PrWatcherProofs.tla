--------------------------- MODULE PrWatcherProofs ---------------------------
(***************************************************************************)
(* Proofs about PrWatcher, for every set of processes, sessions and pull   *)
(* requests and every bound: the rows say what the machines say and what a *)
(* restart makes of them, and no change of a pull request is skipped.      *)
(***************************************************************************)
EXTENDS PrWatcher, FiniteSetTheorems, TLAPS

States == {"stopped", "warming_up", "polling", "idle_grace", "backing_off", "rate_limited", "terminal"}
Deadlines == {"none", "future", "past"}

Records == [state: States, count: Nat, idle: Deadlines, next: Deadlines, failures: Nat]

(* A machine as its events leave it: a deadline and failures where the state has them *)
Sound(w) ==
  /\ w \in Records /\ w.failures <= MaxFailures
  /\ w.state # "idle_grace" => w.idle = "none"
  /\ w.state \in {"idle_grace", "terminal"} => w.next = "none"
  /\ w.state = "terminal" => w.failures = 0
  /\ w.state = "backing_off" => w.failures > 0

SoundOrNone(w) == w = NoActor \/ Sound(w)

(* A row is what Row makes of a machine *)
Written(w) == SoundOrNone(w) /\ (w # NoActor => w.count = 0)

MachineTypes ==
  /\ up \subseteq Daemon /\ alone \in BOOLEAN
  /\ DOMAIN row = Pr /\ \A p \in Pr : Written(row[p])
  /\ DOMAIN actor = Daemon
  /\ \A d \in Daemon : DOMAIN actor[d] = Pr /\ \A p \in Pr : SoundOrNone(actor[d][p])

(* A machine has a row, and a process that does not run has no machine *)
ActorsHaveRows ==
  \A d \in Daemon, p \in Pr : actor[d][p] # NoActor => row[p] # NoActor /\ d \in up

(* While one process runs at a time, a row is what its machine was when it was written *)
RowsOfTheOne ==
  alone => /\ \A d, e \in up : d = e
           /\ \A d \in Daemon, p \in Pr : actor[d][p] # NoActor => row[p] = Row(actor[d][p])

(* What a tick works on has a row *)
Targets(t) == t.todo \subseteq Watched /\ (t.phase \in {"fetching", "answered"} => t.pr \in Watched)

MachineInv == MachineTypes /\ ActorsHaveRows /\ RowsOfTheOne

WatchInv == MachineInv /\ \A d \in Daemon : Targets(tick[d])

-----------------------------------------------------------------------------

Versions == Nat \cup {None}

Answers == [kind: {"none", "not_modified", "not_found", "failed"}]
           \cup {a \in [kind: {"ok"}, version: Nat, closed: BOOLEAN, etag: Versions] : a.etag \in {a.version, None}}

Ticks == [phase: {"idle", "fetch", "fetching", "answered"}, todo: SUBSET Pr, pr: Pr \cup {None},
          prev: Versions, tag: Versions, answer: Answers]

SkipTypes ==
  /\ snapshot \in [Pr -> Versions] /\ etag \in [Pr -> Versions] /\ base \in [Pr -> Versions]
  /\ events \in [Pr -> SUBSET Nat] /\ late \in [Pr -> SUBSET Nat]
  /\ remote \in [Pr -> [version: Nat, closed: BOOLEAN]]
  /\ tick \in [Daemon -> Ticks]

(* Every change between the version first stored and this one has its event, or is late *)
Seen(p, v) == v # None => base[p] # None /\ (base[p] + 1)..v \subseteq events[p] \cup late[p]

(* What a poll that is under way started from *)
UnderWay(t) == t.phase \in {"fetching", "answered"} => t.pr \in Pr /\ Seen(t.pr, t.prev)

SkipInv ==
  /\ SkipTypes
  /\ \A p \in Pr : Seen(p, snapshot[p]) /\ Seen(p, etag[p]) /\ (base[p] = None <=> snapshot[p] = None)
  /\ \A d \in Daemon : UnderWay(tick[d])

(* The tick of the one process: what it saw none of, nobody stored *)
Sole ==
  /\ \A d \in Daemon : tick[d].phase # "idle" => d \in up
  /\ alone => /\ \A d, e \in up : d = e
              /\ \A p \in Pr : late[p] = {}
              /\ \A d \in Daemon : tick[d].phase \in {"fetching", "answered"} /\ tick[d].prev = None
                                    => snapshot[tick[d].pr] = None

-----------------------------------------------------------------------------
(* No change is skipped                                                      *)

LEMMA InitSkip == Init => SkipInv
<1> SUFFICES ASSUME Init PROVE SkipInv
  OBVIOUS
<1> USE NoneAssumption DEF Init
<1>1. tick \in [Daemon -> Ticks] /\ \A d \in Daemon : tick[d].phase = "idle"
  BY DEF Ticks, Idle, Versions, Answers
<1>2. SkipTypes
  BY <1>1 DEF SkipTypes, Versions
<1> QED BY <1>1, <1>2 DEF SkipInv, Seen, UnderWay

LEMMA NextTargetIsATick ==
  ASSUME SkipInv, NEW d \in Daemon
  PROVE  /\ NextTarget(d) \in Ticks /\ NextTarget(d).phase \in {"idle", "fetch"}
         /\ Idle \in Ticks /\ Idle.phase = "idle"
BY NoneAssumption DEF SkipInv, SkipTypes, NextTarget, Idle, Ticks, Versions, Answers

(* A step of one tick that stores nothing *)
LEMMA SkipTick ==
  ASSUME SkipInv, NEW d \in Daemon, NEW t \in Ticks, UnderWay(t),
         tick' = [tick EXCEPT ![d] = t],
         UNCHANGED <<snapshot, etag, events, base, late, remote>>
  PROVE  SkipInv'
<1>1. \A e \in Daemon : tick'[e] = IF e = d THEN t ELSE tick[e]
  BY DEF SkipInv, SkipTypes
<1>2. SkipTypes'
  BY DEF SkipInv, SkipTypes
<1>3. \A p \in Pr : Seen(p, snapshot[p])' /\ Seen(p, etag[p])' /\ (base'[p] = None <=> snapshot'[p] = None)
  BY DEF SkipInv, Seen
<1>4. \A e \in Daemon : UnderWay(tick[e])'
  BY <1>1 DEF SkipInv, UnderWay, Seen
<1> QED BY <1>2, <1>3, <1>4 DEF SkipInv

LEMMA SkipIdle ==
  ASSUME SkipInv, UNCHANGED <<snapshot, etag, events, base, late, tick>>,
         remote' \in [Pr -> [version: Nat, closed: BOOLEAN]]
  PROVE  SkipInv'
BY DEF SkipInv, SkipTypes, Seen, UnderWay

(* The answer is stored: the events between the snapshot the poll started from and   *)
(* the version it was given are added, whatever another process stored since, and    *)
(* without such a snapshot what is between the two versions is late.                 *)
LEMMA SkipSave ==
  ASSUME SkipInv, NEW d \in Daemon, NEW p \in Pr, Applying(d, "ok"), tick[d].pr = p,
         SaveSnapshot(d, p), SaveEtag(d, p) \/ etag' = etag,
         NEW t \in Ticks, t.phase \in {"idle", "fetch"}, tick' = [tick EXCEPT ![d] = t],
         remote' = remote
  PROVE  SkipInv'
<1> DEFINE v == tick[d].answer.version
           prev == tick[d].prev
           added == IF prev = None THEN {} ELSE (prev + 1)..v
           gap == IF prev = None /\ snapshot[p] # None THEN (snapshot[p] + 1)..v ELSE {}
           first == IF base[p] = None THEN v ELSE base[p]
<1>1. tick[d] \in Ticks /\ tick[d].answer.kind = "ok" /\ tick[d].phase = "answered"
  BY DEF SkipInv, SkipTypes, Applying
<1>2. v \in Nat /\ tick[d].answer.etag \in {v, None} /\ prev \in Versions
  BY <1>1 DEF Ticks, Answers
<1>3. Seen(p, prev) /\ Seen(p, snapshot[p]) /\ (base[p] = None <=> snapshot[p] = None)
  BY <1>1 DEF SkipInv, UnderWay
<1>4. /\ snapshot' = [snapshot EXCEPT ![p] = v]
      /\ events' = [events EXCEPT ![p] = @ \cup added]
      /\ base' = [base EXCEPT ![p] = first]
      /\ late' = [late EXCEPT ![p] = @ \cup gap]
  BY DEF SaveSnapshot
<1>5. etag' = etag \/ etag' = [etag EXCEPT ![p] = tick[d].answer.etag]
  BY DEF SaveEtag
<1>6. /\ first \in Nat /\ base[p] \in Versions /\ snapshot[p] \in Versions
      /\ added \subseteq Nat /\ gap \subseteq Nat
  BY <1>2 DEF Versions, SkipInv, SkipTypes
<1>7. (base[p] # None => first = base[p]) /\ (first + 1)..v \subseteq events[p] \cup late[p] \cup added \cup gap
  <2>1. CASE base[p] = None
    <3>1. first = v
      BY <2>1
    <3> HIDE DEF first, v
    <3> QED BY <1>2, <2>1, <3>1
  <2>2. CASE base[p] # None /\ prev = None
    <3>1. /\ snapshot[p] # None /\ (base[p] + 1)..snapshot[p] \subseteq events[p] \cup late[p]
          /\ first = base[p] /\ gap = (snapshot[p] + 1)..v
      BY <1>3, <2>2 DEF Seen
    <3>2. base[p] \in Nat /\ snapshot[p] \in Nat
      BY <1>6, <2>2, <3>1 DEF Versions
    <3> HIDE DEF gap, first, v
    <3>3. \A n \in (base[p] + 1)..v : n \in (base[p] + 1)..snapshot[p] \/ n \in (snapshot[p] + 1)..v
      BY <1>2, <3>2
    <3> QED BY <3>1, <3>3
  <2>3. CASE base[p] # None /\ prev # None
    <3>1. (base[p] + 1)..prev \subseteq events[p] \cup late[p] /\ first = base[p] /\ added = (prev + 1)..v
      BY <1>3, <2>3 DEF Seen
    <3>2. base[p] \in Nat /\ prev \in Nat
      BY <1>2, <1>6, <2>3 DEF Versions
    <3> HIDE DEF added, first, v, prev
    <3>3. \A n \in (base[p] + 1)..v : n \in (base[p] + 1)..prev \/ n \in (prev + 1)..v
      BY <1>2, <3>2
    <3> QED BY <3>1, <3>3
  <2> QED BY <2>1, <2>2, <2>3
<1> HIDE DEF v, prev, added, gap, first
<1>8. SkipTypes'
  <2>1. /\ snapshot' \in [Pr -> Versions] /\ base' \in [Pr -> Versions]
        /\ events' \in [Pr -> SUBSET Nat] /\ late' \in [Pr -> SUBSET Nat]
    BY <1>2, <1>4, <1>6 DEF SkipInv, SkipTypes, Versions
  <2>2. etag' \in [Pr -> Versions]
    BY <1>2, <1>5 DEF SkipInv, SkipTypes, Versions
  <2> QED BY <2>1, <2>2 DEF SkipInv, SkipTypes
<1>9. /\ base'[p] = first /\ snapshot'[p] = v
      /\ events'[p] = events[p] \cup added /\ late'[p] = late[p] \cup gap
      /\ \A q \in Pr : q # p => /\ base'[q] = base[q] /\ snapshot'[q] = snapshot[q]
                               /\ events'[q] = events[q] /\ late'[q] = late[q]
      /\ \A q \in Pr : etag'[q] = etag[q] \/ (q = p /\ etag'[q] \in {v, None})
  BY <1>2, <1>4, <1>5 DEF SkipInv, SkipTypes
<1>10. ASSUME NEW q \in Pr, NEW w, Seen(q, w)
       PROVE  w # None => base'[q] # None /\ (base'[q] + 1)..w \subseteq events'[q] \cup late'[q]
  <2>1. CASE q # p
    BY <1>9, <1>10, <2>1 DEF Seen
  <2>2. CASE q = p
    BY <1>7, <1>9, <1>10, <2>2 DEF Seen
  <2> QED BY <2>1, <2>2
<1>11. /\ (base'[p] + 1)..v \subseteq events'[p] \cup late'[p] /\ base'[p] # None /\ snapshot'[p] # None
       /\ \A q \in Pr : base'[q] = None <=> snapshot'[q] = None
  <2>1. first # None /\ v # None
    BY <1>2, <1>6, NoneAssumption
  <2> QED BY <1>7, <1>9, <2>1 DEF SkipInv
<1>12. \A q \in Pr : Seen(q, snapshot[q])' /\ Seen(q, etag[q])'
  <2> SUFFICES ASSUME NEW q \in Pr PROVE Seen(q, snapshot[q])' /\ Seen(q, etag[q])'
    OBVIOUS
  <2>1. Seen(q, snapshot[q]) /\ Seen(q, etag[q])
    BY DEF SkipInv
  <2>2. Seen(q, snapshot[q])'
    BY <1>9, <1>10, <1>11, <2>1 DEF Seen
  <2>3. Seen(q, etag[q])'
    BY <1>9, <1>10, <1>11, <2>1 DEF Seen
  <2> QED BY <2>2, <2>3
<1>13. \A e \in Daemon : UnderWay(tick[e])'
  <2> SUFFICES ASSUME NEW e \in Daemon PROVE UnderWay(tick[e])'
    OBVIOUS
  <2>1. tick'[e] = IF e = d THEN t ELSE tick[e]
    BY DEF SkipInv, SkipTypes
  <2>2. CASE e = d
    BY <2>1, <2>2 DEF UnderWay
  <2>3. CASE e # d
    <3>1. tick'[e] = tick[e] /\ UnderWay(tick[e])
      BY <2>1, <2>3 DEF SkipInv
    <3> QED BY <1>10, <3>1 DEF UnderWay, Seen
  <2> QED BY <2>2, <2>3
<1> QED BY <1>8, <1>11, <1>12, <1>13 DEF SkipInv

(* A tick goes on to its next target, or ends *)
LEMMA SkipNext ==
  ASSUME SkipInv, NEW d \in Daemon, Abort(d) \/ Continue(d),
         UNCHANGED <<snapshot, etag, events, base, late, remote>>
  PROVE  SkipInv'
<1>1. \E t \in Ticks : t.phase \in {"idle", "fetch"} /\ tick' = [tick EXCEPT ![d] = t]
  BY NextTargetIsATick DEF Abort, Continue
<1> QED BY <1>1, SkipTick DEF UnderWay

LEMMA RecordMovesOn ==
  ASSUME NEW d, NEW p, NEW w, Record(d, p, w)
  PROVE  Abort(d) \/ Continue(d)
BY DEF Record

LEMMA OutcomeMovesOn ==
  ASSUME NEW d, NEW p, Succeed(d, p) \/ Fail(d, p) \/ Drop(d, p) \/ Breaks(d, p) \/ BatchFails(d, p)
  PROVE  Abort(d) \/ Continue(d)
BY RecordMovesOn DEF Succeed, Fail, Drop, Breaks, BatchFails

LEMMA SkipStart == ASSUME SkipInv, NEW d \in Daemon, TickStart(d) PROVE SkipInv'
<1> DEFINE after == [p \in Pr |-> IF p \in Watched THEN Reconciled(d, p) ELSE NoActor]
           targets == {p \in Watched : Due(after[p])}
           t == [Idle EXCEPT !.todo = targets, !.phase = IF targets = {} THEN "idle" ELSE "fetch"]
<1>1. targets \subseteq Pr
  BY DEF Watched
<1>2. tick' = [tick EXCEPT ![d] = t]
  BY DEF TickStart
<1> HIDE DEF targets
<1>3. t \in Ticks /\ t.phase \in {"idle", "fetch"}
  BY <1>1, NextTargetIsATick DEF Ticks
<1> HIDE DEF t
<1> QED BY <1>2, <1>3, SkipTick DEF UnderWay, TickStart

LEMMA SkipFetch == ASSUME SkipInv, NEW d \in Daemon, Fetch(d) PROVE SkipInv'
<1>1. PICK p \in tick[d].todo :
        tick' = [tick EXCEPT ![d] = [tick[d] EXCEPT !.phase = "fetching", !.todo = tick[d].todo \ {p},
                                                    !.pr = p, !.prev = snapshot[p], !.tag = etag[p]]]
  BY DEF Fetch
<1> DEFINE t == [tick[d] EXCEPT !.phase = "fetching", !.todo = @ \ {p}, !.pr = p,
                                !.prev = snapshot[p], !.tag = etag[p]]
<1>2. tick[d] \in Ticks /\ p \in Pr
  BY DEF SkipInv, SkipTypes, Ticks
<1>3. snapshot[p] \in Versions /\ etag[p] \in Versions /\ Seen(p, snapshot[p])
  BY <1>2 DEF SkipInv, SkipTypes
<1>4. t \in Ticks /\ t.pr = p /\ t.prev = snapshot[p]
  BY <1>2, <1>3 DEF Ticks
<1>5. tick' = [tick EXCEPT ![d] = t]
  BY <1>1
<1> HIDE DEF t
<1> QED BY <1>2, <1>3, <1>4, <1>5, SkipTick DEF UnderWay, Fetch, stored

LEMMA SkipAnswered ==
  ASSUME SkipInv, NEW d \in Daemon, tick[d].phase = "fetching", NEW a \in Answers, Answered(d, a),
         UNCHANGED <<snapshot, etag, events, base, late, remote>>
  PROVE  SkipInv'
<1> DEFINE t == [tick[d] EXCEPT !.phase = "answered", !.answer = a]
<1>1. tick[d] \in Ticks /\ UnderWay(tick[d])
  BY DEF SkipInv, SkipTypes
<1>2. t \in Ticks /\ t.pr = tick[d].pr /\ t.prev = tick[d].prev
  BY <1>1 DEF Ticks
<1>3. tick' = [tick EXCEPT ![d] = t]
  BY DEF Answered
<1>4. UnderWay(t)
  BY <1>1, <1>2 DEF UnderWay
<1> HIDE DEF t
<1> QED BY <1>2, <1>3, <1>4, SkipTick

LEMMA SkipRespond == ASSUME SkipInv, NEW d \in Daemon, Respond(d) PROVE SkipInv'
<1> DEFINE p == tick[d].pr
<1>1. tick[d].phase = "fetching" /\ UNCHANGED <<snapshot, etag, events, base, late, remote>>
  BY DEF Respond, stored
<1>2. p \in Pr
  BY <1>1 DEF SkipInv, UnderWay
<1>3. remote[p].version \in Nat /\ remote[p].closed \in BOOLEAN
  BY <1>2 DEF SkipInv, SkipTypes
<1>4. CASE Answered(d, [kind |-> "not_modified"])
  BY <1>1, <1>4, SkipAnswered DEF Answers
<1>5. ASSUME NEW tag \in {remote[p].version, None},
             Answered(d, [kind |-> "ok", version |-> remote[p].version, closed |-> remote[p].closed, etag |-> tag])
      PROVE  SkipInv'
  <2> DEFINE a == [kind |-> "ok", version |-> remote[p].version, closed |-> remote[p].closed, etag |-> tag]
  <2>1. a \in Answers
    BY <1>3 DEF Answers, Versions
  <2> HIDE DEF a
  <2>2. Answered(d, a)
    BY <1>5 DEF a
  <2> QED BY <1>1, <2>1, <2>2, SkipAnswered
<1> QED BY <1>4, <1>5 DEF Respond

LEMMA SkipFetchFails == ASSUME SkipInv, NEW d \in Daemon, FetchFails(d) PROVE SkipInv'
<1>1. PICK kind \in {"failed", "not_found"} : Answered(d, [kind |-> kind])
  BY DEF FetchFails
<1>2. [kind |-> kind] \in Answers
  BY DEF Answers
<1> QED BY <1>1, <1>2, SkipAnswered DEF FetchFails, stored

(* The outcome of a poll moves the tick on to a target or to its end *)
LEMMA SkipStored ==
  ASSUME SkipInv, NEW d \in Daemon, NEW p \in Pr, Applying(d, "ok"), tick[d].pr = p,
         SaveSnapshot(d, p), SaveEtag(d, p) \/ etag' = etag, Abort(d) \/ Continue(d),
         remote' = remote
  PROVE  SkipInv'
<1>1. \E t \in Ticks : t.phase \in {"idle", "fetch"} /\ tick' = [tick EXCEPT ![d] = t]
  BY NextTargetIsATick DEF Abort, Continue
<1> QED BY <1>1, SkipSave

LEMMA SkipApply == ASSUME SkipInv, NEW d \in Daemon, Apply(d) PROVE SkipInv'
<1>1. CASE Unchanged(d) \/ Failed(d)
  <2>1. Abort(d) \/ Continue(d)
    BY <1>1, OutcomeMovesOn DEF Unchanged, Failed
  <2> QED BY <1>1, <2>1, SkipNext DEF Unchanged, Failed
<1>2. ASSUME NEW p \in Pr, Save(d, p) PROVE SkipInv'
  <2>1. Applying(d, "ok") /\ tick[d].pr = p /\ remote' = remote
    BY <1>2 DEF Save
  <2>2. Abort(d) \/ Continue(d)
    BY <1>2, OutcomeMovesOn DEF Save
  <2>3. \/ UNCHANGED <<snapshot, etag, events, base, late>>
        \/ SaveSnapshot(d, p) /\ (SaveEtag(d, p) \/ etag' = etag)
    BY <1>2 DEF Save
  <2> QED BY <2>1, <2>2, <2>3, SkipNext, SkipStored
<1>3. ASSUME NEW p \in Pr, SaveTerminal(d, p) PROVE SkipInv'
  <2>1. Applying(d, "ok") /\ tick[d].pr = p /\ remote' = remote
    BY <1>3 DEF SaveTerminal
  <2>2. Abort(d) \/ Continue(d)
    BY <1>3, OutcomeMovesOn DEF SaveTerminal
  <2>3. \/ UNCHANGED <<snapshot, etag, events, base, late>>
        \/ SaveSnapshot(d, p) /\ SaveEtag(d, p)
    BY <1>3 DEF SaveTerminal
  <2> QED BY <2>1, <2>2, <2>3, SkipNext, SkipStored
<1> QED BY <1>1, <1>2, <1>3 DEF Apply

LEMMA SkipCrash == ASSUME SkipInv, NEW d \in Daemon, Crash(d) PROVE SkipInv'
<1>1. Abort(d) /\ remote' = remote
  BY DEF Crash
<1>2. CASE UNCHANGED <<snapshot, etag, events, base, late>>
  BY <1>1, <1>2, SkipNext
<1>3. CASE Applying(d, "ok") /\ SaveSnapshot(d, tick[d].pr) /\ (SaveEtag(d, tick[d].pr) \/ etag' = etag)
  <2>1. tick[d].pr \in Pr
    BY <1>3 DEF SkipInv, UnderWay, Applying
  <2> QED BY <1>1, <1>3, <2>1, SkipStored
<1> QED BY <1>2, <1>3 DEF Crash

LEMMA SkipChange == ASSUME SkipInv, NEW p \in Pr, Change(p) PROVE SkipInv'
<1>1. PICK closed \in BOOLEAN : remote' = [remote EXCEPT ![p] = [version |-> @.version + 1, closed |-> closed]]
  BY DEF Change
<1>2. remote' \in [Pr -> [version: Nat, closed: BOOLEAN]]
  BY <1>1 DEF SkipInv, SkipTypes
<1> QED BY <1>2, SkipIdle DEF Change, stored, process

LEMMA SkipStep == SkipInv /\ [Next]_vars => SkipInv'
<1> SUFFICES ASSUME SkipInv, [Next]_vars PROVE SkipInv'
  OBVIOUS
<1>1. ASSUME NEW d \in Daemon, TickStart(d) \/ Fetch(d) \/ Respond(d) \/ FetchFails(d) \/ Apply(d) \/ Crash(d)
      PROVE  SkipInv'
  BY <1>1, SkipStart, SkipFetch, SkipRespond, SkipFetchFails, SkipApply, SkipCrash
<1>2. ASSUME UNCHANGED <<snapshot, etag, events, base, late, tick, remote>> PROVE SkipInv'
  BY <1>2, SkipIdle DEF SkipInv, SkipTypes
<1>3. ASSUME NEW d \in Daemon, ReconcileFails(d) \/ Throttle(d) \/ Boot(d) PROVE SkipInv'
  BY <1>2, <1>3 DEF ReconcileFails, Throttle, Boot, stored
<1>4. ASSUME NEW s \in Session, NEW p \in Pr, Subscribe(s, p) \/ Unsubscribe(s, p) PROVE SkipInv'
  BY <1>2, <1>4 DEF Subscribe, Unsubscribe, stored, process
<1>5. ASSUME NEW p \in Pr, Change(p) PROVE SkipInv'
  BY <1>5, SkipChange
<1>6. ASSUME NEW p \in Pr, Elapse(p) PROVE SkipInv'
  BY <1>2, <1>6 DEF Elapse
<1>7. CASE Switch \/ Reset \/ UNCHANGED vars
  BY <1>2, <1>7 DEF Switch, Reset, vars, stored, process
<1> QED BY <1>1, <1>3, <1>4, <1>5, <1>6, <1>7 DEF Next

(* While one process runs, its tick is the only one *)
LEMMA SoleTick ==
  ASSUME SkipInv, Sole, NEW d \in up, d \in Daemon, NEW t \in Ticks, tick' = [tick EXCEPT ![d] = t],
         up' = up \/ (up' = up \ {d} /\ t.phase = "idle"), alone' = alone,
         alone => \A p \in Pr : late'[p] = {},
         alone /\ t.phase \in {"fetching", "answered"} /\ t.prev = None => snapshot'[t.pr] = None
  PROVE  Sole'
<1>1. \A e \in Daemon : tick'[e] = IF e = d THEN t ELSE tick[e]
  BY DEF SkipInv, SkipTypes
<1>2. \A e \in Daemon : tick'[e].phase # "idle" => e \in up'
  BY <1>1 DEF Sole
<1>3. ASSUME alone, NEW e \in Daemon, tick'[e].phase \in {"fetching", "answered"}, tick'[e].prev = None
      PROVE  snapshot'[tick'[e].pr] = None
  <2>1. CASE e = d
    BY <1>1, <1>3, <2>1
  <2>2. CASE e # d
    <3>1. tick[e].phase # "idle"
      BY <1>1, <1>3, <2>2
    <3> QED BY <1>3, <2>2, <3>1 DEF Sole
  <2> QED BY <2>1, <2>2
<1>4. alone => \A e, f \in up' : e = f
  BY DEF Sole
<1> QED BY <1>2, <1>3, <1>4 DEF Sole

LEMMA SoleIdle ==
  ASSUME Sole, UNCHANGED <<tick, up, alone, late, snapshot>>
  PROVE  Sole'
BY DEF Sole

(* A poll of the one process that had no snapshot to start from stores the first one *)
LEMMA SoleSave ==
  ASSUME SkipInv, Sole, NEW d \in Daemon, NEW p \in Pr, Applying(d, "ok"), tick[d].pr = p,
         SaveSnapshot(d, p), alone
  PROVE  \A q \in Pr : late'[q] = {}
<1> DEFINE gap == IF tick[d].prev = None /\ snapshot[p] # None
                  THEN (snapshot[p] + 1)..tick[d].answer.version ELSE {}
<1>1. gap = {}
  BY DEF Applying, Sole
<1>2. late' = [late EXCEPT ![p] = late[p] \cup gap]
  BY DEF SaveSnapshot
<1> HIDE DEF gap
<1>3. late \in [Pr -> SUBSET Nat] /\ \A q \in Pr : late[q] = {}
  BY DEF SkipInv, SkipTypes, Sole
<1> QED BY <1>1, <1>2, <1>3

LEMMA SoleNext ==
  ASSUME SkipInv, Sole, NEW d \in Daemon, d \in up, Abort(d) \/ Continue(d), alone' = alone,
         up' = up \/ (up' = up \ {d} /\ Abort(d)), alone => \A p \in Pr : late'[p] = {}
  PROVE  Sole'
<1>1. CASE Abort(d)
  BY <1>1, NextTargetIsATick, SoleTick DEF Abort
<1>2. CASE up' = up
  <2>1. PICK t \in Ticks : t.phase \in {"idle", "fetch"} /\ tick' = [tick EXCEPT ![d] = t]
    BY NextTargetIsATick DEF Abort, Continue
  <2> QED BY <1>2, <2>1, SoleTick
<1> QED BY <1>1, <1>2

LEMMA SoleStep == SkipInv /\ Sole /\ [Next]_vars => Sole'
<1> SUFFICES ASSUME SkipInv, Sole, [Next]_vars PROVE Sole'
  OBVIOUS
<1>1. late' = late /\ alone => \A p \in Pr : late'[p] = {}
  BY DEF Sole
<1>2. ASSUME NEW d \in Daemon, TickStart(d) PROVE Sole'
  <2> DEFINE after == [p \in Pr |-> IF p \in Watched THEN Reconciled(d, p) ELSE NoActor]
             targets == {p \in Watched : Due(after[p])}
             t == [Idle EXCEPT !.todo = targets, !.phase = IF targets = {} THEN "idle" ELSE "fetch"]
  <2>1. targets \subseteq Pr /\ tick' = [tick EXCEPT ![d] = t] /\ UNCHANGED <<late, up, alone>> /\ d \in up
    BY <1>2 DEF Watched, TickStart
  <2> HIDE DEF targets
  <2>2. t \in Ticks /\ t.phase \in {"idle", "fetch"}
    BY <2>1, NextTargetIsATick DEF Ticks
  <2> HIDE DEF t
  <2> QED BY <1>1, <2>1, <2>2, SoleTick
<1>3. ASSUME NEW d \in Daemon, Fetch(d) PROVE Sole'
  <2>1. PICK p \in tick[d].todo :
          tick' = [tick EXCEPT ![d] = [tick[d] EXCEPT !.phase = "fetching", !.todo = tick[d].todo \ {p},
                                                      !.pr = p, !.prev = snapshot[p], !.tag = etag[p]]]
    BY <1>3 DEF Fetch
  <2> DEFINE t == [tick[d] EXCEPT !.phase = "fetching", !.todo = @ \ {p}, !.pr = p,
                                  !.prev = snapshot[p], !.tag = etag[p]]
  <2>2. tick[d] \in Ticks /\ p \in Pr
    BY DEF SkipInv, SkipTypes, Ticks
  <2>3. snapshot[p] \in Versions /\ etag[p] \in Versions
    BY <2>2 DEF SkipInv, SkipTypes
  <2>4. t \in Ticks /\ t.pr = p /\ t.prev = snapshot[p]
    BY <2>2, <2>3 DEF Ticks
  <2>5. tick' = [tick EXCEPT ![d] = t]
    BY <2>1
  <2> HIDE DEF t
  <2>6. d \in up /\ UNCHANGED <<late, up, alone, snapshot>>
    BY <1>3 DEF Fetch, stored
  <2> QED BY <1>1, <2>4, <2>5, <2>6, SoleTick
<1>4. ASSUME NEW d \in Daemon, Respond(d) \/ FetchFails(d) PROVE Sole'
  <2>1. /\ tick[d].phase = "fetching" /\ d \in up /\ UNCHANGED <<late, up, alone, snapshot>>
        /\ \E a : Answered(d, a)
    BY <1>4 DEF Respond, FetchFails, stored
  <2>2. PICK a : tick' = [tick EXCEPT ![d] = [tick[d] EXCEPT !.phase = "answered", !.answer = a]]
    BY <2>1 DEF Answered
  <2> DEFINE t == [tick[d] EXCEPT !.phase = "answered", !.answer = a]
  <2>3. tick[d] \in Ticks
    BY DEF SkipInv, SkipTypes
  <2>4. t.pr = tick[d].pr /\ t.prev = tick[d].prev /\ t.phase = "answered"
    BY <2>3 DEF Ticks
  <2>5. \A e \in Daemon : tick'[e] = IF e = d THEN t ELSE tick[e]
    BY <2>2 DEF SkipInv, SkipTypes
  <2> HIDE DEF t
  <2> QED BY <2>1, <2>4, <2>5 DEF Sole
<1>5. ASSUME NEW d \in Daemon, Apply(d) PROVE Sole'
  <2>1. Abort(d) \/ Continue(d)
    BY <1>5, OutcomeMovesOn DEF Apply, Unchanged, Failed, Save, SaveTerminal
  <2>2. d \in up /\ UNCHANGED <<up, alone>>
    BY <1>5 DEF Apply, Applying, Unchanged, Failed, Save, SaveTerminal
  <2>3. \/ late' = late
        \/ \E p \in Pr : Applying(d, "ok") /\ tick[d].pr = p /\ SaveSnapshot(d, p)
    BY <1>5 DEF Apply, Unchanged, Failed, Save, SaveTerminal
  <2>4. alone => \A p \in Pr : late'[p] = {}
    BY <1>1, <2>3, SoleSave
  <2> QED BY <2>1, <2>2, <2>4, SoleNext
<1>6. ASSUME NEW d \in Daemon, Crash(d) PROVE Sole'
  <2>1. Abort(d) /\ d \in up /\ up' = up \ {d} /\ alone' = alone
    BY <1>6 DEF Crash
  <2>2. late' = late \/ (Applying(d, "ok") /\ SaveSnapshot(d, tick[d].pr))
    BY <1>6 DEF Crash
  <2>3. Applying(d, "ok") => tick[d].pr \in Pr
    BY DEF SkipInv, UnderWay, Applying
  <2>4. alone => \A p \in Pr : late'[p] = {}
    BY <1>1, <2>2, <2>3, SoleSave
  <2> QED BY <2>1, <2>4, SoleNext
<1>7. ASSUME NEW d \in Daemon, Boot(d) PROVE Sole'
  <2>1. up' = up \cup {d} /\ alone' = (alone /\ up = {}) /\ UNCHANGED <<tick, late, snapshot>>
    BY <1>7 DEF Boot, stored
  <2>2. alone' => alone /\ up = {} /\ \A e \in Daemon : tick[e].phase = "idle"
    BY <2>1 DEF Sole
  <2> QED BY <2>1, <2>2 DEF Sole
<1>8. ASSUME NEW d \in Daemon, ReconcileFails(d) \/ Throttle(d) PROVE Sole'
  BY <1>8, SoleIdle DEF ReconcileFails, Throttle
<1>9. ASSUME NEW s \in Session, NEW p \in Pr, Subscribe(s, p) \/ Unsubscribe(s, p) PROVE Sole'
  BY <1>9, SoleIdle DEF Subscribe, Unsubscribe, stored, process
<1>10. ASSUME NEW p \in Pr, Change(p) \/ Elapse(p) PROVE Sole'
  BY <1>10, SoleIdle DEF Change, Elapse, stored, process
<1>11. CASE Switch \/ Reset \/ UNCHANGED vars
  BY <1>11, SoleIdle DEF Switch, Reset, vars, stored, process
<1> QED BY <1>2, <1>3, <1>4, <1>5, <1>6, <1>7, <1>8, <1>9, <1>10, <1>11 DEF Next

(* GitHub is asked for what changed since a version only if every change up to that *)
(* version, from the one first stored, has left its event, though the snapshot was  *)
(* read before the request, another process polls as well, and a process may die    *)
(* between storing the snapshot and storing the ETag.  Only a first poll that ends  *)
(* after another process's first poll passes changes over, never the one process.   *)
THEOREM NoChangeIsSkipped == Spec => []NothingSkipped
<1>1. SkipInv /\ Sole => NothingSkipped
  BY DEF SkipInv, Seen, NothingSkipped, Sole
<1>2. Init => Sole
  BY DEF Init, Sole, Idle
<1> QED BY <1>1, <1>2, InitSkip, SkipStep, SoleStep, PTL DEF Spec

-----------------------------------------------------------------------------
(* The machine                                                               *)

LEMMA CountIsNat == ASSUME NEW p PROVE Count(p) \in Nat
<1>1. {s \in Session : p \in subs[s]} \subseteq Session
  OBVIOUS
<1>2. IsFiniteSet({s \in Session : p \in subs[s]})
  BY <1>1, SessionAssumption, FS_Subset
<1> QED BY <1>2, FS_CardinalityType DEF Count

LEMMA FailuresBound == MaxFailures \in Nat /\ MaxFailures > 0
BY BoundAssumption

(* What the machine makes of each event, field by field *)
Is(v, state, count, idle, next, failures) ==
  /\ v \in Records
  /\ v.state = state /\ v.count = count /\ v.idle = idle /\ v.next = next /\ v.failures = failures

LEMMA IsOne ==
  ASSUME NEW v, NEW w, NEW a, NEW b, NEW c, NEW d, NEW e, Is(v, a, b, c, d, e), Is(w, a, b, c, d, e)
  PROVE  v = w
BY DEF Is, Records

LEMMA SoundIs == ASSUME NEW w, Sound(w) PROVE Is(w, w.state, w.count, w.idle, w.next, w.failures)
BY DEF Is, Sound

LEMMA Subscribed ==
  ASSUME NEW w \in Records, NEW n \in Nat, NEW deadline \in Deadlines
  PROVE  LET v == SubscribersChanged(w, n, deadline) IN
         /\ w.state = "terminal" => v = w
         /\ w.state \in {"stopped", "idle_grace"} /\ n > 0 => Is(v, "warming_up", n, "none", w.next, w.failures)
         /\ w.state \in {"stopped", "idle_grace"} /\ ~(n > 0) => Is(v, w.state, n, w.idle, w.next, w.failures)
         /\ w.state \notin {"terminal", "stopped", "idle_grace"} /\ n > 0
              => Is(v, w.state, n, "none", w.next, w.failures)
         /\ w.state \notin {"terminal", "stopped", "idle_grace"} /\ ~(n > 0)
              => Is(v, "idle_grace", n, deadline, "none", w.failures)
<1> USE DEF SubscribersChanged, Is, Records, States, Deadlines
<1>1. CASE w.state = "terminal"
  BY <1>1
<1>2. CASE w.state \in {"stopped", "idle_grace"} /\ n > 0
  BY <1>2
<1>3. CASE w.state \in {"stopped", "idle_grace"} /\ ~(n > 0)
  BY <1>3
<1>4. CASE w.state \notin {"terminal", "stopped", "idle_grace"} /\ n > 0
  BY <1>4
<1>5. CASE w.state \notin {"terminal", "stopped", "idle_grace"} /\ ~(n > 0)
  BY <1>5
<1> QED BY <1>1, <1>2, <1>3, <1>4, <1>5

LEMMA Elapsed ==
  ASSUME NEW w \in Records
  PROVE  LET v == TimeElapsed(w) IN
         IF w.state = "idle_grace" /\ w.idle = "past" THEN Is(v, "stopped", w.count, "none", "none", w.failures)
         ELSE IF w.state \in {"backing_off", "rate_limited"} /\ w.next = "past"
         THEN Is(v, "polling", w.count, w.idle, w.next, w.failures)
         ELSE v = w
<1> USE DEF TimeElapsed, Is, Records, States, Deadlines
<1>1. CASE w.state = "idle_grace" /\ w.idle = "past"
  BY <1>1
<1>2. CASE w.state \in {"backing_off", "rate_limited"} /\ w.next = "past"
  BY <1>2
<1>3. CASE ~(w.state = "idle_grace" /\ w.idle = "past") /\ ~(w.state \in {"backing_off", "rate_limited"} /\ w.next = "past")
  BY <1>3
<1> QED BY <1>1, <1>2, <1>3

LEMMA Warmed ==
  ASSUME NEW w \in Records
  PROVE  IF w.state = "warming_up" THEN Is(WarmedUp(w), "polling", w.count, w.idle, w.next, w.failures)
         ELSE WarmedUp(w) = w
BY DEF WarmedUp, Is, Records, States, Deadlines

LEMMA Polled ==
  ASSUME NEW w \in Records, NEW deadline \in Deadlines
  PROVE  /\ IF w.state = "polling" THEN Is(PollSucceeded(w, deadline), "polling", w.count, w.idle, deadline, 0)
            ELSE PollSucceeded(w, deadline) = w
         /\ IF w.state \in {"warming_up", "polling", "backing_off"}
            THEN Is(RateLimited(w, deadline), "rate_limited", w.count, w.idle, deadline, w.failures)
            ELSE RateLimited(w, deadline) = w
<1> USE DEF PollSucceeded, RateLimited, Is, Records, States, Deadlines
<1>1. IF w.state = "polling" THEN Is(PollSucceeded(w, deadline), "polling", w.count, w.idle, deadline, 0)
      ELSE PollSucceeded(w, deadline) = w
  OBVIOUS
<1>2. IF w.state \in {"warming_up", "polling", "backing_off"}
      THEN Is(RateLimited(w, deadline), "rate_limited", w.count, w.idle, deadline, w.failures)
      ELSE RateLimited(w, deadline) = w
  OBVIOUS
<1> QED BY <1>1, <1>2

LEMMA PollFailedIs ==
  ASSUME NEW w \in Records, NEW deadline \in Deadlines
  PROVE  IF w.state = "polling"
         THEN Is(PollFailed(w, deadline), "backing_off", w.count, w.idle, deadline,
                 IF w.failures < MaxFailures THEN w.failures + 1 ELSE w.failures)
         ELSE PollFailed(w, deadline) = w
<1> DEFINE f == IF w.failures < MaxFailures THEN w.failures + 1 ELSE w.failures
<1>1. f \in Nat
  BY DEF Records
<1>2. PollFailed(w, deadline) = IF w.state = "polling"
                               THEN [w EXCEPT !.state = "backing_off", !.next = deadline, !.failures = f]
                               ELSE w
  BY DEF PollFailed
<1> HIDE DEF f
<1>3. CASE w.state = "polling"
  <2>1. PollFailed(w, deadline) = [w EXCEPT !.state = "backing_off", !.next = deadline, !.failures = f]
    BY <1>2, <1>3
  <2>2. PollFailed(w, deadline) \in Records
    BY <1>1, <2>1 DEF Records, States, Deadlines
  <2>3. /\ PollFailed(w, deadline).state = "backing_off" /\ PollFailed(w, deadline).next = deadline
        /\ PollFailed(w, deadline).failures = f /\ PollFailed(w, deadline).count = w.count
        /\ PollFailed(w, deadline).idle = w.idle
    BY <2>1 DEF Records
  <2> QED BY <1>3, <2>2, <2>3 DEF Is, f
<1>4. CASE w.state # "polling"
  BY <1>2, <1>4
<1> QED BY <1>3, <1>4 DEF f

LEMMA TerminalIs == ASSUME NEW w \in Records PROVE Is(Terminal(w), "terminal", w.count, "none", "none", 0)
BY DEF Terminal, Is, Records, States, Deadlines

LEMMA RowIs == ASSUME NEW w \in Records PROVE Is(Row(w), w.state, 0, w.idle, w.next, w.failures)
BY DEF Row, Is, Records, States, Deadlines

LEMMA SubscribedSound ==
  ASSUME NEW w, Sound(w), NEW n \in Nat, NEW deadline \in Deadlines
  PROVE  Sound(SubscribersChanged(w, n, deadline))
BY Subscribed DEF Sound, Is

LEMMA ElapsedSound ==
  ASSUME NEW w, Sound(w)
  PROVE  Sound(TimeElapsed(w)) /\ Sound(WarmedUp(w)) /\ Sound(Terminal(w)) /\ Sound(Row(w))
BY Elapsed, Warmed, TerminalIs, RowIs, FailuresBound DEF Sound, Is

LEMMA PolledSound ==
  ASSUME NEW w, Sound(w), NEW deadline \in Deadlines
  PROVE  /\ Sound(PollSucceeded(w, deadline)) /\ Sound(PollFailed(w, deadline))
         /\ Sound(RateLimited(w, deadline))
<1>1. w \in Records /\ w.failures \in Nat
  BY DEF Sound, Records
<1>2. Sound(PollSucceeded(w, deadline)) /\ Sound(RateLimited(w, deadline))
  BY <1>1, Polled, FailuresBound DEF Sound, Is
<1>3. Sound(PollFailed(w, deadline))
  BY <1>1, PollFailedIs, FailuresBound DEF Sound, Is
<1> QED BY <1>2, <1>3

(* The machine is driven to exactly the state of the row *)
LEMMA RestoredIsTheRow ==
  ASSUME NEW r, Sound(r), NEW n \in Nat
  PROVE  Sound(Restored(r, n)) /\ Durable(Restored(r, n)) = Durable(r) /\ Row(Restored(r, n)) = Row(r)
<1> DEFINE f == IF r.state = "backing_off" /\ r.failures > 0 THEN r.failures - 1 ELSE r.failures
           fresh == [r EXCEPT !.state = "stopped", !.count = n,
                              !.failures = IF r.state = "backing_off" /\ @ > 0 THEN @ - 1 ELSE @]
           m == IF n > 0 THEN n ELSE 1
           w == SubscribersChanged(fresh, m, r.idle)
           result == Restored(r, n)
<1>1. /\ r \in Records /\ r.idle \in Deadlines /\ r.next \in Deadlines /\ r.failures \in Nat
      /\ f \in Nat /\ m \in Nat /\ m > 0 /\ (r.state # "backing_off" => f = r.failures)
  BY DEF Sound, Records
<1>2. Is(fresh, "stopped", n, r.idle, r.next, f)
  BY <1>1 DEF Is, Records, States, Deadlines
<1>3. /\ result = CASE r.state = "stopped"      -> fresh
                    [] r.state = "terminal"     -> Terminal(fresh)
                    [] r.state = "warming_up"   -> w
                    [] r.state = "polling"      -> WarmedUp(w)
                    [] r.state = "idle_grace"   -> SubscribersChanged(WarmedUp(w), 0, r.idle)
                    [] r.state = "backing_off"  -> PollFailed(WarmedUp(w), r.next)
                    [] r.state = "rate_limited" -> RateLimited(WarmedUp(w), r.next)
  BY DEF Restored
<1> HIDE DEF f, m, fresh, result
<1>4. Is(w, "warming_up", m, "none", r.next, f)
  BY <1>1, <1>2, Subscribed DEF Is
<1> HIDE DEF w
<1>5. Is(WarmedUp(w), "polling", m, "none", r.next, f)
  BY <1>4, Warmed DEF Is
<1>6. \E c \in Nat : Is(result, r.state, c, r.idle, r.next, r.failures)
  <2>1. CASE r.state = "stopped"
    BY <1>1, <1>2, <1>3, <2>1
  <2>2. CASE r.state = "terminal"
    <3>1. result = Terminal(fresh) /\ r.idle = "none" /\ r.next = "none" /\ r.failures = 0
      BY <1>3, <2>2 DEF Sound
    <3>2. Is(Terminal(fresh), "terminal", n, "none", "none", 0)
      BY <1>2, TerminalIs DEF Is
    <3> QED BY <2>2, <3>1, <3>2
  <2>3. CASE r.state = "warming_up"
    <3>1. result = w /\ r.idle = "none"
      BY <1>3, <2>3 DEF Sound
    <3> QED BY <1>1, <1>4, <2>3, <3>1
  <2>4. CASE r.state = "polling"
    <3>1. result = WarmedUp(w) /\ r.idle = "none"
      BY <1>3, <2>4 DEF Sound
    <3> QED BY <1>1, <1>5, <2>4, <3>1
  <2>5. CASE r.state = "idle_grace"
    <3>1. result = SubscribersChanged(WarmedUp(w), 0, r.idle) /\ r.next = "none"
      BY <1>3, <2>5 DEF Sound
    <3>2. Is(SubscribersChanged(WarmedUp(w), 0, r.idle), "idle_grace", 0, r.idle, "none", f)
      BY <1>1, <1>5, Subscribed DEF Is
    <3> QED BY <1>1, <2>5, <3>1, <3>2
  <2>6. CASE r.state = "backing_off"
    <3>1. result = PollFailed(WarmedUp(w), r.next) /\ r.idle = "none" /\ r.failures > 0 /\ r.failures <= MaxFailures
      BY <1>3, <2>6 DEF Sound
    <3>2. f = r.failures - 1
      BY <2>6, <3>1 DEF f
    <3>3. Is(PollFailed(WarmedUp(w), r.next), "backing_off", m, "none", r.next,
             IF f < MaxFailures THEN f + 1 ELSE f)
      BY <1>1, <1>5, PollFailedIs DEF Is
    <3>4. (IF f < MaxFailures THEN f + 1 ELSE f) = r.failures
      BY <1>1, <3>1, <3>2, FailuresBound
    <3> QED BY <1>1, <2>6, <3>1, <3>3, <3>4
  <2>7. CASE r.state = "rate_limited"
    <3>1. result = RateLimited(WarmedUp(w), r.next) /\ r.idle = "none"
      BY <1>3, <2>7 DEF Sound
    <3>2. Is(RateLimited(WarmedUp(w), r.next), "rate_limited", m, "none", r.next, f)
      BY <1>1, <1>5, Polled DEF Is
    <3> QED BY <1>1, <2>7, <3>1, <3>2
  <2> QED BY <1>1, <2>1, <2>2, <2>3, <2>4, <2>5, <2>6, <2>7 DEF Records, States
<1>7. PICK c \in Nat : Is(result, r.state, c, r.idle, r.next, r.failures)
  BY <1>6
<1>8. Sound(result)
  BY <1>7 DEF Sound, Is
<1>9. Durable(result) = Durable(r)
  BY <1>7 DEF Durable, Is
<1>10. Row(result) = Row(r)
  <2>1. Is(Row(result), r.state, 0, r.idle, r.next, r.failures)
    BY <1>7, RowIs DEF Is
  <2>2. Is(Row(r), r.state, 0, r.idle, r.next, r.failures)
    BY <1>1, RowIs
  <2> QED BY <2>1, <2>2, IsOne
<1> QED BY <1>8, <1>9, <1>10 DEF result

-----------------------------------------------------------------------------
(* The rows and the machines                                                 *)

LEMMA SoundIsSome == ASSUME NEW w, Sound(w) PROVE w # NoActor
BY DEF Sound, Records, States, NoActor

LEMMA RowOfARow == ASSUME NEW r, Sound(r), r.count = 0 PROVE Row(r) = r
<1>1. Is(Row(r), r.state, 0, r.idle, r.next, r.failures) /\ Is(r, r.state, 0, r.idle, r.next, r.failures)
  BY RowIs, SoundIs DEF Sound
<1> QED BY <1>1, IsOne

LEMMA RowSound == ASSUME NEW w, Sound(w) PROVE Sound(Row(w)) /\ Row(w).count = 0 /\ Durable(Row(w)) = Durable(w)
BY RowIs, ElapsedSound DEF Sound, Is, Durable

LEMMA InitWatch == Init => WatchInv
BY DEF Init, WatchInv, MachineInv, MachineTypes, Written, SoundOrNone, ActorsHaveRows, RowsOfTheOne,
       Targets, Idle

(* What the registry has of a watcher before it looks at it again *)
LEMMA ReconciledIs ==
  ASSUME MachineInv, NEW d \in Daemon, NEW p \in Watched
  PROVE  /\ Sound(Reconciled(d, p))
         /\ \A w : Sound(w) => /\ Sound(Persisted(d, p, w)) /\ Persisted(d, p, w).count = 0
                               /\ d \in up /\ alone => Persisted(d, p, w) = Row(w)
<1> DEFINE b == IF actor[d][p] = NoActor THEN Restored(row[p], Count(p)) ELSE actor[d][p]
           v == IF b.state # "terminal" /\ (b.count # Count(p) \/ (b.state = "stopped" /\ Count(p) > 0))
                THEN SubscribersChanged(b, Count(p), "future") ELSE b
<1>1. p \in Pr /\ Sound(row[p]) /\ row[p].count = 0 /\ Count(p) \in Nat
  BY CountIsNat DEF Watched, MachineInv, MachineTypes, Written, SoundOrNone
<1>2. Sound(b)
  BY <1>1, RestoredIsTheRow DEF MachineInv, MachineTypes, SoundOrNone
<1>3. d \in up /\ alone => Row(b) = row[p]
  <2>1. CASE actor[d][p] = NoActor
    BY <1>1, <2>1, RestoredIsTheRow, RowOfARow
  <2>2. CASE actor[d][p] # NoActor
    BY <1>1, <2>2 DEF MachineInv, RowsOfTheOne
  <2> QED BY <2>1, <2>2
<1>4. Reconciled(d, p) = WarmedUp(TimeElapsed(v))
  BY DEF Reconciled
<1>5. \A w : Persisted(d, p, w) = IF w = b THEN row[p] ELSE Row(w)
  BY DEF Persisted
<1> HIDE DEF b
<1>6. Sound(v)
  BY <1>1, <1>2, SubscribedSound DEF Deadlines
<1> HIDE DEF v
<1>7. Sound(Reconciled(d, p))
  BY <1>4, <1>6, ElapsedSound
<1>8. \A w : Sound(w) => /\ Sound(Persisted(d, p, w)) /\ Persisted(d, p, w).count = 0
                         /\ d \in up /\ alone => Persisted(d, p, w) = Row(w)
  BY <1>1, <1>3, <1>5, RowSound
<1> QED BY <1>7, <1>8

(* A process that runs writes rows and changes its machines *)
LEMMA OneActs ==
  ASSUME MachineInv, NEW d \in Daemon, d \in up, UNCHANGED <<up, alone>>,
         DOMAIN row' = Pr, DOMAIN actor' = Daemon, DOMAIN actor'[d] = Pr,
         \A e \in Daemon : e # d => actor'[e] = actor[e],
         \A p \in Pr : /\ Written(row'[p])
                       /\ row[p] # NoActor => row'[p] # NoActor
                       /\ SoundOrNone(actor'[d][p])
                       /\ actor'[d][p] # NoActor => row'[p] # NoActor /\ (alone => row'[p] = Row(actor'[d][p]))
  PROVE  MachineInv' /\ Watched \subseteq Watched'
<1>1. \A e \in Daemon, p \in Pr : DOMAIN actor'[e] = Pr /\ SoundOrNone(actor'[e][p])
  BY DEF MachineInv, MachineTypes
<1>2. MachineTypes'
  BY <1>1 DEF MachineInv, MachineTypes, SoundOrNone, Written
<1>3. ActorsHaveRows'
  BY DEF MachineInv, ActorsHaveRows
<1>4. RowsOfTheOne'
  <2> SUFFICES ASSUME alone PROVE RowsOfTheOne'
    BY DEF RowsOfTheOne
  <2>1. \A e, f \in up : e = f
    BY DEF MachineInv, RowsOfTheOne
  <2>2. ASSUME NEW e \in Daemon, NEW p \in Pr, actor'[e][p] # NoActor PROVE row'[p] = Row(actor'[e][p])
    <3>1. CASE e = d
      BY <2>2, <3>1
    <3>2. CASE e # d
      BY <2>1, <2>2, <3>2 DEF MachineInv, ActorsHaveRows
    <3> QED BY <3>1, <3>2
  <2> QED BY <2>1, <2>2 DEF RowsOfTheOne
<1>5. Watched \subseteq Watched'
  BY DEF Watched
<1> QED BY <1>2, <1>3, <1>4, <1>5 DEF MachineInv

LEMMA MachinesIdle ==
  ASSUME MachineInv, UNCHANGED <<up, alone, row, actor>>
  PROVE  MachineInv' /\ Watched' = Watched
BY DEF MachineInv, MachineTypes, ActorsHaveRows, RowsOfTheOne, Watched, Written, SoundOrNone

(* The machine of one pull request is given an event, and its row is written *)
LEMMA RecordKeeps ==
  ASSUME MachineInv, NEW d \in Daemon, d \in up, UNCHANGED <<up, alone>>, NEW p \in Pr, NEW w,
         actor[d][p] # NoActor => Sound(w), Record(d, p, w)
  PROVE  MachineInv' /\ Watched \subseteq Watched'
<1>1. CASE actor[d][p] = NoActor
  BY <1>1, MachinesIdle DEF Record
<1>2. CASE actor[d][p] # NoActor
  <2>1. actor' = [actor EXCEPT ![d] = [actor[d] EXCEPT ![p] = w]] /\ row' = [row EXCEPT ![p] = Row(w)]
    BY <1>2 DEF Record
  <2>2. /\ DOMAIN row = Pr /\ DOMAIN actor = Daemon /\ DOMAIN actor[d] = Pr
        /\ \A q \in Pr : Written(row[q]) /\ SoundOrNone(actor[d][q])
    BY DEF MachineInv, MachineTypes
  <2> DEFINE mine == [actor[d] EXCEPT ![p] = w]
  <2>3. DOMAIN mine = Pr /\ mine[p] = w /\ \A q \in Pr : q # p => mine[q] = actor[d][q]
    BY <2>2
  <2> HIDE DEF mine
  <2>4. actor' = [actor EXCEPT ![d] = mine]
    BY <2>1 DEF mine
  <2>5. DOMAIN actor' = Daemon /\ actor'[d] = mine /\ \A e \in Daemon : e # d => actor'[e] = actor[e]
    BY <2>2, <2>4
  <2>6. DOMAIN row' = Pr /\ row'[p] = Row(w) /\ \A q \in Pr : q # p => row'[q] = row[q]
    BY <2>1, <2>2
  <2>7. Sound(w) /\ Sound(Row(w)) /\ Row(w).count = 0 /\ w # NoActor /\ Row(w) # NoActor
    BY <1>2, RowSound, SoundIsSome
  <2>8. ASSUME NEW q \in Pr
        PROVE  /\ Written(row'[q])
               /\ row[q] # NoActor => row'[q] # NoActor
               /\ SoundOrNone(actor'[d][q])
               /\ actor'[d][q] # NoActor => row'[q] # NoActor /\ (alone => row'[q] = Row(actor'[d][q]))
    <3>1. CASE q = p
      BY <2>3, <2>5, <2>6, <2>7, <3>1 DEF Written, SoundOrNone
    <3>2. CASE q # p
      BY <2>2, <2>3, <2>5, <2>6, <3>2 DEF MachineInv, ActorsHaveRows, RowsOfTheOne
    <3> QED BY <3>1, <3>2
  <2>9. DOMAIN actor'[d] = Pr
    BY <2>3, <2>5
  <2> QED BY <2>5, <2>6, <2>8, <2>9, OneActs
<1> QED BY <1>1, <1>2

LEMMA OutcomeKeeps ==
  ASSUME MachineInv, NEW d \in Daemon, d \in up, UNCHANGED <<up, alone>>, NEW p \in Pr,
         Succeed(d, p) \/ Fail(d, p)
  PROVE  MachineInv' /\ Watched \subseteq Watched'
<1>1. actor[d][p] # NoActor => Sound(actor[d][p])
  BY DEF MachineInv, MachineTypes, SoundOrNone
<1>2. \A deadline \in Deadlines : actor[d][p] # NoActor
        => Sound(PollSucceeded(actor[d][p], deadline)) /\ Sound(PollFailed(actor[d][p], deadline))
  BY <1>1, PolledSound
<1>3. CASE Fail(d, p)
  BY <1>2, <1>3, RecordKeeps DEF Fail, Deadlines
<1>4. CASE Succeed(d, p)
  <2>1. PICK deadline \in {"past", "future"} : Record(d, p, PollSucceeded(actor[d][p], deadline))
    BY <1>4 DEF Succeed
  <2>2. deadline \in Deadlines
    BY DEF Deadlines
  <2> QED BY <1>2, <2>1, <2>2, RecordKeeps
<1> QED BY <1>3, <1>4

LEMMA StartKeeps ==
  ASSUME MachineInv, NEW d \in Daemon, TickStart(d)
  PROVE  MachineInv' /\ Watched \subseteq Watched'
<1> DEFINE after == [p \in Pr |-> IF p \in Watched THEN Reconciled(d, p) ELSE NoActor]
           rows == [p \in Pr |-> IF p \in Watched THEN Persisted(d, p, after[p]) ELSE row[p]]
<1>1. d \in up /\ UNCHANGED <<up, alone>> /\ actor' = [actor EXCEPT ![d] = after] /\ row' = rows
  BY DEF TickStart
<1>2. DOMAIN actor = Daemon /\ \A p \in Pr : p \notin Watched => row[p] = NoActor
  BY DEF MachineInv, MachineTypes, Watched
<1>3. ASSUME NEW p \in Pr
      PROVE  /\ Written(rows[p])
             /\ row[p] # NoActor => rows[p] # NoActor
             /\ SoundOrNone(after[p])
             /\ after[p] # NoActor => rows[p] # NoActor /\ (alone => rows[p] = Row(after[p]))
  <2>1. CASE p \in Watched
    <3>1. Sound(after[p]) /\ after[p] = Reconciled(d, p)
      BY <2>1, ReconciledIs
    <3>2. /\ Sound(Persisted(d, p, after[p])) /\ Persisted(d, p, after[p]).count = 0
          /\ d \in up /\ alone => Persisted(d, p, after[p]) = Row(after[p])
      BY <2>1, <3>1, ReconciledIs
    <3>3. rows[p] = Persisted(d, p, after[p])
      BY <2>1
    <3> HIDE DEF rows, after
    <3> QED BY <1>1, <3>1, <3>2, <3>3, SoundIsSome DEF Written, SoundOrNone
  <2>2. CASE p \notin Watched
    <3>1. after[p] = NoActor /\ rows[p] = NoActor /\ row[p] = NoActor
      BY <1>2, <2>2
    <3> HIDE DEF rows, after
    <3> QED BY <3>1 DEF Written, SoundOrNone
  <2> QED BY <2>1, <2>2
<1>4. DOMAIN rows = Pr /\ DOMAIN after = Pr
  OBVIOUS
<1> HIDE DEF rows, after
<1>5. DOMAIN actor' = Daemon /\ actor'[d] = after /\ \A e \in Daemon : e # d => actor'[e] = actor[e]
  BY <1>1, <1>2
<1> QED BY <1>1, <1>3, <1>4, <1>5, OneActs

LEMMA ReconcileBreaksKeeps ==
  ASSUME MachineInv, NEW d \in Daemon, d \in up, UNCHANGED <<up, alone>>, ReconcileBreaks(d)
  PROVE  MachineInv' /\ Watched \subseteq Watched'
<1>1. PICK p \in Watched, done \in SUBSET Watched :
        /\ actor' = [actor EXCEPT ![d] = [q \in Pr |-> IF q = p THEN NoActor
                                                      ELSE IF q \in done THEN Reconciled(d, q) ELSE actor[d][q]]]
        /\ row' = [q \in Pr |-> IF q \in done THEN Persisted(d, q, Reconciled(d, q)) ELSE row[q]]
        /\ p \notin done
  BY DEF ReconcileBreaks
<1> DEFINE after == [q \in Pr |-> IF q = p THEN NoActor
                                  ELSE IF q \in done THEN Reconciled(d, q) ELSE actor[d][q]]
           rows == [q \in Pr |-> IF q \in done THEN Persisted(d, q, Reconciled(d, q)) ELSE row[q]]
<1>2. d \in up /\ UNCHANGED <<up, alone>> /\ actor' = [actor EXCEPT ![d] = after] /\ row' = rows
  BY <1>1
<1>3. DOMAIN actor = Daemon /\ \A q \in Pr : Written(row[q]) /\ SoundOrNone(actor[d][q])
  BY DEF MachineInv, MachineTypes
<1>4. ASSUME NEW q \in Pr
      PROVE  /\ Written(rows[q])
             /\ row[q] # NoActor => rows[q] # NoActor
             /\ SoundOrNone(after[q])
             /\ after[q] # NoActor => rows[q] # NoActor /\ (alone => rows[q] = Row(after[q]))
  <2>1. CASE q \in done
    <3>1. q \in Watched /\ q # p
      BY <1>1, <2>1
    <3>2. /\ Sound(Reconciled(d, q))
          /\ Sound(Persisted(d, q, Reconciled(d, q))) /\ Persisted(d, q, Reconciled(d, q)).count = 0
          /\ d \in up /\ alone => Persisted(d, q, Reconciled(d, q)) = Row(Reconciled(d, q))
      BY <3>1, ReconciledIs
    <3>3. rows[q] = Persisted(d, q, Reconciled(d, q)) /\ after[q] = Reconciled(d, q)
      BY <2>1, <3>1
    <3> HIDE DEF rows, after
    <3> QED BY <1>2, <3>2, <3>3, SoundIsSome DEF Written, SoundOrNone
  <2>2. CASE q \notin done
    <3>1. rows[q] = row[q] /\ (after[q] = NoActor \/ after[q] = actor[d][q])
      BY <2>2
    <3> HIDE DEF rows, after
    <3> QED BY <1>3, <3>1 DEF SoundOrNone, MachineInv, ActorsHaveRows, RowsOfTheOne
  <2> QED BY <2>1, <2>2
<1>5. DOMAIN rows = Pr /\ DOMAIN after = Pr
  OBVIOUS
<1> HIDE DEF rows, after
<1>6. DOMAIN actor' = Daemon /\ actor'[d] = after /\ \A e \in Daemon : e # d => actor'[e] = actor[e]
  BY <1>2, <1>3
<1> QED BY <1>2, <1>4, <1>5, <1>6, OneActs

LEMMA LimitKeeps ==
  ASSUME MachineInv, NEW d \in Daemon, d \in up, UNCHANGED <<up, alone>>,
         NEW done \in SUBSET Watched, NEW lost \in SUBSET Watched, Limit(d, done, lost)
  PROVE  MachineInv' /\ Watched \subseteq Watched'
<1> DEFINE before(q) == IF q \in Watched THEN Reconciled(d, q) ELSE NoActor
           after(q)  == RateLimited(before(q), "future")
           mine == [q \in Pr |-> CASE q \in lost -> NoActor
                                  [] q \in done -> after(q)
                                  [] OTHER     -> before(q)]
           rows == [q \in Pr |-> IF q \in done THEN Row(after(q))
                                  ELSE IF q \in Watched THEN Persisted(d, q, before(q)) ELSE row[q]]
<1>1. actor' = [actor EXCEPT ![d] = mine] /\ row' = rows /\ lost \cap done = {}
  BY DEF Limit
<1>2. DOMAIN actor = Daemon /\ \A q \in Pr : q \notin Watched => row[q] = NoActor
  BY DEF MachineInv, MachineTypes, Watched
<1>3. ASSUME NEW q \in Pr
      PROVE  /\ Written(rows[q])
             /\ row[q] # NoActor => rows[q] # NoActor
             /\ SoundOrNone(mine[q])
             /\ mine[q] # NoActor => rows[q] # NoActor /\ (alone => rows[q] = Row(mine[q]))
  <2>1. CASE q \in Watched
    <3>1. /\ Sound(Reconciled(d, q)) /\ Sound(Persisted(d, q, Reconciled(d, q)))
          /\ Persisted(d, q, Reconciled(d, q)).count = 0
          /\ alone => Persisted(d, q, Reconciled(d, q)) = Row(Reconciled(d, q))
      BY <2>1, ReconciledIs
    <3>2. before(q) = Reconciled(d, q) /\ "future" \in Deadlines
      BY <2>1 DEF Deadlines
    <3>3. Sound(after(q))
      BY <3>1, <3>2, PolledSound
    <3>4. Sound(Row(after(q))) /\ Row(after(q)).count = 0
      BY <3>3, RowSound
    <3>5. /\ q \in done => rows[q] = Row(after(q)) /\ mine[q] = after(q)
          /\ q \notin done => rows[q] = Persisted(d, q, Reconciled(d, q)) /\ mine[q] \in {NoActor, Reconciled(d, q)}
      BY <1>1, <2>1
    <3> HIDE DEF rows, mine, after, before
    <3> QED BY <3>1, <3>3, <3>4, <3>5, SoundIsSome DEF Written, SoundOrNone
  <2>2. CASE q \notin Watched
    <3>1. mine[q] = NoActor /\ rows[q] = NoActor /\ row[q] = NoActor
      BY <1>2, <2>2
    <3> HIDE DEF rows, mine
    <3> QED BY <3>1 DEF Written, SoundOrNone
  <2> QED BY <2>1, <2>2
<1>4. DOMAIN rows = Pr /\ DOMAIN mine = Pr
  OBVIOUS
<1> HIDE DEF rows, mine
<1>5. DOMAIN actor' = Daemon /\ actor'[d] = mine /\ \A e \in Daemon : e # d => actor'[e] = actor[e]
  BY <1>1, <1>2
<1> QED BY <1>1, <1>3, <1>4, <1>5, OneActs

LEMMA ThrottleKeeps ==
  ASSUME MachineInv, NEW d \in Daemon, ReconcileFails(d) \/ Throttle(d)
  PROVE  MachineInv' /\ Watched \subseteq Watched'
<1>1. d \in up /\ UNCHANGED <<up, alone>>
  BY DEF ReconcileFails, Throttle
<1>2. CASE ReconcileBreaks(d)
  BY <1>1, <1>2, ReconcileBreaksKeeps
<1>3. ASSUME NEW done \in SUBSET Watched, NEW lost \in SUBSET Watched, Limit(d, done, lost)
      PROVE  MachineInv' /\ Watched \subseteq Watched'
  BY <1>1, <1>3, LimitKeeps
<1> QED BY <1>2, <1>3 DEF ReconcileFails, Throttle

(* A machine is dropped, whatever its row was left as *)
LEMMA DropKeeps ==
  ASSUME MachineInv, NEW d \in Daemon, d \in up, UNCHANGED <<up, alone>>, NEW p \in Pr,
         actor' = [actor EXCEPT ![d][p] = NoActor],
         DOMAIN row' = Pr, \A q \in Pr : q # p => row'[q] = row[q],
         Written(row'[p]), row[p] # NoActor => row'[p] # NoActor
  PROVE  MachineInv' /\ Watched \subseteq Watched'
<1> DEFINE mine == [actor[d] EXCEPT ![p] = NoActor]
<1>1. /\ DOMAIN row = Pr /\ DOMAIN actor = Daemon /\ DOMAIN actor[d] = Pr
      /\ \A q \in Pr : Written(row[q]) /\ SoundOrNone(actor[d][q])
  BY DEF MachineInv, MachineTypes
<1>2. actor' = [actor EXCEPT ![d] = mine]
  OBVIOUS
<1>3. DOMAIN mine = Pr /\ mine[p] = NoActor /\ \A q \in Pr : q # p => mine[q] = actor[d][q]
  BY <1>1
<1> HIDE DEF mine
<1>4. DOMAIN actor' = Daemon /\ actor'[d] = mine /\ \A e \in Daemon : e # d => actor'[e] = actor[e]
  BY <1>1, <1>2
<1>5. ASSUME NEW q \in Pr
      PROVE  /\ Written(row'[q])
             /\ row[q] # NoActor => row'[q] # NoActor
             /\ SoundOrNone(actor'[d][q])
             /\ actor'[d][q] # NoActor => row'[q] # NoActor /\ (alone => row'[q] = Row(actor'[d][q]))
  <2>1. CASE q = p
    BY <1>3, <1>4, <2>1 DEF SoundOrNone
  <2>2. CASE q # p
    BY <1>1, <1>3, <1>4, <2>2 DEF MachineInv, ActorsHaveRows, RowsOfTheOne
  <2> QED BY <2>1, <2>2
<1>6. DOMAIN actor'[d] = Pr
  BY <1>3, <1>4
<1> QED BY <1>4, <1>5, <1>6, OneActs

LEMMA DroppedKeeps ==
  ASSUME MachineInv, NEW d \in Daemon, d \in up, UNCHANGED <<up, alone, row>>, NEW p \in Pr, Drop(d, p)
  PROVE  MachineInv' /\ Watched \subseteq Watched'
<1>1. DOMAIN row = Pr /\ Written(row[p])
  BY DEF MachineInv, MachineTypes
<1>2. actor' = [actor EXCEPT ![d][p] = NoActor]
  BY DEF Drop
<1>3. DOMAIN row' = Pr /\ Written(row'[p]) /\ \A q \in Pr : row'[q] = row[q]
  BY <1>1
<1> QED BY <1>2, <1>3, DropKeeps

LEMMA BreaksKeeps ==
  ASSUME MachineInv, NEW d \in Daemon, d \in up, UNCHANGED <<up, alone>>, NEW p \in Pr,
         Breaks(d, p) \/ BatchFails(d, p)
  PROVE  MachineInv' /\ Watched \subseteq Watched'
<1>1. CASE Breaks(d, p)
  BY <1>1, OutcomeKeeps, DroppedKeeps DEF Breaks
<1>2. CASE BatchFails(d, p)
  <2>1. PICK deadline \in {"past", "future"} :
          \/ Record(d, p, PollFailed(PollSucceeded(actor[d][p], deadline), "future"))
          \/ /\ actor[d][p] # NoActor /\ Drop(d, p)
             /\ row' = [row EXCEPT ![p] = Row(PollSucceeded(actor[d][p], deadline))]
    BY <1>2 DEF BatchFails
  <2> DEFINE w == PollSucceeded(actor[d][p], deadline)
  <2>2. actor[d][p] # NoActor => Sound(actor[d][p])
    BY DEF MachineInv, MachineTypes, SoundOrNone
  <2>3. actor[d][p] # NoActor => Sound(w)
    BY <2>2, PolledSound DEF Deadlines
  <2> HIDE DEF w
  <2>4. CASE Record(d, p, PollFailed(w, "future"))
    <3>1. actor[d][p] # NoActor => Sound(PollFailed(w, "future"))
      BY <2>3, PolledSound DEF Deadlines
    <3> QED BY <2>4, <3>1, RecordKeeps
  <2>5. CASE actor[d][p] # NoActor /\ Drop(d, p) /\ row' = [row EXCEPT ![p] = Row(w)]
    <3>1. actor' = [actor EXCEPT ![d][p] = NoActor]
      BY <2>5 DEF Drop
    <3>2. Written(Row(w)) /\ Row(w) # NoActor
      BY <2>3, <2>5, RowSound, SoundIsSome DEF Written, SoundOrNone
    <3>3. DOMAIN row' = Pr /\ row'[p] = Row(w) /\ \A q \in Pr : q # p => row'[q] = row[q]
      BY <2>5 DEF MachineInv, MachineTypes
    <3>4. Written(row'[p]) /\ row'[p] # NoActor
      BY <3>2, <3>3
    <3> QED BY <3>1, <3>3, <3>4, DropKeeps
  <2> QED BY <2>1, <2>4, <2>5 DEF w
<1> QED BY <1>1, <1>2

LEMMA TerminalRow ==
  ASSUME NEW w, Sound(w)
  PROVE  Sound(Terminal(w)) /\ Terminal(Row(w)) = Row(Terminal(w)) /\ (w.count = 0 => Terminal(w).count = 0)
<1>1. w \in Records /\ Is(Row(w), w.state, 0, w.idle, w.next, w.failures)
  BY RowIs DEF Sound
<1>2. Is(Terminal(w), "terminal", w.count, "none", "none", 0)
  BY <1>1, TerminalIs
<1>3. Is(Terminal(Row(w)), "terminal", 0, "none", "none", 0)
  BY <1>1, TerminalIs DEF Is
<1>4. Is(Row(Terminal(w)), "terminal", 0, "none", "none", 0)
  BY <1>2, RowIs DEF Is
<1> QED BY <1>2, <1>3, <1>4, IsOne, ElapsedSound DEF Is

LEMMA TerminalKeeps ==
  ASSUME MachineInv, NEW d \in Daemon, d \in up, UNCHANGED <<up, alone>>, NEW p \in Watched,
         row' = [row EXCEPT ![p] = Terminal(row[p])],
         IF actor[d][p] = NoActor THEN actor' = actor
         ELSE actor' = [actor EXCEPT ![d][p] = Terminal(actor[d][p])]
  PROVE  MachineInv' /\ Watched \subseteq Watched'
<1> DEFINE mine == IF actor[d][p] = NoActor THEN actor[d] ELSE [actor[d] EXCEPT ![p] = Terminal(actor[d][p])]
<1>1. /\ DOMAIN row = Pr /\ DOMAIN actor = Daemon /\ DOMAIN actor[d] = Pr
      /\ \A q \in Pr : Written(row[q]) /\ SoundOrNone(actor[d][q])
      /\ p \in Pr /\ row[p] # NoActor
  BY DEF MachineInv, MachineTypes, Watched
<1>2. /\ DOMAIN mine = Pr /\ \A q \in Pr : q # p => mine[q] = actor[d][q]
      /\ mine[p] = IF actor[d][p] = NoActor THEN NoActor ELSE Terminal(actor[d][p])
  BY <1>1
<1>3. DOMAIN actor' = Daemon /\ actor'[d] = mine /\ \A e \in Daemon : e # d => actor'[e] = actor[e]
  <2>1. CASE actor[d][p] = NoActor
    BY <1>1, <2>1
  <2>2. CASE actor[d][p] # NoActor
    <3>1. actor' = [actor EXCEPT ![d] = mine]
      BY <2>2
    <3> HIDE DEF mine
    <3> QED BY <1>1, <3>1
  <2> QED BY <2>1, <2>2
<1> HIDE DEF mine
<1>4. DOMAIN row' = Pr /\ row'[p] = Terminal(row[p]) /\ \A q \in Pr : q # p => row'[q] = row[q]
  BY <1>1
<1>5. Sound(row[p]) /\ row[p].count = 0
  BY <1>1 DEF Written, SoundOrNone
<1>6. Sound(Terminal(row[p])) /\ Terminal(row[p]).count = 0 /\ Terminal(row[p]) # NoActor
  BY <1>5, TerminalRow, SoundIsSome
<1>7. ASSUME NEW q \in Pr
      PROVE  /\ Written(row'[q])
             /\ row[q] # NoActor => row'[q] # NoActor
             /\ SoundOrNone(actor'[d][q])
             /\ actor'[d][q] # NoActor => row'[q] # NoActor /\ (alone => row'[q] = Row(actor'[d][q]))
  <2>1. CASE q # p
    BY <1>1, <1>2, <1>3, <1>4, <2>1 DEF SoundOrNone, MachineInv, ActorsHaveRows, RowsOfTheOne
  <2>2. CASE q = p /\ actor[d][p] = NoActor
    BY <1>2, <1>3, <1>4, <1>6, <2>2 DEF Written, SoundOrNone
  <2>3. CASE q = p /\ actor[d][p] # NoActor
    <3>1. Sound(actor[d][p])
      BY <1>1, <2>3 DEF SoundOrNone
    <3>2. alone => row[p] = Row(actor[d][p])
      BY <1>1, <2>3 DEF MachineInv, RowsOfTheOne
    <3>3. Sound(Terminal(actor[d][p])) /\ Terminal(Row(actor[d][p])) = Row(Terminal(actor[d][p]))
      BY <3>1, TerminalRow
    <3> QED BY <1>2, <1>3, <1>4, <1>6, <2>3, <3>2, <3>3 DEF Written, SoundOrNone
  <2> QED BY <2>1, <2>2, <2>3
<1>8. DOMAIN actor'[d] = Pr
  BY <1>2, <1>3
<1> QED BY <1>3, <1>4, <1>7, <1>8, OneActs

LEMMA ApplyKeeps ==
  ASSUME MachineInv, SkipInv, NEW d \in Daemon, Targets(tick[d]), Apply(d)
  PROVE  MachineInv' /\ Watched \subseteq Watched'
<1>1. CASE Unchanged(d) \/ Failed(d)
  <2>1. d \in up /\ tick[d].phase = "answered" /\ UNCHANGED <<up, alone>>
    BY <1>1 DEF Unchanged, Failed, Applying
  <2>2. tick[d].pr \in Pr
    BY <2>1 DEF SkipInv, UnderWay
  <2>3. \/ Succeed(d, tick[d].pr) \/ Fail(d, tick[d].pr)
        \/ Breaks(d, tick[d].pr)
        \/ Drop(d, tick[d].pr) /\ UNCHANGED row
    BY <1>1 DEF Unchanged, Failed
  <2> QED BY <2>1, <2>2, <2>3, OutcomeKeeps, BreaksKeeps, DroppedKeeps
<1>2. ASSUME NEW p \in Pr, Save(d, p) PROVE MachineInv' /\ Watched \subseteq Watched'
  <2>1. d \in up /\ UNCHANGED <<up, alone>>
    BY <1>2 DEF Save, Applying
  <2>2. \/ Succeed(d, p) \/ Breaks(d, p) \/ BatchFails(d, p)
        \/ Drop(d, p) /\ UNCHANGED row
    BY <1>2 DEF Save
  <2> QED BY <2>1, <2>2, OutcomeKeeps, BreaksKeeps, DroppedKeeps
<1>3. ASSUME NEW p \in Pr, SaveTerminal(d, p) PROVE MachineInv' /\ Watched \subseteq Watched'
  <2>1. d \in up /\ UNCHANGED <<up, alone>> /\ tick[d].phase = "answered" /\ tick[d].pr = p
    BY <1>3 DEF SaveTerminal, Applying
  <2>2. p \in Watched
    BY <2>1 DEF Targets
  <2>3. CASE Breaks(d, p)
    BY <2>1, <2>3, BreaksKeeps
  <2>4. CASE /\ row' = [row EXCEPT ![p] = Terminal(row[p])]
             /\ IF actor[d][p] = NoActor THEN actor' = actor
                ELSE actor' = [actor EXCEPT ![d][p] = Terminal(actor[d][p])]
    BY <2>1, <2>2, <2>4, TerminalKeeps
  <2>5. CASE row' = [row EXCEPT ![p] = Terminal(row[p])] /\ Drop(d, p)
    <3>1. Sound(row[p]) /\ row[p].count = 0
      BY <2>2 DEF Watched, MachineInv, MachineTypes, Written, SoundOrNone
    <3>2. Written(Terminal(row[p])) /\ Terminal(row[p]) # NoActor
      BY <3>1, TerminalRow, SoundIsSome DEF Written, SoundOrNone
    <3>3. actor' = [actor EXCEPT ![d][p] = NoActor]
      BY <2>5 DEF Drop
    <3>4. /\ DOMAIN row' = Pr /\ row'[p] = Terminal(row[p])
          /\ \A q \in Pr : q # p => row'[q] = row[q]
      BY <2>2, <2>5 DEF MachineInv, MachineTypes, Watched
    <3>5. Written(row'[p]) /\ row'[p] # NoActor
      BY <3>2, <3>4
    <3> QED BY <2>1, <3>3, <3>4, <3>5, DropKeeps
  <2> QED BY <1>3, <2>3, <2>4, <2>5 DEF SaveTerminal
<1> QED BY <1>1, <1>2, <1>3 DEF Apply

LEMMA CrashKeeps ==
  ASSUME MachineInv, NEW d \in Daemon, Crash(d)
  PROVE  MachineInv' /\ Watched \subseteq Watched'
<1> DEFINE none == [p \in Pr |-> NoActor]
<1>1. /\ d \in up /\ up' = up \ {d} /\ actor' = [actor EXCEPT ![d] = none]
      /\ row' = row /\ alone' = alone
  BY DEF Crash
<1>2. DOMAIN none = Pr /\ \A p \in Pr : none[p] = NoActor
  OBVIOUS
<1> HIDE DEF none
<1>3. DOMAIN actor' = Daemon /\ actor'[d] = none /\ \A e \in Daemon : e # d => actor'[e] = actor[e]
  BY <1>1 DEF MachineInv, MachineTypes
<1>4. MachineTypes'
  BY <1>1, <1>2, <1>3 DEF MachineInv, MachineTypes, SoundOrNone, Written
<1>5. ActorsHaveRows'
  BY <1>1, <1>2, <1>3 DEF MachineInv, ActorsHaveRows
<1>6. RowsOfTheOne'
  BY <1>1, <1>2, <1>3 DEF MachineInv, RowsOfTheOne
<1> QED BY <1>1, <1>4, <1>5, <1>6 DEF MachineInv, Watched

LEMMA BootKeeps ==
  ASSUME MachineInv, NEW d \in Daemon, Boot(d)
  PROVE  MachineInv' /\ Watched \subseteq Watched'
<1> DEFINE fresh == [p \in Pr |-> IF p \in Watched THEN Restored(row[p], Count(p)) ELSE NoActor]
<1>1. /\ d \notin up /\ up' = up \cup {d} /\ actor' = [actor EXCEPT ![d] = fresh]
      /\ row' = row /\ alone' = (alone /\ up = {})
  BY DEF Boot, stored
<1>2. ASSUME NEW p \in Pr, fresh[p] # NoActor
      PROVE  Sound(fresh[p]) /\ row[p] # NoActor /\ row[p] = Row(fresh[p])
  <2>1. p \in Watched /\ Sound(row[p]) /\ row[p].count = 0 /\ Count(p) \in Nat
    BY <1>2, CountIsNat DEF Watched, MachineInv, MachineTypes, Written, SoundOrNone
  <2>2. fresh[p] = Restored(row[p], Count(p))
    BY <2>1
  <2> QED BY <2>1, <2>2, RestoredIsTheRow, RowOfARow, SoundIsSome
<1>3. DOMAIN fresh = Pr
  OBVIOUS
<1> HIDE DEF fresh
<1>4. DOMAIN actor' = Daemon /\ actor'[d] = fresh /\ \A e \in Daemon : e # d => actor'[e] = actor[e]
  BY <1>1 DEF MachineInv, MachineTypes
<1>5. MachineTypes'
  <2>1. \A e \in Daemon : DOMAIN actor'[e] = Pr /\ \A p \in Pr : SoundOrNone(actor'[e][p])
    BY <1>2, <1>3, <1>4 DEF MachineInv, MachineTypes, SoundOrNone
  <2>2. up' \subseteq Daemon /\ alone' \in BOOLEAN
    BY <1>1 DEF MachineInv, MachineTypes
  <2> QED BY <1>1, <1>4, <2>1, <2>2 DEF MachineInv, MachineTypes, SoundOrNone, Written
<1>6. ActorsHaveRows'
  BY <1>1, <1>2, <1>4 DEF MachineInv, ActorsHaveRows
<1>7. RowsOfTheOne'
  <2> SUFFICES ASSUME alone /\ up = {} PROVE RowsOfTheOne'
    BY <1>1 DEF RowsOfTheOne
  <2>1. up' = {d}
    BY <1>1
  <2>2. ASSUME NEW e \in Daemon, NEW p \in Pr, actor'[e][p] # NoActor PROVE row'[p] = Row(actor'[e][p])
    <3>1. e = d
      BY <1>4, <2>2 DEF MachineInv, ActorsHaveRows
    <3> QED BY <1>1, <1>2, <1>4, <2>2, <3>1
  <2> QED BY <2>1, <2>2 DEF RowsOfTheOne
<1> QED BY <1>1, <1>5, <1>6, <1>7 DEF MachineInv, Watched

LEMMA SubscribeKeeps ==
  ASSUME MachineInv, NEW s \in Session, NEW p \in Pr, Subscribe(s, p)
  PROVE  MachineInv' /\ Watched \subseteq Watched'
<1>1. /\ row' = [row EXCEPT ![p] = IF row[p] = NoActor THEN Stopped ELSE row[p]]
      /\ UNCHANGED <<up, alone, actor>>
  BY DEF Subscribe, process
<1>2. Sound(Stopped) /\ Stopped.count = 0 /\ Stopped # NoActor
  BY FailuresBound DEF Stopped, Sound, Records, States, Deadlines, NoActor
<1>3. /\ DOMAIN row' = Pr
      /\ \A q \in Pr : row'[q] = row[q] \/ (row[q] = NoActor /\ row'[q] = Stopped)
  BY <1>1 DEF MachineInv, MachineTypes
<1> HIDE DEF Stopped
<1>4. MachineTypes'
  BY <1>1, <1>2, <1>3 DEF MachineInv, MachineTypes, SoundOrNone, Written
<1>5. ActorsHaveRows'
  BY <1>1, <1>2, <1>3 DEF MachineInv, ActorsHaveRows
<1>6. RowsOfTheOne'
  BY <1>1, <1>3 DEF MachineInv, RowsOfTheOne, ActorsHaveRows
<1>7. Watched \subseteq Watched'
  BY <1>2, <1>3 DEF Watched
<1> QED BY <1>4, <1>5, <1>6, <1>7 DEF MachineInv

(* A deadline passes in the row as it does in the machine *)
LEMMA PassedIs ==
  ASSUME NEW w, Sound(w), NEW S
  PROVE  Sound(Passed(w, S)) /\ Passed(Row(w), S) = Row(Passed(w, S)) /\ Passed(w, S).count = w.count
<1> DEFINE due(x) == IF x = "future" THEN "past" ELSE x
           a == due(w.idle)
           b == due(w.next)
           r == Row(w)
<1>1. w \in Records /\ w # NoActor /\ Is(r, w.state, 0, w.idle, w.next, w.failures)
  BY SoundIsSome, RowIs DEF Sound
<1>2. r # NoActor /\ r.state = w.state
  BY <1>1, RowSound, SoundIsSome DEF Is
<1>3. CASE w.state \notin S
  <2>1. Passed(w, S) = w /\ Passed(r, S) = r
    BY <1>2, <1>3 DEF Passed
  <2> QED BY <2>1
<1>4. CASE w.state \in S
  <2>1. Passed(w, S) = [w EXCEPT !.idle = a, !.next = b]
    BY <1>1, <1>4 DEF Passed
  <2>2. Passed(r, S) = [r EXCEPT !.idle = a, !.next = b]
    <3>1. r.idle = w.idle /\ r.next = w.next
      BY <1>1 DEF Is
    <3>2. Passed(r, S) = [r EXCEPT !.idle = due(r.idle), !.next = due(r.next)]
      BY <1>2, <1>4 DEF Passed
    <3> QED BY <3>1, <3>2
  <2>3. a \in Deadlines /\ b \in Deadlines /\ (w.idle = "none" => a = "none") /\ (w.next = "none" => b = "none")
    BY <1>1 DEF Records, Deadlines
  <2> HIDE DEF a, b, r
  <2>4. Is(Passed(w, S), w.state, w.count, a, b, w.failures)
    BY <1>1, <2>1, <2>3 DEF Is, Records, States, Deadlines
  <2>5. Is(Passed(r, S), w.state, 0, a, b, w.failures)
    BY <1>1, <2>2, <2>3 DEF Is, Records, States, Deadlines
  <2>6. Is(Row(Passed(w, S)), w.state, 0, a, b, w.failures)
    BY <2>4, RowIs DEF Is
  <2>7. Sound(Passed(w, S))
    BY <2>3, <2>4 DEF Sound, Is
  <2>8. Passed(r, S) = Row(Passed(w, S))
    BY <2>5, <2>6, IsOne
  <2> QED BY <2>4, <2>7, <2>8 DEF Is, r
<1> QED BY <1>3, <1>4

LEMMA PassKeeps ==
  ASSUME MachineInv, NEW P \in SUBSET Pr, NEW S, Pass(P, S), UNCHANGED <<up, alone>>
  PROVE  MachineInv' /\ Watched \subseteq Watched'
<1>1. /\ DOMAIN row' = Pr /\ \A p \in Pr : row'[p] = IF p \in P THEN Passed(row[p], S) ELSE row[p]
      /\ DOMAIN actor' = Daemon
      /\ \A d \in Daemon : /\ DOMAIN actor'[d] = Pr
                           /\ \A p \in Pr : actor'[d][p] = IF p \in P THEN Passed(actor[d][p], S) ELSE actor[d][p]
  BY DEF Pass
<1>2. Passed(NoActor, S) = NoActor
  BY DEF Passed
<1>3. ASSUME NEW p \in Pr PROVE Written(row'[p]) /\ (row'[p] = NoActor <=> row[p] = NoActor)
  <2>1. CASE row[p] = NoActor
    BY <1>1, <1>2, <2>1 DEF Written, SoundOrNone
  <2>2. CASE row[p] # NoActor
    <3>1. Sound(row[p]) /\ row[p].count = 0
      BY <2>2 DEF MachineInv, MachineTypes, Written, SoundOrNone
    <3>2. Sound(row'[p]) /\ row'[p].count = 0
      BY <1>1, <3>1, PassedIs
    <3> QED BY <2>2, <3>2, SoundIsSome DEF Written, SoundOrNone
  <2> QED BY <2>1, <2>2
<1>4. ASSUME NEW d \in Daemon, NEW p \in Pr
      PROVE  /\ SoundOrNone(actor'[d][p]) /\ (actor'[d][p] = NoActor <=> actor[d][p] = NoActor)
             /\ actor[d][p] # NoActor /\ row[p] = Row(actor[d][p]) => row'[p] = Row(actor'[d][p])
  <2>1. CASE actor[d][p] = NoActor
    BY <1>1, <1>2, <2>1 DEF SoundOrNone
  <2>2. CASE actor[d][p] # NoActor
    <3>1. Sound(actor[d][p])
      BY <2>2 DEF MachineInv, MachineTypes, SoundOrNone
    <3>2. Sound(actor'[d][p])
      BY <1>1, <3>1, PassedIs
    <3>3. row[p] = Row(actor[d][p]) => row'[p] = Row(actor'[d][p])
      BY <1>1, <3>1, PassedIs
    <3> QED BY <2>2, <3>2, <3>3, SoundIsSome DEF SoundOrNone
  <2> QED BY <2>1, <2>2
<1>5. MachineTypes'
  BY <1>1, <1>3, <1>4 DEF MachineInv, MachineTypes, SoundOrNone, Written
<1>6. ActorsHaveRows'
  BY <1>3, <1>4 DEF MachineInv, ActorsHaveRows
<1>7. RowsOfTheOne'
  BY <1>4 DEF MachineInv, RowsOfTheOne
<1>8. Watched \subseteq Watched'
  BY <1>3 DEF Watched
<1> QED BY <1>5, <1>6, <1>7, <1>8 DEF MachineInv

LEMMA MachineStep ==
  ASSUME WatchInv, SkipInv, [Next]_vars
  PROVE  MachineInv' /\ Watched \subseteq Watched'
<1> USE DEF WatchInv
<1>1. ASSUME NEW d \in Daemon, TickStart(d) PROVE MachineInv' /\ Watched \subseteq Watched'
  BY <1>1, StartKeeps
<1>2. ASSUME NEW d \in Daemon, ReconcileFails(d) \/ Throttle(d) PROVE MachineInv' /\ Watched \subseteq Watched'
  BY <1>2, ThrottleKeeps
<1>4. ASSUME NEW d \in Daemon, Apply(d) PROVE MachineInv' /\ Watched \subseteq Watched'
  BY <1>4, ApplyKeeps
<1>5. ASSUME NEW d \in Daemon, Crash(d) PROVE MachineInv' /\ Watched \subseteq Watched'
  BY <1>5, CrashKeeps
<1>6. ASSUME NEW d \in Daemon, Boot(d) PROVE MachineInv' /\ Watched \subseteq Watched'
  BY <1>6, BootKeeps
<1>7. ASSUME NEW s \in Session, NEW p \in Pr, Subscribe(s, p) PROVE MachineInv' /\ Watched \subseteq Watched'
  BY <1>7, SubscribeKeeps
<1>8. ASSUME NEW p \in Pr, Elapse(p) PROVE MachineInv' /\ Watched \subseteq Watched'
  BY <1>8, PassKeeps DEF Elapse
<1>9. CASE Reset
  BY <1>9, PassKeeps DEF Reset
<1>10. ASSUME UNCHANGED <<up, alone, row, actor>> PROVE MachineInv' /\ Watched \subseteq Watched'
  BY <1>10, MachinesIdle
<1>11. ASSUME NEW d \in Daemon, Fetch(d) \/ Respond(d) \/ FetchFails(d) PROVE MachineInv' /\ Watched \subseteq Watched'
  BY <1>10, <1>11 DEF Fetch, Respond, FetchFails, stored
<1>12. ASSUME NEW s \in Session, NEW p \in Pr, Unsubscribe(s, p) PROVE MachineInv' /\ Watched \subseteq Watched'
  BY <1>10, <1>12 DEF Unsubscribe, stored, process
<1>13. ASSUME NEW p \in Pr, Change(p) PROVE MachineInv' /\ Watched \subseteq Watched'
  BY <1>10, <1>13 DEF Change, stored, process
<1>14. CASE Switch \/ UNCHANGED vars
  BY <1>10, <1>14 DEF Switch, vars, stored, process
<1> QED BY <1>1, <1>2, <1>4, <1>5, <1>6, <1>7, <1>8, <1>9, <1>11, <1>12, <1>13, <1>14 DEF Next

TargetsAfter ==
  \A e \in Daemon : /\ tick'[e].todo \subseteq Watched
                    /\ tick'[e].phase \in {"fetching", "answered"} => tick'[e].pr \in Watched

(* A tick goes on with targets it already had *)
LEMMA TargetsStep ==
  ASSUME WatchInv, SkipInv, [Next]_vars
  PROVE  TargetsAfter
<1>1. tick \in [Daemon -> Ticks] /\ \A d \in Daemon : Targets(tick[d])
  BY DEF WatchInv, SkipInv, SkipTypes
<1>2. ASSUME NEW d \in Daemon, NEW t, Targets(t), tick' = [tick EXCEPT ![d] = t] PROVE TargetsAfter
  <2>1. \A e \in Daemon : tick'[e] = IF e = d THEN t ELSE tick[e]
    BY <1>1, <1>2
  <2> QED BY <1>1, <1>2, <2>1 DEF Targets, TargetsAfter
<1>3. ASSUME UNCHANGED tick PROVE TargetsAfter
  BY <1>1, <1>3 DEF Targets, TargetsAfter
<1>4. ASSUME NEW d \in Daemon PROVE Targets(NextTarget(d)) /\ Targets(Idle)
  BY <1>1 DEF Targets, NextTarget, Idle
<1>5. ASSUME NEW d \in Daemon, Abort(d) \/ Continue(d) PROVE TargetsAfter
  BY <1>2, <1>4, <1>5 DEF Abort, Continue
<1>6. ASSUME NEW d \in Daemon, TickStart(d) PROVE TargetsAfter
  <2> DEFINE after == [p \in Pr |-> IF p \in Watched THEN Reconciled(d, p) ELSE NoActor]
             targets == {p \in Watched : Due(after[p])}
             t == [Idle EXCEPT !.todo = targets, !.phase = IF targets = {} THEN "idle" ELSE "fetch"]
  <2>1. tick' = [tick EXCEPT ![d] = t] /\ targets \subseteq Watched
    BY <1>6 DEF TickStart
  <2> HIDE DEF targets
  <2>2. Targets(t)
    BY <2>1 DEF Targets, Idle
  <2> HIDE DEF t
  <2> QED BY <1>2, <2>1, <2>2
<1>7. ASSUME NEW d \in Daemon, Fetch(d) PROVE TargetsAfter
  <2>1. PICK p \in tick[d].todo :
          tick' = [tick EXCEPT ![d] = [tick[d] EXCEPT !.phase = "fetching", !.pr = p, !.todo = tick[d].todo \ {p},
                                                      !.prev = snapshot[p], !.tag = etag[p]]]
    BY <1>7 DEF Fetch
  <2> DEFINE t == [tick[d] EXCEPT !.phase = "fetching", !.pr = p, !.todo = tick[d].todo \ {p},
                                  !.prev = snapshot[p], !.tag = etag[p]]
  <2>2. Targets(t)
    BY <1>1 DEF Targets, Ticks
  <2> HIDE DEF t
  <2>3. tick' = [tick EXCEPT ![d] = t]
    BY <2>1 DEF t
  <2> QED BY <1>2, <2>2, <2>3
<1>8. ASSUME NEW d \in Daemon, NEW a, tick[d].phase = "fetching", Answered(d, a) PROVE TargetsAfter
  <2> DEFINE t == [tick[d] EXCEPT !.phase = "answered", !.answer = a]
  <2>1. tick' = [tick EXCEPT ![d] = t]
    BY <1>8 DEF Answered
  <2>2. Targets(t)
    BY <1>1, <1>8 DEF Targets, Ticks
  <2> HIDE DEF t
  <2> QED BY <1>2, <2>1, <2>2
<1>9. ASSUME NEW d \in Daemon, Respond(d) \/ FetchFails(d) PROVE TargetsAfter
  <2>1. tick[d].phase = "fetching" /\ \E a : Answered(d, a)
    BY <1>9 DEF Respond, FetchFails
  <2> QED BY <1>8, <2>1
<1>10. ASSUME NEW d \in Daemon, Apply(d) \/ Crash(d) PROVE Abort(d) \/ Continue(d)
  BY <1>10, OutcomeMovesOn DEF Apply, Unchanged, Failed, Save, SaveTerminal, Crash
<1>11. ASSUME NEW d \in Daemon, ReconcileFails(d) \/ Throttle(d) \/ Boot(d) PROVE UNCHANGED tick
  BY <1>11 DEF ReconcileFails, Throttle, Boot
<1>12. ASSUME NEW s \in Session, NEW p \in Pr, Subscribe(s, p) \/ Unsubscribe(s, p) PROVE UNCHANGED tick
  BY <1>12 DEF Subscribe, Unsubscribe, process
<1>13. ASSUME NEW p \in Pr, Change(p) \/ Elapse(p) PROVE UNCHANGED tick
  BY <1>13 DEF Change, Elapse, process
<1>14. CASE Switch \/ Reset \/ UNCHANGED vars
  BY <1>3, <1>14 DEF Switch, Reset, vars, process
<1> QED BY <1>3, <1>5, <1>6, <1>7, <1>9, <1>10, <1>11, <1>12, <1>13, <1>14 DEF Next

LEMMA WatchStep == WatchInv /\ SkipInv /\ [Next]_vars => WatchInv'
<1> SUFFICES ASSUME WatchInv, SkipInv, [Next]_vars PROVE WatchInv'
  OBVIOUS
<1> QED BY MachineStep, TargetsStep DEF WatchInv, Targets, TargetsAfter

(* A restart makes of every row the machine it was written from, and while one      *)
(* process runs at a time no machine is ahead of its row, whichever write of a row, *)
(* a snapshot or an ETag failed and whenever the process died.                      *)
THEOREM RowsStayAuthoritative == Spec => []RowsAreAuthoritative
<1>1. WatchInv => RowsAreAuthoritative
  <2> SUFFICES ASSUME WatchInv, NEW p \in Pr, row[p] # NoActor
               PROVE  /\ Durable(Restored(row[p], Count(p))) = Durable(row[p])
                      /\ alone => \A d \in Daemon : actor[d][p] # NoActor => Durable(actor[d][p]) = Durable(row[p])
    BY DEF RowsAreAuthoritative
  <2>1. Sound(row[p])
    BY DEF WatchInv, MachineInv, MachineTypes, Written, SoundOrNone
  <2>2. Durable(Restored(row[p], Count(p))) = Durable(row[p])
    BY <2>1, CountIsNat, RestoredIsTheRow
  <2>3. ASSUME alone, NEW d \in Daemon, actor[d][p] # NoActor PROVE Durable(actor[d][p]) = Durable(row[p])
    <3>1. Sound(actor[d][p]) /\ row[p] = Row(actor[d][p])
      BY <2>3 DEF WatchInv, MachineInv, MachineTypes, RowsOfTheOne, SoundOrNone
    <3> QED BY <3>1, RowSound
  <2> QED BY <2>2, <2>3
<1> QED BY <1>1, InitWatch, WatchStep, InitSkip, SkipStep, PTL DEF Spec
=============================================================================
