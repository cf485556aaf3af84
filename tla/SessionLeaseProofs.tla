------------------------- MODULE SessionLeaseProofs -------------------------
(***************************************************************************)
(* Proofs about SessionLease, for any number of clients of either          *)
(* protocol, requests and daemons: a generation has one holder, work is    *)
(* done in the order of generations, and the end of one client's session   *)
(* is not the end of another's.                                            *)
(***************************************************************************)
EXTENDS SessionLease, TLAPS

RowType == [owner: Daemon \cup {0}, gen: Nat, nonce: Nonce \cup {None}, token: Nat, left: 0..TTL]

(* What the generations need: none beyond the row's was given to anybody, the row's *)
(* belongs to who holds the lease, and no work was done under a later one.          *)
GenerationsInv ==
  /\ lease \in RowType /\ lease.gen < nextToken
  /\ daemon \in Daemon
  /\ nextToken \in Nat
  /\ holder \in [Tokens -> Nonce \cup {None}]
  /\ lastGen \in Nat /\ lastGen <= lease.gen
  /\ \A g \in Tokens : g > lease.gen => holder[g] = None
  /\ lease.owner # 0 => lease.gen \in Tokens /\ holder[lease.gen] = lease.nonce
  /\ \A r \in late : r.kind = "claim" => r.client \in Client

LEMMA GenerationsInit == Init => GenerationsInv
  BY NoneAssumption, BoundAssumption
     DEF Init, GenerationsInv, RowType, NoRow, Tokens, Daemon, Nonce

-----------------------------------------------------------------------------
(* The three kinds of steps                                                  *)

(* Nobody is granted anything: the lease goes on, ends or is renewed *)
Passive ==
  /\ lease' \in RowType /\ lease'.gen = lease.gen
  /\ lease'.owner # 0 => lease'.owner = lease.owner /\ lease'.nonce = lease.nonce
  /\ UNCHANGED <<nextToken, holder>>
  /\ lastGen' \in {lastGen, lease.gen}

(* Somebody is granted the lease: its holder again, or the next generation *)
Taken ==
  \E owner \in Daemon, nonce \in Nonce, gen \in {lease.gen, lease.gen + 1} :
    /\ Grant(owner, gen, nonce)
    /\ gen = lease.gen => SameClaimant(owner, nonce)
    /\ lastGen' \in {lastGen, gen}

(* The lease is granted and released again: nobody holds the next generation *)
Dropped ==
  /\ lease' = [NoRow EXCEPT !.gen = lease.gen + 1]
  /\ nextToken \in Tokens /\ nextToken' = nextToken + 1
  /\ holder' = [holder EXCEPT ![lease.gen + 1] = nextToken]
  /\ UNCHANGED lastGen

RowStep == Passive \/ Taken \/ Dropped

LEMMA ClaimIsTaken ==
  ASSUME GenerationsInv, NEW owner \in Daemon, NEW nonce \in Nonce,
         ClaimSessionLease(owner, nonce), lastGen' \in {lastGen, lease'.gen}
  PROVE  Taken
<1> DEFINE gen == IF SameClaimant(owner, nonce) THEN lease.gen ELSE lease.gen + 1
<1>1. Grant(owner, gen, nonce) /\ gen \in {lease.gen, lease.gen + 1}
  BY DEF ClaimSessionLease
<1>2. gen = lease.gen => SameClaimant(owner, nonce)
  BY DEF GenerationsInv, RowType
<1>3. lastGen' \in {lastGen, gen}
  <2>1. lease'.gen = gen
    BY <1>1 DEF Grant
  <2> QED BY <2>1
<1> QED BY <1>1, <1>2, <1>3 DEF Taken

LEMMA TransferIsTaken ==
  ASSUME GenerationsInv, NEW l, NEW owner \in Daemon, NEW nonce \in Nonce,
         TransferSessionLease(l, owner, nonce), lastGen' \in {lastGen, lease'.gen}
  PROVE  Taken
<1>1. l.gen = lease.gen
  BY DEF TransferSessionLease, Valid, Held
<1>2. Grant(owner, lease.gen + 1, nonce)
  BY <1>1 DEF TransferSessionLease
<1>3. lease'.gen = lease.gen + 1 /\ lease.gen + 1 # lease.gen
  BY <1>2 DEF Grant, GenerationsInv, RowType
<1> QED BY <1>2, <1>3 DEF Taken

LEMMA SameIsPassive ==
  ASSUME GenerationsInv, UNCHANGED <<lease, nextToken, holder, lastGen>> PROVE Passive
  BY DEF GenerationsInv, Passive

LEMMA ClearedIsPassive ==
  ASSUME GenerationsInv, lease' = Cleared, UNCHANGED <<nextToken, holder>>,
         lastGen' \in {lastGen, lease.gen}
  PROVE  Passive /\ lease'.owner = 0
<1> DEFINE r1 == [lease EXCEPT !.owner = 0]
           r2 == [r1 EXCEPT !.nonce = None]
           r3 == [r2 EXCEPT !.token = 0]
           r4 == [r3 EXCEPT !.left = 0]
<1>1. r1 \in RowType /\ r1.gen = lease.gen /\ r1.owner = 0
  BY DEF GenerationsInv, RowType
<1> HIDE DEF r1
<1>2. r2 \in RowType /\ r2.gen = lease.gen /\ r2.owner = 0
  BY <1>1 DEF RowType
<1> HIDE DEF r2
<1>3. r3 \in RowType /\ r3.gen = lease.gen /\ r3.owner = 0
  BY <1>2 DEF RowType
<1> HIDE DEF r3
<1>4. r4 \in RowType /\ r4.gen = lease.gen /\ r4.owner = 0
  BY <1>3, BoundAssumption DEF RowType
<1>5. Cleared = r4
  BY DEF Cleared, r1, r2, r3
<1> QED BY <1>4, <1>5 DEF Passive

(* What a request does, if its token is valid, is done under the generation of the row *)
LEMMA WorkIsPassive ==
  ASSUME GenerationsInv, NEW kind, NEW l, Valid(l), Apply(kind, l)
  PROVE  /\ Passive
         /\ status = "active" /\ status' \in {"detached", "closed"} => lease'.owner = 0
<1>1. lastGen' = lease.gen /\ UNCHANGED <<nextToken, holder>>
  BY DEF Apply, Valid, Held
<1>2. CASE UNCHANGED lease
  <2>1. Passive
    BY <1>1, <1>2 DEF GenerationsInv, Passive
  <2>2. status' \in {status, "active"} \/ lease' = Cleared
    BY DEF Apply
  <2>3. lease' = Cleared => lease'.owner = 0
    BY <1>1, ClearedIsPassive
  <2> QED BY <2>1, <2>2, <2>3
<1>3. CASE lease' = Cleared
  BY <1>1, <1>3, ClearedIsPassive
<1>4. CASE kind = "renew" /\ lease' = [lease EXCEPT !.left = TTL] /\ UNCHANGED status
  <2>1. /\ lease' \in RowType /\ lease'.gen = lease.gen
        /\ lease'.owner = lease.owner /\ lease'.nonce = lease.nonce
    BY <1>4, BoundAssumption DEF GenerationsInv, RowType
  <2> QED BY <1>1, <1>4, <2>1 DEF Passive
<1> QED BY <1>2, <1>3, <1>4 DEF Apply

-----------------------------------------------------------------------------
(* A step of the model changes the row in one of the three ways; the session   *)
(* is detached or closed only with the lease, or because it is idle; requests  *)
(* that are late are typed                                                     *)
Kept ==
  /\ RowStep
  /\ status = "active" /\ status' \in {"detached", "closed"} =>
       lease'.owner = 0 \/ ReapStaleSession
  /\ daemon' \in Daemon
  /\ \A r \in late' : r.kind = "claim" => r.client \in Client

LEMMA RequestIsKept ==
  ASSUME GenerationsInv, NEW c \in Client, NEW o \in Op, Request(c, o) PROVE Kept
<1>1. ASSUME UNCHANGED <<rowVars, daemon, late>> PROVE Kept
  BY <1>1, SameIsPassive DEF Kept, RowStep, rowVars, GenerationsInv
<1>2. CASE ServeClaim(c, o)
  <2>1. CASE ClaimSessionLease(known[c], c)
    <3>1. known[c] \in Daemon /\ c \in Nonce
      BY <1>2 DEF ServeClaim, Routed, GenerationsInv, Nonce
    <3>2. Taken
      BY <1>2, <2>1, <3>1, ClaimIsTaken DEF ServeClaim
    <3> QED BY <1>2, <3>2 DEF ServeClaim, Kept, RowStep, GenerationsInv
  <2>2. CASE UNCHANGED <<lease, nextToken, holder>>
    BY <1>1, <1>2, <2>2 DEF ServeClaim, rowVars
  <2> QED BY <1>2, <2>1, <2>2 DEF ServeClaim
<1>3. CASE ServeRequest(c, o)
  <2>1. CASE UNCHANGED rowVars
    BY <1>1, <1>3, <2>1 DEF ServeRequest
  <2>2. ASSUME Served(What(c, o), call[c][o].lease), Apply(What(c, o), call[c][o].lease) PROVE Kept
    BY <1>3, <2>2, WorkIsPassive DEF ServeRequest, Served, Kept, RowStep, GenerationsInv
  <2> QED BY <1>3, <2>1, <2>2 DEF ServeRequest, Untouched
<1>4. CASE ServeActivation(c, o)
  <2>1. CASE UNCHANGED rowVars
    BY <1>1, <1>4, <2>1 DEF ServeActivation
  <2>2. ASSUME Served("activate", call[c][o].lease), Apply("activate", call[c][o].lease) PROVE Kept
    BY <1>4, <2>2, WorkIsPassive DEF ServeActivation, Served, Kept, RowStep, GenerationsInv
  <2> QED BY <1>4, <2>1, <2>2 DEF ServeActivation, Untouched
<1>5. CASE Abandon(c, o)
  <2>1. \A r \in late' : r.kind = "claim" => r.client \in Client
    BY <1>5 DEF Abandon, GenerationsInv
  <2> QED BY <1>5, <2>1, SameIsPassive DEF Abandon, Kept, RowStep, rowVars, GenerationsInv
<1>6. CASE \/ \E kind \in Kind : Begin(c, o, kind)
           \/ Send(c, o) \/ LearnLease(c, o) \/ Answered(c, o) \/ Failed(c, o)
           \/ NoRoute(c, o) \/ Reconnect(c, o)
  BY <1>1, <1>6 DEF Begin, Send, LearnLease, Answered, Failed, NoRoute, Reconnect
<1> QED BY <1>2, <1>3, <1>4, <1>5, <1>6 DEF Request

LEMMA LateIsKept == ASSUME GenerationsInv, ServeLate PROVE Kept
<1>1. PICK r \in late :
        /\ late' = late \ {r}
        /\ \/ /\ r.kind = "claim" /\ UNCHANGED <<status, lastGen>>
              /\ ClaimSessionLease(daemon, r.client) \/ UNCHANGED <<lease, nextToken, holder>>
           \/ Served(r.kind, r.lease) /\ Apply(r.kind, r.lease)
           \/ UNCHANGED rowVars
        /\ UNCHANGED daemon
  BY DEF ServeLate, Untouched
<1>2. (\A q \in late' : q.kind = "claim" => q.client \in Client) /\ daemon' \in Daemon
  BY <1>1 DEF GenerationsInv
<1>3. CASE r.kind = "claim" /\ UNCHANGED <<status, lastGen>> /\ ClaimSessionLease(daemon, r.client)
  <2>1. daemon \in Daemon /\ r.client \in Nonce
    BY <1>3 DEF GenerationsInv, Nonce
  <2>2. Taken
    BY <1>3, <2>1, ClaimIsTaken
  <2> QED BY <1>2, <1>3, <2>2 DEF Kept, RowStep
<1>4. CASE Served(r.kind, r.lease) /\ Apply(r.kind, r.lease)
  BY <1>2, <1>4, WorkIsPassive DEF Served, Kept, RowStep
<1>5. CASE UNCHANGED rowVars
  BY <1>2, <1>5, SameIsPassive DEF Kept, RowStep, rowVars
<1> QED BY <1>1, <1>3, <1>4, <1>5 DEF rowVars

LEMMA ProxiedIsKept == ASSUME GenerationsInv, Proxied PROVE Kept
<1>1. UNCHANGED <<daemon, late>>
  BY DEF Proxied, ProxyRegister, ProxyRegisterRefused, ProxyHeartbeat, ProxyWork, ProxyUnregister,
         clientVars
<1>2. ASSUME RowStep, status = "active" /\ status' \in {"detached", "closed"} => lease'.owner = 0 PROVE Kept
  BY <1>1, <1>2 DEF Kept, GenerationsInv
<1>3. ASSUME NEW kind, Valid(proxy.lease), Apply(kind, proxy.lease) PROVE Kept
  BY <1>2, <1>3, WorkIsPassive DEF RowStep
<1>4. ASSUME Untouched PROVE Kept
  BY <1>2, <1>4, SameIsPassive DEF Untouched, rowVars, RowStep
<1>5. ASSUME NEW l \in OldClient, ProxyRegister(l) PROVE Kept
  <2>1. daemon \in Daemon /\ nextToken \in Nonce
    BY DEF GenerationsInv, Nonce
  <2>2. Taken
    BY <1>5, <2>1, ClaimIsTaken, TransferIsTaken DEF ProxyRegister
  <2> QED BY <1>2, <1>5, <2>2 DEF ProxyRegister, RowStep
<1>6. CASE ProxyRegisterRefused
  BY <1>2, <1>6 DEF ProxyRegisterRefused, Dropped, RowStep
<1> QED BY <1>3, <1>4, <1>5, <1>6 DEF Proxied, ProxyHeartbeat, ProxyWork, ProxyUnregister, Served

LEMMA NextIsKept == ASSUME GenerationsInv, Next PROVE Kept
<1>1. ASSUME NEW c \in Client, Initialize(c) PROVE Kept
  BY <1>1, SameIsPassive DEF Initialize, Kept, RowStep, rowVars, GenerationsInv
<1>2. CASE Restart
  <2>1. daemon' \in Daemon
    BY <1>2, BoundAssumption DEF Restart, Daemon, GenerationsInv
  <2> QED BY <1>2, <2>1, ClearedIsPassive DEF Restart, Kept, RowStep
<1>3. CASE PruneClosedSession
  BY <1>3, SameIsPassive DEF PruneClosedSession, clientVars, Kept, RowStep, GenerationsInv
<1>5. CASE ReapStaleSession
  <2>1. UNCHANGED <<lease, nextToken, holder, lastGen, daemon, late>>
    BY <1>5 DEF ReapStaleSession, clientVars
  <2> QED BY <1>5, <2>1, SameIsPassive DEF Kept, RowStep, GenerationsInv
<1>4. CASE Tick
  <2>1. lease' = [lease EXCEPT !.left = IF lease.left > 0 THEN lease.left - 1 ELSE 0]
    BY <1>4 DEF Tick
  <2>2. /\ lease' \in RowType /\ lease'.gen = lease.gen
        /\ lease'.owner = lease.owner /\ lease'.nonce = lease.nonce
    BY <2>1, BoundAssumption DEF GenerationsInv, RowType
  <2> QED BY <1>4, <2>2 DEF Tick, clientVars, Kept, RowStep, Passive, GenerationsInv
<1> QED BY <1>1, <1>2, <1>3, <1>4, <1>5, RequestIsKept, LateIsKept, ProxiedIsKept DEF Next

-----------------------------------------------------------------------------
(* What the three kinds of steps keep                                        *)

Ordered ==
  /\ lastGen' >= lastGen
  /\ \A g \in Tokens : holder[g] # None => holder'[g] = holder[g]

LEMMA PassiveKeeps == ASSUME GenerationsInv, Kept, Passive PROVE GenerationsInv' /\ Ordered
  BY DEF GenerationsInv, Kept, Passive, Ordered, RowType

LEMMA TakenKeeps == ASSUME GenerationsInv, Kept, Taken PROVE GenerationsInv' /\ Ordered
<1>1. PICK owner \in Daemon, nonce \in Nonce, gen \in {lease.gen, lease.gen + 1} :
        /\ Grant(owner, gen, nonce)
        /\ gen = lease.gen => SameClaimant(owner, nonce)
        /\ lastGen' \in {lastGen, gen}
  BY DEF Taken
<1>2. /\ nextToken \in Tokens /\ nextToken' = nextToken + 1
      /\ lease' = [owner |-> owner, gen |-> gen, nonce |-> nonce, token |-> nextToken, left |-> TTL]
      /\ holder' = [holder EXCEPT ![gen] = nonce]
  BY <1>1 DEF Grant
<1>3. lease.gen \in Nat /\ lease.gen < nextToken /\ nextToken \in Nat
  BY DEF GenerationsInv, RowType
<1>4. gen = lease.gen => lease.owner # 0 /\ lease.nonce = nonce
  BY <1>1, BoundAssumption DEF SameClaimant, Active
<1>5. gen \in Tokens /\ gen <= nextToken /\ gen >= lease.gen
  BY <1>2, <1>3, <1>4, BoundAssumption DEF GenerationsInv, Tokens
<1>6. holder[gen] \in {None, nonce}
  BY <1>3, <1>4, <1>5 DEF GenerationsInv
<1>7. lease' \in RowType /\ lease'.gen = gen /\ lease'.nonce = nonce /\ gen < nextToken'
  BY <1>2, <1>3, <1>5, BoundAssumption DEF RowType, Tokens
<1>8. holder' \in [Tokens -> Nonce \cup {None}] /\ holder'[gen] = nonce
  BY <1>2, <1>5 DEF GenerationsInv
<1>9. \A g \in Tokens : g > gen => holder'[g] = None
  BY <1>2, <1>3, <1>5 DEF GenerationsInv, Tokens
<1>10. lastGen' \in Nat /\ lastGen' <= gen /\ lastGen' >= lastGen
  BY <1>1, <1>3, <1>5 DEF GenerationsInv, Tokens
<1>11. GenerationsInv'
  BY <1>2, <1>3, <1>5, <1>7, <1>8, <1>9, <1>10 DEF GenerationsInv, Kept
<1>12. \A g \in Tokens : holder[g] # None => holder'[g] = holder[g]
  BY <1>2, <1>5, <1>6 DEF GenerationsInv
<1> QED BY <1>10, <1>11, <1>12 DEF Ordered

LEMMA DroppedKeeps == ASSUME GenerationsInv, Kept, Dropped PROVE GenerationsInv' /\ Ordered
<1> DEFINE next == lease.gen + 1
<1>1. lease.gen \in Nat /\ nextToken \in Nat /\ lease.gen < nextToken /\ nextToken <= MaxTokens
  BY DEF GenerationsInv, RowType, Dropped, Tokens
<1>2. next \in Tokens /\ next > lease.gen /\ next < nextToken' /\ nextToken' \in Nat
  BY <1>1, BoundAssumption DEF Dropped, Tokens
<1>3. lease' = [owner |-> 0, gen |-> next, nonce |-> None, token |-> 0, left |-> 0]
  BY DEF Dropped, NoRow
<1>4. lease' \in RowType /\ lease'.gen = next /\ lease'.owner = 0
  BY <1>1, <1>3, BoundAssumption DEF RowType
<1>5. nextToken \in Nonce /\ holder' = [holder EXCEPT ![next] = nextToken] /\ lastGen' = lastGen
  BY <1>1 DEF Dropped, Nonce
<1> HIDE DEF next
<1>6. holder' \in [Tokens -> Nonce \cup {None}]
  BY <1>5 DEF GenerationsInv
<1>7. \A g \in Tokens : g > next => holder'[g] = None
  BY <1>1, <1>2, <1>5 DEF GenerationsInv, Tokens
<1>8. lastGen' \in Nat /\ lastGen' <= next /\ lastGen' >= lastGen
  BY <1>1, <1>2, <1>5 DEF GenerationsInv, Tokens
<1>9. GenerationsInv'
  BY <1>2, <1>4, <1>6, <1>7, <1>8 DEF GenerationsInv, Kept
<1>10. holder[next] = None
  BY <1>2 DEF GenerationsInv
<1>11. \A g \in Tokens : holder[g] # None => holder'[g] = holder[g]
  BY <1>2, <1>5, <1>10 DEF GenerationsInv
<1> QED BY <1>8, <1>9, <1>11 DEF Ordered

LEMMA StepKeepsGenerations ==
  ASSUME GenerationsInv, [Next]_vars
  PROVE  /\ GenerationsInv' /\ Ordered
         /\ status = "active" /\ status' \in {"detached", "closed"} =>
              lease'.owner = 0 \/ ReapStaleSession
<1>1. CASE Next
  BY <1>1, NextIsKept, PassiveKeeps, TakenKeeps, DroppedKeeps DEF Kept, RowStep
<1>2. CASE UNCHANGED vars
  <2>1. GenerationsInv' /\ Ordered
    BY <1>2 DEF vars, GenerationsInv, Ordered
  <2> QED BY <1>2, <2>1 DEF vars
<1> QED BY <1>1, <1>2

LEMMA GenerationsInvariant == Spec => []GenerationsInv
<1>1. GenerationsInv /\ [Next]_vars => GenerationsInv'
  BY StepKeepsGenerations
<1> QED BY GenerationsInit, <1>1, PTL DEF Spec

-----------------------------------------------------------------------------
(* claimSessionLease, transferSessionLease (src/src/daemon/persistence/store.ts): no *)
(* generation is claimed for a second holder, over releases, expiry, restarts, and   *)
(* registrations through the proxy.                                                  *)
THEOREM GenerationHasOneHolder == Spec => GenerationNamesOneHolder
<1>1. GenerationsInv /\ [Next]_vars =>
        [\A g \in 1..MaxTokens : holder[g] # None => holder'[g] = holder[g]]_vars
  BY StepKeepsGenerations DEF Ordered, Tokens
<1> QED BY GenerationsInvariant, <1>1, PTL DEF Spec, GenerationNamesOneHolder

(* withSessionLease: work that takes effect is never of an earlier generation than work *)
(* done before, whichever requests are under way, given up or waiting for Git.          *)
THEOREM WorkIsOrdered == Spec => WorkInGenerationOrder
<1>1. GenerationsInv /\ [Next]_vars => [lastGen' >= lastGen]_vars
  BY StepKeepsGenerations DEF Ordered
<1> QED BY GenerationsInvariant, <1>1, PTL DEF Spec, WorkInGenerationOrder

(* unregisterSession, deleteSession, recoverFromRestart: an attached session is detached *)
(* or closed only together with the lease it was served under; reapStaleSessions, which  *)
(* does not look at leases, detaches an idle one and does nothing else.                  *)
THEOREM OwnersStayAttached == Spec => OwnerNotDetached
<1>1. GenerationsInv /\ [Next]_vars =>
        [status = "active" /\ status' \in {"detached", "closed"} =>
           lease'.owner = 0 \/ ReapStaleSession]_vars
  BY StepKeepsGenerations
<1> QED BY GenerationsInvariant, <1>1, PTL DEF Spec, OwnerNotDetached

-----------------------------------------------------------------------------
(* The proxy's lease.  The tokens current clients hold are of their own nonces, *)
(* so that none of their requests renews, releases or ends a lease of the proxy. *)

ClientToken == [owner: Daemon \cup {0}, gen: Nat, nonce: Client \cup {None}, token: Nat]

Phases == {"idle", "start", "claiming", "claimed", "refused", "sent", "checked", "done", "failed", "broken"}

CallType == [phase: Phases, kind: Kind, replay: BOOLEAN, lease: ClientToken, payload: ClientToken]

TokensInv ==
  /\ known \in [Client -> Daemon \cup {0}]
  /\ cached \in [Client -> ClientToken]
  /\ attached \in [Client -> BOOLEAN]
  /\ call \in [Client -> [Op -> CallType]]
  /\ \A r \in late : r.kind # "claim" => r.lease \in ClientToken

(* The proxy knows the lease it holds, for as long as the lease lasts *)
ProxyInv ==
  /\ proxy.left \in 0..TTL /\ proxy = [client |-> proxy.client, lease |-> proxy.lease, left |-> proxy.left]
  /\ Active /\ lease.nonce \in Nat =>
       proxy.client # None /\ proxy.lease = Held /\ proxy.left >= lease.left

LockInv == GenerationsInv /\ TokensInv /\ ProxyInv

LEMMA NoLeaseIsToken == NoLease \in ClientToken /\ NoCall \in CallType
<1>1. NoLease \in ClientToken
  BY DEF NoLease, ClientToken
<1>2. "idle" \in Phases /\ "work" \in Kind /\ FALSE \in BOOLEAN
  BY DEF Phases, Kind
<1> QED BY <1>1, <1>2 DEF NoCall, CallType

LEMMA LockInit == Init => LockInv
<1>1. ASSUME Init PROVE TokensInv /\ ProxyInv
  <2>1. TokensInv
    BY <1>1, NoLeaseIsToken DEF Init, TokensInv
  <2>2. proxy = [client |-> None, lease |-> NoLease, left |-> 0] /\ lease.owner = 0
    BY <1>1 DEF Init, NoProxy, NoRow
  <2>3. ProxyInv
    BY <2>2, BoundAssumption DEF ProxyInv, Active
  <2> QED BY <2>1, <2>3
<1> QED BY <1>1, GenerationsInit DEF LockInv

(* A call whose phase alone changes *)
LEMMA GotoTyped ==
  ASSUME TokensInv, NEW c \in Client, NEW o \in Op, NEW phase \in Phases, Goto(c, o, phase)
  PROVE  call' \in [Client -> [Op -> CallType]]
<1>1. call[c][o] \in CallType
  BY DEF TokensInv
<1>2. [call[c][o] EXCEPT !.phase = phase] \in CallType
  BY <1>1 DEF CallType
<1>3. call' = [call EXCEPT ![c][o] = [call[c][o] EXCEPT !.phase = phase]]
  BY DEF Goto
<1> QED BY <1>2, <1>3 DEF TokensInv

LEMMA FinishTyped ==
  ASSUME TokensInv, NEW c \in Client, NEW o \in Op, Finish(c, o)
  PROVE  call' \in [Client -> [Op -> CallType]]
<1>1. call[c][o] \in CallType
  BY DEF TokensInv
<1>2. [call[c][o] EXCEPT !.phase = "start", !.replay = FALSE, !.lease = NoLease] \in CallType
  <2> DEFINE r1 == [call[c][o] EXCEPT !.phase = "start"]
             r2 == [r1 EXCEPT !.replay = FALSE]
             r3 == [r2 EXCEPT !.lease = NoLease]
  <2>1. r1 \in CallType
    BY <1>1 DEF CallType, Phases
  <2> HIDE DEF r1
  <2>2. r2 \in CallType
    BY <2>1 DEF CallType
  <2> HIDE DEF r2
  <2>3. r3 \in CallType
    BY <2>2, NoLeaseIsToken DEF CallType
  <2> QED BY <2>3 DEF r1, r2
<1> QED BY <1>1, <1>2, NoLeaseIsToken DEF Finish, TokensInv

LEMMA CallTyped ==
  ASSUME TokensInv, NEW c \in Client, NEW o \in Op, NEW r \in CallType
  PROVE  [call EXCEPT ![c][o] = r] \in [Client -> [Op -> CallType]]
  BY DEF TokensInv

LEMMA SentTyped ==
  ASSUME TokensInv, NEW c \in Client, NEW o \in Op, NEW phase \in Phases, NEW l \in ClientToken,
         call' = [call EXCEPT ![c][o].phase = phase, ![c][o].lease = l]
  PROVE  call' \in [Client -> [Op -> CallType]]
<1> DEFINE r1 == [call[c][o] EXCEPT !.phase = phase]
           r2 == [r1 EXCEPT !.lease = l]
<1>1. call[c][o] \in CallType
  BY DEF TokensInv
<1>2. r1 \in CallType
  BY <1>1 DEF CallType
<1> HIDE DEF r1
<1>3. r2 \in CallType
  BY <1>2 DEF CallType
<1> HIDE DEF r2
<1>4. call' = [call EXCEPT ![c][o] = r2]
  BY DEF TokensInv, r1, r2
<1>5. [call EXCEPT ![c][o] = r2] \in [Client -> [Op -> CallType]]
  BY <1>3, CallTyped
<1> QED BY <1>4, <1>5, Zenon

LEMMA BeginTyped ==
  ASSUME TokensInv, NEW c \in Client, NEW o \in Op, NEW kind \in Kind, Begin(c, o, kind)
  PROVE  TokensInv'
<1> DEFINE pay == IF kind \in AboutLease THEN cached[c] ELSE NoLease
           r1 == [NoCall EXCEPT !.phase = "start"]
           r2 == [r1 EXCEPT !.kind = kind]
           r3 == [r2 EXCEPT !.payload = pay]
<1>1. pay \in ClientToken
  BY NoLeaseIsToken DEF TokensInv
<1> HIDE DEF pay
<1>2. r1 \in CallType
  BY NoLeaseIsToken DEF CallType, Phases
<1> HIDE DEF r1
<1>3. r2 \in CallType
  BY <1>2 DEF CallType
<1> HIDE DEF r2
<1>4. r3 \in CallType
  BY <1>1, <1>3 DEF CallType
<1> HIDE DEF r3
<1>5. call' = [call EXCEPT ![c][o] = r3]
  BY DEF Begin, r1, r2, r3, pay
<1> QED BY <1>4, <1>5 DEF Begin, TokensInv

LEMMA ReconnectTyped ==
  ASSUME GenerationsInv, TokensInv, NEW c \in Client, NEW o \in Op, Reconnect(c, o)
  PROVE  TokensInv'
<1> DEFINE r1 == [call[c][o] EXCEPT !.phase = "start"]
           r2 == [r1 EXCEPT !.replay = attached[c]]
           r3 == [r2 EXCEPT !.lease = NoLease]
<1>1. call[c][o] \in CallType /\ attached[c] \in BOOLEAN
  BY DEF TokensInv
<1>2. r1 \in CallType
  BY <1>1 DEF CallType, Phases
<1> HIDE DEF r1
<1>3. r2 \in CallType
  BY <1>1, <1>2 DEF CallType
<1> HIDE DEF r2
<1>4. r3 \in CallType
  BY <1>3, NoLeaseIsToken DEF CallType
<1> HIDE DEF r3
<1>5. call' = [call EXCEPT ![c][o] = r3]
  BY DEF Reconnect, r1, r2, r3
<1>6. known' \in [Client -> Daemon \cup {0}]
  BY DEF Reconnect, TokensInv, GenerationsInv
<1>7. cached' \in [Client -> ClientToken]
  BY NoLeaseIsToken DEF Reconnect, Forgotten, TokensInv
<1> QED BY <1>4, <1>5, <1>6, <1>7 DEF Reconnect, TokensInv

LEMMA RequestTyped ==
  ASSUME GenerationsInv, TokensInv, NEW c \in Client, NEW o \in Op, Request(c, o)
  PROVE  TokensInv'
<1>0. call[c][o] \in CallType /\ call[c][o].lease \in ClientToken /\ call[c][o].payload \in ClientToken
  BY DEF TokensInv, CallType
<1>1. ASSUME UNCHANGED <<known, cached, attached, late>>, call' \in [Client -> [Op -> CallType]]
      PROVE  TokensInv'
  BY <1>1 DEF TokensInv
<1>2. CASE Send(c, o)
  <2>1. cached[c] \in ClientToken /\ "sent" \in Phases /\ "claiming" \in Phases
    BY DEF TokensInv, Phases
  <2>2. call' \in [Client -> [Op -> CallType]]
    BY <1>0, <1>2, <2>1, SentTyped, GotoTyped DEF Send
  <2> QED BY <1>1, <1>2, <2>2 DEF Send
<1>3. CASE ServeClaim(c, o)
  <2>1. CASE Goto(c, o, "refused")
    BY <1>1, <1>3, <2>1, GotoTyped DEF ServeClaim, Phases
  <2>2. CASE /\ ClaimSessionLease(known[c], c)
             /\ call' = [call EXCEPT ![c][o].phase = "claimed", ![c][o].lease =
                  [owner |-> lease'.owner, gen |-> lease'.gen, nonce |-> c, token |-> lease'.token]]
    <3>1. /\ lease'.owner = known[c] /\ lease'.token = nextToken
          /\ lease'.gen \in {lease.gen, lease.gen + 1}
      BY <2>2 DEF ClaimSessionLease, Grant
    <3>2. lease.gen \in Nat /\ nextToken \in Nat /\ known[c] \in Daemon \cup {0}
      BY DEF GenerationsInv, RowType, TokensInv
    <3>3. [owner |-> lease'.owner, gen |-> lease'.gen, nonce |-> c, token |-> lease'.token] \in ClientToken
      BY <3>1, <3>2 DEF ClientToken
    <3>4. call' \in [Client -> [Op -> CallType]]
      BY <2>2, <3>3, SentTyped DEF Phases
    <3> QED BY <1>1, <1>3, <3>4 DEF ServeClaim
  <2> QED BY <1>3, <2>1, <2>2 DEF ServeClaim
<1>4. CASE LearnLease(c, o)
  <2>1. CASE cached' = [cached EXCEPT ![c] = call[c][o].lease] /\ Goto(c, o, "sent")
    <3>1. cached' \in [Client -> ClientToken]
      BY <1>0, <2>1 DEF TokensInv
    <3>2. call' \in [Client -> [Op -> CallType]]
      BY <2>1, GotoTyped DEF Phases
    <3> QED BY <1>4, <3>1, <3>2 DEF LearnLease, TokensInv
  <2>2. CASE Finish(c, o) /\ UNCHANGED cached
    BY <1>1, <1>4, <2>2, FinishTyped DEF LearnLease
  <2> QED BY <1>4, <2>1, <2>2 DEF LearnLease
<1>5. CASE ServeRequest(c, o) \/ ServeActivation(c, o) \/ NoRoute(c, o)
  <2>1. \E phase \in Phases : Goto(c, o, phase)
    BY <1>5 DEF ServeRequest, ServeActivation, NoRoute, Phases
  <2>2. call' \in [Client -> [Op -> CallType]]
    BY <2>1, GotoTyped
  <2> QED BY <1>1, <1>5, <2>2 DEF ServeRequest, ServeActivation, NoRoute
<1>6. CASE Answered(c, o)
  <2>1. cached' \in [Client -> ClientToken]
    BY <1>0, <1>6, NoLeaseIsToken DEF Answered, Forgotten, TokensInv
  <2>2. attached' \in [Client -> BOOLEAN]
    <3>1. PICK b : attached' = [attached EXCEPT ![c] = b] /\ b \in BOOLEAN
      BY <1>6, Zenon DEF Answered
    <3> QED BY <3>1 DEF TokensInv
  <2>3. call' \in [Client -> [Op -> CallType]]
    BY <1>6, FinishTyped DEF Answered
  <2> QED BY <1>6, <2>1, <2>2, <2>3 DEF Answered, TokensInv
<1>7. CASE Failed(c, o)
  <2>1. cached' \in [Client -> ClientToken]
    BY <1>7, NoLeaseIsToken DEF Failed, Forgotten, TokensInv
  <2>2. call' \in [Client -> [Op -> CallType]]
    BY <1>7, FinishTyped DEF Failed
  <2> QED BY <1>7, <2>1, <2>2 DEF Failed, TokensInv
<1>8. CASE Abandon(c, o)
  <2>1. cached' \in [Client -> ClientToken]
    BY <1>8, NoLeaseIsToken DEF Abandon, Forgotten, TokensInv
  <2>2. call' \in [Client -> [Op -> CallType]]
    BY <1>8, NoLeaseIsToken, CallTyped DEF Abandon
  <2>3. \A r \in late' : r.kind # "claim" => r.lease \in ClientToken
    BY <1>0, <1>8 DEF Abandon, TokensInv
  <2> QED BY <1>8, <2>1, <2>2, <2>3 DEF Abandon, TokensInv
<1> QED BY <1>2, <1>3, <1>4, <1>5, <1>6, <1>7, <1>8, BeginTyped, ReconnectTyped DEF Request

LEMMA NextTyped == ASSUME GenerationsInv, TokensInv, Next PROVE TokensInv'
<1>1. ASSUME UNCHANGED clientVars PROVE TokensInv'
  BY <1>1 DEF clientVars, TokensInv
<1>2. ASSUME NEW c \in Client, Initialize(c) PROVE TokensInv'
  <2>1. known' \in [Client -> Daemon \cup {0}]
    BY <1>2 DEF Initialize, TokensInv, GenerationsInv
  <2> QED BY <1>2, <2>1 DEF Initialize, TokensInv
<1>3. CASE ServeLate
  <2>1. late' \subseteq late /\ UNCHANGED <<cached, known, attached, call>>
    BY <1>3 DEF ServeLate
  <2> QED BY <2>1 DEF TokensInv
<1>4. CASE Restart
  <2>1. ASSUME NEW r \in CallType PROVE [r EXCEPT !.phase = "broken"] \in CallType
    BY DEF CallType, Phases
  <2>2. ASSUME NEW c \in Client, NEW o \in Op
        PROVE (IF call[c][o].phase \in {"idle", "start"} THEN call[c][o]
               ELSE [call[c][o] EXCEPT !.phase = "broken"]) \in CallType
    BY <2>1 DEF TokensInv
  <2>3. call' \in [Client -> [Op -> CallType]]
    <3>1. call' = [c \in Client |-> [o \in Op |->
             IF call[c][o].phase \in {"idle", "start"} THEN call[c][o]
             ELSE [call[c][o] EXCEPT !.phase = "broken"]]]
      BY <1>4 DEF Restart
    <3> QED BY <3>1, <2>2, Zenon
  <2> QED BY <1>4, <2>3 DEF Restart, TokensInv
<1>5. CASE Proxied \/ ReapStaleSession \/ PruneClosedSession \/ Tick
  BY <1>1, <1>5 DEF Proxied, ProxyRegister, ProxyRegisterRefused, ProxyHeartbeat, ProxyWork,
                    ProxyUnregister, ReapStaleSession, PruneClosedSession, Tick
<1> QED BY <1>2, <1>3, <1>4, <1>5, RequestTyped DEF Next

-----------------------------------------------------------------------------
(* The steps of the clients, and of the proxy, keep what the proxy knows       *)

LEMMA PrivateKeeps ==
  ASSUME ProxyInv, UNCHANGED proxy,
         UNCHANGED lease \/ lease'.nonce \notin Nat \/ lease'.owner = 0
  PROVE  ProxyInv'
  BY DEF ProxyInv, Active, Held

LEMMA ClientClaims ==
  ASSUME NEW c \in Client, NEW owner, ClaimSessionLease(owner, c)
  PROVE  lease'.nonce \notin Nat
  BY ClientAssumption DEF ClaimSessionLease, Grant

LEMMA ClientWorks ==
  ASSUME GenerationsInv, NEW kind, NEW l \in ClientToken, Valid(l), Apply(kind, l)
  PROVE  UNCHANGED lease \/ lease'.nonce \notin Nat \/ lease'.owner = 0
<1>1. l.nonce \notin Nat
  BY ClientAssumption, NoneAssumption DEF ClientToken
<1>2. lease.nonce \notin Nat /\ lease.gen = l.gen
  BY <1>1 DEF Valid, Held
<1>3. CASE lease' = Cleared
  BY <1>2, <1>3, ClearedIsPassive DEF Apply
<1>4. CASE lease' = [lease EXCEPT !.left = TTL]
  BY <1>2, <1>4 DEF GenerationsInv, RowType
<1> QED BY <1>3, <1>4 DEF Apply

LEMMA ClientKeepsProxy ==
  ASSUME GenerationsInv, TokensInv, ProxyInv, NEW c \in Client, NEW o \in Op, Request(c, o)
  PROVE  ProxyInv'
<1>1. ASSUME UNCHANGED <<lease, proxy>> PROVE ProxyInv'
  BY <1>1, PrivateKeeps
<1>2. call[c][o].lease \in ClientToken
  BY DEF TokensInv, CallType
<1>3. ASSUME NEW kind, Valid(call[c][o].lease), Apply(kind, call[c][o].lease), UNCHANGED proxy
      PROVE  ProxyInv'
  BY <1>2, <1>3, ClientWorks, PrivateKeeps
<1>4. CASE ServeClaim(c, o)
  BY <1>1, <1>4, ClientClaims, PrivateKeeps DEF ServeClaim
<1>5. CASE ServeRequest(c, o) \/ ServeActivation(c, o)
  BY <1>1, <1>3, <1>5 DEF ServeRequest, ServeActivation, Served, Untouched, rowVars
<1>6. CASE \/ \E kind \in Kind : Begin(c, o, kind)
           \/ Send(c, o) \/ LearnLease(c, o) \/ Answered(c, o) \/ Failed(c, o)
           \/ Abandon(c, o) \/ NoRoute(c, o) \/ Reconnect(c, o)
  BY <1>1, <1>6 DEF Begin, Send, LearnLease, Answered, Failed, Abandon, NoRoute, Reconnect, rowVars
<1> QED BY <1>4, <1>5, <1>6 DEF Request

LEMMA LateKeepsProxy ==
  ASSUME GenerationsInv, TokensInv, ProxyInv, ServeLate PROVE ProxyInv'
<1>1. PICK r \in late :
        /\ \/ r.kind = "claim" /\ ClaimSessionLease(daemon, r.client)
           \/ r.kind # "claim" /\ Valid(r.lease) /\ Apply(r.kind, r.lease)
           \/ UNCHANGED lease
        /\ UNCHANGED proxy
  BY DEF ServeLate, Served, Untouched, rowVars
<1>2. CASE r.kind = "claim" /\ ClaimSessionLease(daemon, r.client)
  BY <1>1, <1>2, ClientClaims, PrivateKeeps DEF GenerationsInv
<1>3. CASE r.kind # "claim" /\ Valid(r.lease) /\ Apply(r.kind, r.lease)
  BY <1>1, <1>3, ClientWorks, PrivateKeeps DEF TokensInv
<1> QED BY <1>1, <1>2, <1>3, PrivateKeeps

LEMMA RegisterKeepsProxy ==
  ASSUME GenerationsInv, NEW l \in OldClient, ProxyRegister(l) PROVE ProxyInv'
<1>1. PICK gen : lease' = [owner |-> daemon, gen |-> gen, nonce |-> nextToken,
                           token |-> nextToken, left |-> TTL]
  BY DEF ProxyRegister, ClaimSessionLease, TransferSessionLease, Grant
<1>2. proxy' = [client |-> l, left |-> TTL, lease |-> Held']
  BY DEF ProxyRegister, SavedProxy, Held
<1>3. l # None /\ TTL \in Nat
  BY NoneAssumption, BoundAssumption
<1>4. lease'.left = TTL
  BY <1>1
<1>5. proxy'.left = TTL /\ proxy'.client = l /\ proxy'.lease = Held'
  BY <1>2
<1> QED BY <1>2, <1>3, <1>4, <1>5 DEF ProxyInv

LEMMA ProxiedKeepsProxy ==
  ASSUME GenerationsInv, ProxyInv, Proxied PROVE ProxyInv'
<1>1. CASE ProxyHeartbeat
  <2>1. CASE Valid(proxy.lease)
    <3>1. lease' = [lease EXCEPT !.left = TTL] /\ proxy' = [proxy EXCEPT !.left = TTL]
      BY <1>1, <2>1 DEF ProxyHeartbeat, Apply
    <3>2. /\ lease'.nonce = lease.nonce /\ lease'.owner = lease.owner /\ lease'.left = TTL
          /\ lease'.gen = lease.gen /\ lease'.token = lease.token
      BY <3>1 DEF GenerationsInv, RowType
    <3>3. /\ proxy' = [client |-> proxy.client, lease |-> proxy.lease, left |-> TTL]
      BY <3>1 DEF ProxyInv
    <3>4. proxy'.client = proxy.client /\ proxy'.lease = proxy.lease /\ proxy'.left = TTL
      BY <3>3
    <3>5. Held' = Held /\ (Active' => Active)
      BY <2>1, <3>2 DEF Held, Valid
    <3>6. TTL \in Nat
      BY BoundAssumption
    <3> QED BY <3>2, <3>3, <3>4, <3>5, <3>6 DEF ProxyInv
  <2>2. CASE ~Valid(proxy.lease)
    <3>1. UNCHANGED lease /\ proxy' = NoProxy
      BY <1>1, <2>2 DEF ProxyHeartbeat, Untouched, rowVars
    <3>2. ~(Active /\ lease.nonce \in Nat)
      BY <2>2 DEF ProxyInv, Valid
    <3> QED BY <3>1, <3>2, BoundAssumption DEF ProxyInv, Active, NoProxy
  <2> QED BY <2>1, <2>2
<1>2. CASE ProxyWork
  <2>1. UNCHANGED <<lease, proxy>>
    BY <1>2 DEF ProxyWork, Apply
  <2> QED BY <2>1, PrivateKeeps
<1>3. ASSUME NEW releasing \in BOOLEAN, ProxyUnregister(releasing) PROVE ProxyInv'
  <2>1. proxy' = NoProxy /\ NoProxy.left = 0 /\ 0 \in 0..TTL
    BY <1>3, BoundAssumption DEF ProxyUnregister, NoProxy
  <2>2. CASE Valid(proxy.lease)
    <3>1. lease' = Cleared /\ lastGen' = lease.gen /\ UNCHANGED <<nextToken, holder>>
      BY <1>3, <2>2 DEF ProxyUnregister, Apply, Valid, Held
    <3>2. lease'.owner = 0
      BY <3>1, ClearedIsPassive
    <3> QED BY <2>1, <3>2 DEF ProxyInv, Active, NoProxy
  <2>3. CASE ~Valid(proxy.lease)
    <3>1. UNCHANGED lease
      BY <1>3, <2>3 DEF ProxyUnregister, Untouched, rowVars
    <3>2. ~(Active /\ lease.nonce \in Nat)
      BY <2>3 DEF ProxyInv, Valid
    <3> QED BY <2>1, <3>1, <3>2 DEF ProxyInv, Active, NoProxy
  <2> QED BY <2>2, <2>3
<1>4. CASE ProxyRegisterRefused
  <2>1. UNCHANGED proxy /\ lease'.owner = 0
    BY <1>4 DEF ProxyRegisterRefused, NoRow
  <2> QED BY <2>1, PrivateKeeps
<1> QED BY <1>1, <1>2, <1>3, <1>4, RegisterKeepsProxy DEF Proxied

LEMMA TickKeepsProxy == ASSUME GenerationsInv, ProxyInv, Tick PROVE ProxyInv'
<1> DEFINE n == IF lease.left > 0 THEN lease.left - 1 ELSE 0
           m == IF proxy.left > 0 THEN proxy.left - 1 ELSE 0
<1>1. lease' = [lease EXCEPT !.left = n] /\ proxy' = [proxy EXCEPT !.left = m]
  BY DEF Tick
<1>2. lease.left \in 0..TTL /\ proxy.left \in 0..TTL /\ TTL \in Nat
  BY BoundAssumption DEF GenerationsInv, RowType, ProxyInv
<1>3. m \in 0..TTL /\ n \in 0..TTL /\ (n > 0 => lease.left > 0) /\ (proxy.left >= lease.left => m >= n)
  BY <1>2
<1> HIDE DEF n, m
<1>4. /\ lease'.nonce = lease.nonce /\ lease'.owner = lease.owner /\ lease'.left = n
      /\ lease'.gen = lease.gen /\ lease'.token = lease.token
  BY <1>1 DEF GenerationsInv, RowType
<1>5. proxy' = [client |-> proxy.client, lease |-> proxy.lease, left |-> m]
  BY <1>1 DEF ProxyInv
<1>6. proxy'.client = proxy.client /\ proxy'.lease = proxy.lease /\ proxy'.left = m
  BY <1>5
<1>7. Held' = Held /\ (Active' => Active)
  BY <1>3, <1>4 DEF Held, Active
<1> QED BY <1>3, <1>4, <1>5, <1>6, <1>7 DEF ProxyInv

LEMMA NextKeepsProxy ==
  ASSUME GenerationsInv, TokensInv, ProxyInv, Next PROVE ProxyInv'
<1>1. CASE Restart
  <2>1. lease' = Cleared /\ UNCHANGED <<nextToken, holder, lastGen, proxy>>
    BY <1>1 DEF Restart
  <2> QED BY <2>1, ClearedIsPassive, PrivateKeeps
<1>2. ASSUME NEW c \in Client, Initialize(c) PROVE ProxyInv'
  BY <1>2, PrivateKeeps DEF Initialize, rowVars
<1>3. CASE PruneClosedSession \/ ReapStaleSession
  BY <1>3, PrivateKeeps DEF PruneClosedSession, ReapStaleSession
<1> QED BY <1>1, <1>2, <1>3, ClientKeepsProxy, LateKeepsProxy, ProxiedKeepsProxy, TickKeepsProxy
       DEF Next

(* While the proxy's lease keeps everybody else out, the proxy can use it *)
THEOREM ProxyIsNotLockedOut == Spec => []OldClientsNotLockedOut
<1>1. Init => LockInv
  BY LockInit
<1>2. LockInv /\ [Next]_vars => LockInv'
  <2>1. ASSUME LockInv, Next PROVE LockInv'
    BY <2>1, StepKeepsGenerations, NextTyped, NextKeepsProxy DEF LockInv
  <2>2. ASSUME LockInv, UNCHANGED vars PROVE LockInv'
    BY <2>2 DEF LockInv, GenerationsInv, TokensInv, ProxyInv, vars, rowVars, clientVars, Active, Held
  <2> QED BY <2>1, <2>2
<1>3. LockInv => OldClientsNotLockedOut
  <2>1. ASSUME LockInv, Active, lease.nonce \in Nat PROVE Mapped /\ Valid(proxy.lease)
    <3>1. proxy.client # None /\ proxy.lease = Held /\ proxy.left >= lease.left
      BY <2>1 DEF LockInv, ProxyInv
    <3>2. lease.left > 0 /\ lease.left \in Nat /\ proxy.left \in Nat
      BY <2>1 DEF Active, LockInv, GenerationsInv, RowType, ProxyInv
    <3> QED BY <2>1, <3>1, <3>2 DEF Mapped, Valid
  <2> QED BY <2>1 DEF OldClientsNotLockedOut
<1> QED BY <1>1, <1>2, <1>3, PTL DEF Spec
=============================================================================
