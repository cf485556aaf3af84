---------------------------- MODULE SessionLease ----------------------------
(***************************************************************************)
(* The lease of one session: the row of session_daemon_leases              *)
(* (src/src/daemon/persistence/store.ts), the router's two checks of a     *)
(* request's token (ipc/router.ts), the clients of protocol v2 that cache  *)
(* their token and attach it to every request (client/daemon-client.ts),   *)
(* and the proxy that holds leases for clients of protocol v1              *)
(* (shared/protocol/legacy-v1-proxy.ts).  Leases of different sessions     *)
(* have nothing in common, so one session is enough.  A handler of the     *)
(* proxy awaits nothing but the router and is one step.                    *)
(***************************************************************************)
EXTENDS Naturals

CONSTANTS
  Client,      \* client incarnations speaking protocol v2
  OldClient,   \* clients speaking protocol v1
  Op,          \* requests a client may have under way at once
  None,        \* no client: a column IS NULL
  TTL,         \* PREMIND_CLIENT_LEASE_TTL_MS, in ticks
  MaxTokens,   \* bound: lease tokens (randomUUID calls)
  MaxDaemons,  \* bound: daemon instances
  Abandoning   \* can requests time out at the client and be served later?

ASSUME NoneAssumption == None \notin Client \cup OldClient /\ None \notin Nat
ASSUME ClientAssumption == Client \cap Nat = {}
ASSUME BoundAssumption == /\ TTL \in Nat \ {0} /\ MaxTokens \in Nat
                          /\ MaxDaemons \in Nat \ {0} /\ Abandoning \in BOOLEAN

VARIABLES
  lease,      \* the row of session_daemon_leases, with the ticks it has left
  status,     \* sessions.status; "absent" without a row
  daemon,     \* the running daemon instance
  nextToken,  \* the next fresh lease token
  holder,     \* history: the claimant of each generation
  lastGen,    \* history: the generation under which work was last done
  cached,     \* sessionLeases of each client
  known,      \* daemonInstanceId of each client; 0 before the handshake
  attached,   \* does attachedSessions of the client hold the session?
  call,       \* requests under way
  late,       \* requests whose client no longer waits
  proxy       \* the row of legacy_proxy_session_leases

rowVars    == <<lease, status, nextToken, holder, lastGen>>
clientVars == <<cached, known, attached, call, late>>
vars == <<lease, status, daemon, nextToken, holder, lastGen, cached, known, attached,
          call, late, proxy>>

-----------------------------------------------------------------------------
Daemon == 1..MaxDaemons
Tokens == 1..MaxTokens
Nonce  == Client \cup Nat   \* the proxy draws a fresh nonce for each registration

NoLease == [owner |-> 0, gen |-> 0, nonce |-> None, token |-> 0]

NoRow == [owner |-> 0, gen |-> 0, nonce |-> None, token |-> 0, left |-> 0]

NoProxy == [client |-> None, lease |-> NoLease, left |-> 0]

Kind == {"register", "work", "activate", "unregister", "delete", "renew", "release"}

(* lease: the token attached; payload: the token a renewal or a release is about *)
NoCall == [phase |-> "idle", kind |-> "work", replay |-> FALSE,
           lease |-> NoLease, payload |-> NoLease]

-----------------------------------------------------------------------------
(* The row                                                                  *)

Active == lease.owner # 0 /\ lease.left > 0

Held == [owner |-> lease.owner, gen |-> lease.gen, nonce |-> lease.nonce, token |-> lease.token]

(* validateSessionLease *)
Valid(l) == Active /\ l = Held

SameClaimant(owner, nonce) == Active /\ lease.owner = owner /\ lease.nonce = nonce

Grant(owner, gen, nonce) ==
  /\ nextToken \in Tokens
  /\ lease' = [owner |-> owner, gen |-> gen, nonce |-> nonce, token |-> nextToken, left |-> TTL]
  /\ nextToken' = nextToken + 1
  /\ holder' = [holder EXCEPT ![gen] = nonce]

(* Mutant: a claim after a release counts from the start *)
MutClaimSessionLease(owner, nonce) ==
  /\ Active => SameClaimant(owner, nonce)
  /\ Grant(owner, IF SameClaimant(owner, nonce) THEN lease.gen
                  ELSE IF lease.owner = 0 THEN 1 ELSE lease.gen + 1, nonce)

(* claimSessionLease; SESSION_BUSY while somebody else holds the lease *)
ClaimSessionLease(owner, nonce) ==
  /\ Active => SameClaimant(owner, nonce)
  /\ Grant(owner, IF SameClaimant(owner, nonce) THEN lease.gen ELSE lease.gen + 1, nonce)

(* transferSessionLease *)
TransferSessionLease(l, owner, nonce) ==
  /\ Valid(l)
  /\ Grant(owner, l.gen + 1, nonce)

Cleared == [lease EXCEPT !.owner = 0, !.nonce = None, !.token = 0, !.left = 0]

(* What a request does to the row and the session; the generation it is done  *)
(* under is remembered.                                                       *)
Apply(kind, l) ==
  /\ lastGen' = l.gen
  /\ UNCHANGED <<nextToken, holder>>
  /\ \/ kind = "register" /\ status' = "active" /\ UNCHANGED lease
     \/ kind = "work" /\ status' \in {status, "active"} /\ UNCHANGED lease
     \/ kind = "activate" /\ UNCHANGED <<status, lease>>
     \/ /\ kind = "unregister"
        /\ lease' = Cleared
        /\ status' = IF status \in {"absent", "closed"} THEN status ELSE "detached"
     \/ kind = "delete" /\ lease' = Cleared /\ status' = "closed"
     \/ kind = "renew" /\ lease' = [lease EXCEPT !.left = TTL] /\ UNCHANGED status
     \/ kind = "release" /\ lease' = Cleared /\ UNCHANGED status

(* SESSION_NOT_FOUND *)
Possible(kind) == /\ kind \in {"work", "activate"} => status # "absent"
                  /\ kind = "delete" => status \notin {"absent", "closed"}

(* Mutant: the token is not checked in the transaction of the work *)
MutServed(kind, l) == Possible(kind)

(* attachedSessionLeaseFailure, and again in withSessionLease *)
Served(kind, l) == Valid(l) /\ Possible(kind)

Untouched == UNCHANGED rowVars

-----------------------------------------------------------------------------
(* Clients of protocol v2                                                    *)

In(c, o, phase) == call[c][o].phase = phase
Goto(c, o, phase) == call' = [call EXCEPT ![c][o].phase = phase]

(* The request is over; a replay goes on with the request it was made for *)
Finish(c, o) ==
  call' = [call EXCEPT ![c][o] =
             IF @.replay THEN [@ EXCEPT !.phase = "start", !.replay = FALSE, !.lease = NoLease]
             ELSE NoCall]

What(c, o) == IF call[c][o].replay THEN "register" ELSE call[c][o].kind

AboutLease == {"renew", "release"}

(* The router is reached at the socket of the instance the client knows *)
Routed(c) == known[c] = daemon

Begin(c, o, kind) ==
  /\ In(c, o, "idle")
  /\ kind \in AboutLease => cached[c] # NoLease
  /\ call' = [call EXCEPT ![c][o] = [NoCall EXCEPT !.phase = "start", !.kind = kind,
                 !.payload = IF kind \in AboutLease THEN cached[c] ELSE NoLease]]
  /\ attached' = IF kind = "delete" THEN [attached EXCEPT ![c] = FALSE] ELSE attached
  /\ UNCHANGED <<rowVars, daemon, cached, known, late, proxy>>

(* initializeProtocol, for the first time *)
Initialize(c) ==
  /\ known[c] = 0
  /\ known' = [known EXCEPT ![c] = daemon]
  /\ UNCHANGED <<rowVars, daemon, cached, attached, call, late, proxy>>

(* A cached lease of the instance the client knows is attached, whatever its age *)
Usable(c) == cached[c] # NoLease /\ cached[c].owner = known[c]

(* ensureRequestSessionLease, withNegotiatedProtocol *)
Send(c, o) ==
  /\ In(c, o, "start") /\ known[c] # 0
  /\ IF What(c, o) \in AboutLease
     THEN call' = [call EXCEPT ![c][o].phase = "sent", ![c][o].lease = call[c][o].payload]
     ELSE IF Usable(c)
     THEN call' = [call EXCEPT ![c][o].phase = "sent", ![c][o].lease = cached[c]]
     ELSE Goto(c, o, "claiming")
  /\ UNCHANGED <<rowVars, daemon, cached, known, attached, late, proxy>>

(* The daemon claims, or refuses; its answer is on its way *)
ServeClaim(c, o) ==
  /\ In(c, o, "claiming") /\ Routed(c)
  /\ UNCHANGED <<status, lastGen>>
  /\ \/ /\ ClaimSessionLease(known[c], c)
        /\ call' = [call EXCEPT ![c][o].phase = "claimed", ![c][o].lease =
             [owner |-> lease'.owner, gen |-> lease'.gen, nonce |-> c, token |-> lease'.token]]
     \/ /\ Active /\ ~SameClaimant(known[c], c)
        /\ Goto(c, o, "refused")
        /\ UNCHANGED <<lease, nextToken, holder>>
  /\ UNCHANGED <<daemon, cached, known, attached, late, proxy>>

(* The answer arrives; those of two claims may arrive in either order *)
LearnLease(c, o) ==
  /\ \/ /\ In(c, o, "claimed")
        /\ cached' = [cached EXCEPT ![c] = call[c][o].lease]
        /\ Goto(c, o, "sent")
     \/ In(c, o, "refused") /\ Finish(c, o) /\ UNCHANGED cached
  /\ UNCHANGED <<rowVars, daemon, known, attached, late, proxy>>

(* The router's check on arrival; activating a worktree then awaits Git and *)
(* is checked again in its transaction.                                     *)
ServeRequest(c, o) ==
  /\ In(c, o, "sent") /\ Routed(c)
  /\ LET kind == What(c, o)
         l    == call[c][o].lease
     IN  \/ kind # "activate" /\ Served(kind, l) /\ Apply(kind, l) /\ Goto(c, o, "done")
         \/ kind = "activate" /\ Served(kind, l) /\ Untouched /\ Goto(c, o, "checked")
         \/ ~(Valid(l) /\ Possible(kind)) /\ Untouched /\ Goto(c, o, "failed")
  /\ UNCHANGED <<daemon, cached, known, attached, late, proxy>>

ServeActivation(c, o) ==
  /\ In(c, o, "checked")
  /\ \/ /\ Served("activate", call[c][o].lease)
        /\ Apply("activate", call[c][o].lease)
        /\ Goto(c, o, "done")
     \/ /\ ~Valid(call[c][o].lease)
        /\ Untouched
        /\ Goto(c, o, "failed")
  /\ UNCHANGED <<daemon, cached, known, attached, late, proxy>>

Forgotten(c) == [cached EXCEPT ![c] = NoLease]

(* The answer arrives: what the client remembers of it *)
Answered(c, o) ==
  /\ In(c, o, "done")
  /\ cached' = CASE What(c, o) \in {"unregister", "delete", "release"} -> Forgotten(c)
                 [] What(c, o) = "renew" -> [cached EXCEPT ![c] = call[c][o].payload]
                 [] OTHER -> cached
  /\ attached' = [attached EXCEPT ![c] = What(c, o) = "register" \/ (@ /\ What(c, o) # "unregister")]
  /\ Finish(c, o)
  /\ UNCHANGED <<rowVars, daemon, known, late, proxy>>

(* SESSION_MOVED or SESSION_NOT_FOUND is thrown to the caller.  A release, and *)
(* nothing else, forgets the lease.                                            *)
Failed(c, o) ==
  /\ In(c, o, "failed")
  /\ cached' = IF What(c, o) = "release" THEN Forgotten(c) ELSE cached
  /\ Finish(c, o)
  /\ UNCHANGED <<rowVars, daemon, known, attached, late, proxy>>

(* ETIMEDOUT, or the retries are used up: the caller gets the error, and a    *)
(* request that was sent may yet be served.                                   *)
Abandon(c, o) ==
  /\ Abandoning /\ call[c][o].phase \notin {"idle", "start", "checked"}
  /\ late' = IF Routed(c) /\ (In(c, o, "claiming") \/ In(c, o, "sent"))
             THEN {[kind |-> IF In(c, o, "claiming") THEN "claim" ELSE What(c, o),
                    client |-> c, lease |-> call[c][o].lease]}
             ELSE late
  /\ call' = [call EXCEPT ![c][o] = NoCall]
  /\ cached' = IF What(c, o) = "release" THEN Forgotten(c) ELSE cached
  /\ UNCHANGED <<rowVars, daemon, known, attached, proxy>>

ServeLate ==
  \E r \in late :
    /\ late' = late \ {r}
    /\ \/ /\ r.kind = "claim" /\ UNCHANGED <<status, lastGen>>
          /\ \/ ClaimSessionLease(daemon, r.client)
             \/ /\ Active /\ ~SameClaimant(daemon, r.client)
                /\ UNCHANGED <<lease, nextToken, holder>>
       \/ r.kind # "claim" /\ Served(r.kind, r.lease) /\ Apply(r.kind, r.lease)
       \/ r.kind # "claim" /\ ~(Valid(r.lease) /\ Possible(r.kind)) /\ Untouched
    /\ UNCHANGED <<daemon, cached, known, attached, call, proxy>>

(* A request to the socket of an instance that is gone *)
NoRoute(c, o) ==
  /\ In(c, o, "claiming") \/ In(c, o, "sent")
  /\ ~Routed(c)
  /\ Goto(c, o, "broken")
  /\ UNCHANGED <<rowVars, daemon, cached, known, attached, late, proxy>>

(* Mutant: the attached session is not registered again *)
MutReconnect(c, o) ==
  /\ In(c, o, "broken")
  /\ known' = [known EXCEPT ![c] = daemon]
  /\ cached' = IF Routed(c) THEN cached ELSE Forgotten(c)
  /\ call' = [call EXCEPT ![c][o] = [@ EXCEPT !.phase = "start", !.lease = NoLease]]
  /\ UNCHANGED <<rowVars, daemon, attached, late, proxy>>

(* After a transport error: connect again, forget the leases of another       *)
(* instance, register the attached session again and try once more.           *)
Reconnect(c, o) ==
  /\ In(c, o, "broken")
  /\ known' = [known EXCEPT ![c] = daemon]
  /\ cached' = IF Routed(c) THEN cached ELSE Forgotten(c)
  /\ call' = [call EXCEPT ![c][o] =
                [@ EXCEPT !.phase = "start", !.replay = attached[c], !.lease = NoLease]]
  /\ UNCHANGED <<rowVars, daemon, attached, late, proxy>>

-----------------------------------------------------------------------------
(* The proxy for clients of protocol v1                                      *)

Mapped == proxy.client # None /\ proxy.left > 0

(* Mutant: a registration that takes a lease over does not save it *)
MutSavedProxy(l) == IF Mapped THEN proxy
                    ELSE [client |-> l, left |-> TTL,
                          lease |-> [owner |-> lease'.owner, gen |-> lease'.gen,
                                     nonce |-> lease'.nonce, token |-> lease'.token]]

(* saveLegacyProxyLease *)
SavedProxy(l) == [client |-> l, left |-> TTL,
                  lease |-> [owner |-> lease'.owner, gen |-> lease'.gen,
                             nonce |-> lease'.nonce, token |-> lease'.token]]

(* registerSession: take over the mapped lease, or claim one, under a nonce of *)
(* its own; register the session under it                                      *)
ProxyRegister(l) ==
  /\ IF Mapped /\ Valid(proxy.lease)
     THEN TransferSessionLease(proxy.lease, daemon, nextToken)
     ELSE ClaimSessionLease(daemon, nextToken)
  /\ lastGen' = lease'.gen
  /\ status' = "active"
  /\ proxy' = SavedProxy(l)
  /\ UNCHANGED <<daemon, clientVars>>

(* The session is not registered (an error of the router): the lease that was  *)
(* taken over or claimed is released, and the mapping stays as it was.         *)
ProxyRegisterRefused ==
  /\ Active => Mapped /\ Valid(proxy.lease)
  /\ nextToken \in Tokens
  /\ lease' = [NoRow EXCEPT !.gen = lease.gen + 1]
  /\ nextToken' = nextToken + 1
  /\ holder' = [holder EXCEPT ![lease.gen + 1] = nextToken]
  /\ UNCHANGED <<status, lastGen, daemon, clientVars, proxy>>

(* heartbeatClient: renew the mapped lease, or forget it *)
ProxyHeartbeat ==
  /\ Mapped
  /\ IF Valid(proxy.lease)
     THEN Apply("renew", proxy.lease) /\ proxy' = [proxy EXCEPT !.left = TTL]
     ELSE Untouched /\ proxy' = NoProxy
  /\ UNCHANGED <<daemon, clientVars>>

(* Any other operation, under the mapped lease *)
ProxyWork ==
  /\ Mapped /\ Served("work", proxy.lease) /\ Apply("work", proxy.lease)
  /\ UNCHANGED <<daemon, clientVars, proxy>>

(* unregisterSession forgets the mapping when it was served, releaseClient always *)
ProxyUnregister(releasing) ==
  /\ Mapped
  /\ IF Valid(proxy.lease) THEN Apply("unregister", proxy.lease) ELSE releasing /\ Untouched
  /\ proxy' = NoProxy
  /\ UNCHANGED <<daemon, clientVars>>

-----------------------------------------------------------------------------
(* The rest of the daemon                                                    *)

(* Mutant: the sessions are detached and keep their leases *)
MutRestart ==
  /\ daemon < MaxDaemons
  /\ daemon' = daemon + 1
  /\ status' = IF status = "active" THEN "detached" ELSE status
  /\ call' = [c \in Client |-> [o \in Op |->
       IF call[c][o].phase \in {"idle", "start"} THEN call[c][o]
       ELSE [call[c][o] EXCEPT !.phase = "broken"]]]
  /\ late' = {}
  /\ UNCHANGED <<lease, nextToken, holder, lastGen, cached, known, attached, proxy>>

(* A daemon dies and another one starts: recoverFromRestart; every connection is closed *)
Restart ==
  /\ daemon < MaxDaemons
  /\ daemon' = daemon + 1
  /\ lease' = Cleared
  /\ status' = IF status = "active" THEN "detached" ELSE status
  /\ call' = [c \in Client |-> [o \in Op |->
       IF call[c][o].phase \in {"idle", "start"} THEN call[c][o]
       ELSE [call[c][o] EXCEPT !.phase = "broken"]]]
  /\ late' = {}
  /\ UNCHANGED <<nextToken, holder, lastGen, cached, known, attached, proxy>>

(* reapStaleSessions, at the start of a coordinator and while it runs: a session  *)
(* without activity is detached, whoever holds its lease                          *)
ReapStaleSession ==
  /\ status = "active"
  /\ status' = "detached"
  /\ UNCHANGED <<lease, nextToken, holder, lastGen, daemon, clientVars, proxy>>

PruneClosedSession ==
  /\ status = "closed"
  /\ status' = "absent"
  /\ UNCHANGED <<lease, nextToken, holder, lastGen, daemon, clientVars, proxy>>

Tick ==
  /\ lease.left > 0 \/ proxy.left > 0
  /\ lease' = [lease EXCEPT !.left = IF @ > 0 THEN @ - 1 ELSE 0]
  /\ proxy' = [proxy EXCEPT !.left = IF @ > 0 THEN @ - 1 ELSE 0]
  /\ UNCHANGED <<status, nextToken, holder, lastGen, daemon, clientVars>>

-----------------------------------------------------------------------------
Init ==
  /\ lease = NoRow
  /\ status = "absent"
  /\ daemon = 1
  /\ nextToken = 1
  /\ holder = [g \in 1..MaxTokens |-> None]
  /\ lastGen = 0
  /\ cached = [c \in Client |-> NoLease]
  /\ known = [c \in Client |-> 0]
  /\ attached = [c \in Client |-> FALSE]
  /\ call = [c \in Client |-> [o \in Op |-> NoCall]]
  /\ late = {}
  /\ proxy = NoProxy

Request(c, o) ==
  \/ \E kind \in Kind : Begin(c, o, kind)
  \/ Send(c, o) \/ ServeClaim(c, o) \/ LearnLease(c, o) \/ ServeRequest(c, o)
  \/ ServeActivation(c, o) \/ Answered(c, o) \/ Failed(c, o) \/ Abandon(c, o)
  \/ NoRoute(c, o) \/ Reconnect(c, o)

Proxied ==
  \/ \E l \in OldClient : ProxyRegister(l)
  \/ ProxyRegisterRefused \/ ProxyHeartbeat \/ ProxyWork
  \/ \E releasing \in BOOLEAN : ProxyUnregister(releasing)

Next ==
  \/ \E c \in Client : Initialize(c) \/ \E o \in Op : Request(c, o)
  \/ ServeLate \/ Proxied \/ Restart \/ ReapStaleSession \/ PruneClosedSession \/ Tick

Spec == Init /\ [][Next]_vars

-----------------------------------------------------------------------------

(* docs/protocol.md: "Each lease has a generation that increases on every new  *)
(* claim".  A generation is never claimed for a second holder, whatever was    *)
(* released, transferred, expired, cleared by a restart, deleted and pruned in *)
(* between; a handoff's execution is fenced by it.                             *)
GenerationNamesOneHolder ==
  [][\A g \in 1..MaxTokens : holder[g] # None => holder'[g] = holder[g]]_vars

(* Work done under a generation is never followed by work under an earlier     *)
(* one: a superseded client's requests, under way, abandoned by it or waiting  *)
(* for Git, no longer take effect.                                             *)
WorkInGenerationOrder == [][lastGen' >= lastGen]_vars

(* The end of one client's session does not detach or close the session under  *)
(* the lease another client holds: whatever detaches or closes an attached     *)
(* session ends the lease with it.  Only the reaping of an idle session leaves *)
(* the lease to its holder, and it closes nothing.                             *)
OwnerNotDetached ==
  [][status = "active" /\ status' \in {"detached", "closed"} =>
       lease'.owner = 0 \/ ReapStaleSession]_vars

(* While the proxy's lease keeps everybody else out, the proxy can use it: no  *)
(* old client is answered SESSION_MOVED and then SESSION_BUSY.                 *)
OldClientsNotLockedOut ==
  Active /\ lease.nonce \in Nat => Mapped /\ Valid(proxy.lease)

(* A session that was attached when the daemon was replaced is registered     *)
(* with the next daemon by its client's next request.                          *)
ReattachedAfterRestart ==
  \A c \in Client : attached[c] /\ ~Routed(c) ~> Routed(c) /\ status = "active"
=============================================================================
