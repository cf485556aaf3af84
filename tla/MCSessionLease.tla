--------------------------- MODULE MCSessionLease ---------------------------
(***************************************************************************)
(* A small instance of SessionLease for TLC, in three slices: one current  *)
(* client, with everything that can happen to it; two of them that compete *)
(* while time passes; and a session that lasts, for liveness: its lease is *)
(* renewed before it expires and nobody ends the session or gives the      *)
(* lease up.  There it is fair that the client goes on with a request it   *)
(* has begun and that the daemon answers it, and that the client begins    *)
(* work again, because its heartbeats and its polling of reminders never   *)
(* end; nothing else a user does is.                                       *)
(***************************************************************************)
EXTENDS SessionLease

CONSTANTS c1, c2, l1, o1

VARIABLE slice  \* chosen at the start, kept ever after

mcVars == <<vars, slice>>

Within(name, A) == slice = name /\ A /\ UNCHANGED slice

Progress(c, o) ==
  \/ Send(c, o) \/ ServeClaim(c, o) \/ LearnLease(c, o) \/ ServeRequest(c, o)
  \/ ServeActivation(c, o) \/ Answered(c, o) \/ Failed(c, o) \/ NoRoute(c, o) \/ Reconnect(c, o)

Alone == \/ Initialize(c1) \/ \E o \in Op : Request(c1, o)
         \/ ServeLate \/ Proxied \/ Restart \/ ReapStaleSession \/ PruneClosedSession \/ Tick

Competing == \/ \E c \in Client : Initialize(c) \/ \E o \in Op, kind \in Kind : Begin(c, o, kind) \/ Progress(c, o)
             \/ ReapStaleSession \/ PruneClosedSession \/ Tick

MCNext ==
  \/ Within("alone", Alone)
  \/ Within("competing", Competing)
  \/ Within("lasting", Initialize(c1))
  \/ \E o \in Op, kind \in {"register", "work", "activate", "renew"} : Within("lasting", Begin(c1, o, kind))
  \/ \E o \in Op : Within("lasting", Progress(c1, o))
  \/ Within("lasting", Restart)
  \/ Within("lasting", ReapStaleSession)

Fairness ==
  /\ WF_mcVars(Within("lasting", Initialize(c1)))
  /\ \A o \in Op : /\ WF_mcVars(Within("lasting", Begin(c1, o, "work")))
                   /\ WF_mcVars(Within("lasting", Progress(c1, o)))

MCInit == Init /\ slice \in {"alone", "competing", "lasting"}

MCSpec == MCInit /\ [][MCNext]_mcVars /\ Fairness

(* A session that was attached when the daemon was replaced is registered      *)
(* with the next daemon by its client's next request, while the session lasts. *)
ReattachedWhileLasting == slice = "lasting" => ReattachedAfterRestart
=============================================================================
