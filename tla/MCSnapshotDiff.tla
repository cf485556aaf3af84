--------------------------- MODULE MCSnapshotDiff ---------------------------
(***************************************************************************)
(* Small instances of SnapshotDiff for TLC, chosen by the first state, for *)
(* what does not meet in diffSnapshot: "checks", two shards of a job and a *)
(* gate; "dropped", a shard and a gate of two workflows, and a shard that  *)
(* answers may leave out; "status", a commit status; "comments", issue     *)
(* comments and a review comment, as many as an answer holds; "window",    *)
(* more than it holds; "core", the rest.                                   *)
(***************************************************************************)
EXTENDS SnapshotDiff

MCWorkflow ==
  [shard1 |-> {"ci"}, shard2 |-> {"ci"}, shard3 |-> {"ci", "nightly"}, required |-> {"ci", "nightly"}, lint |-> {None}]
MCJob == [shard1 |-> "test", shard2 |-> "test", shard3 |-> "test", required |-> "required", lint |-> "lint"]
MCThread == <<0, 0, 3, 3, 0, 6>>

VARIABLE slice

mcVars == <<vars, slice>>

Topic == {"checks", "dropped", "status", "comments", "window", "core"}

Bound == [checks |-> 5, dropped |-> 4, status |-> 4, comments |-> 5, window |-> 6, core |-> 3]

(* What GitHub holds of each topic; the shards are alike: the first one starts first, only it is *)
(* run again or seen in progress, and a status is queued or failed                               *)
Heads(r) == r.head <= CASE slice \in {"window", "dropped"} -> 1 [] slice \in {"checks", "status", "core"} -> 2 [] OTHER -> MaxChanges
Merges(r) == r.merge = "UNKNOWN" <=> slice # "core"
Core(r) ==
  slice # "core" => /\ r.state = "OPEN" /\ ~r.draft /\ r.decision = None
                    /\ r.requests = {} /\ DOMAIN r.reviews = {}
Comments(r) == CASE slice = "comments" -> TRUE
                 [] slice = "window" -> \A c \in DOMAIN r.comments : r.comments[c] = 0
                 [] OTHER -> DOMAIN r.comments = {}
Checks(r) ==
  CASE slice = "checks" -> /\ \A c \in r.checks : /\ c.name \in {"shard1", "shard2", "required"}
                                                  /\ c.workflow = "ci" /\ c.state # "SKIPPED"
                                                  /\ c.name = "required" => c.state # "CANCELLED"
                                                  /\ c.name # "shard1" => c.state # "IN_PROGRESS"
                           /\ "shard2" \in Names(r.checks) => "shard1" \in Names(r.checks)
                           /\ Cardinality(Named(r.checks, "shard2")) <= 1
    [] slice = "dropped" -> /\ \A c \in r.checks : /\ c.name \in {"shard1", "shard3", "required"}
                                                   /\ c.name = "required" => c.workflow = "nightly"
                                                   /\ c.state \notin {"SKIPPED", "CANCELLED", "IN_PROGRESS"}
                            /\ Cardinality(Named(r.checks, "required")) <= 1
    [] slice = "status" -> \A c \in r.checks : c.name = "lint" /\ c.state \in {"QUEUED", "FAILURE"}
    [] OTHER -> r.checks = {}

Fits(r) == Heads(r) /\ Merges(r) /\ Core(r) /\ Comments(r) /\ Checks(r)

MCInit == Init /\ slice \in Topic /\ Fits(remote)

MCNext ==
  /\ Next
  /\ changes' <= Bound[slice] /\ Fits(remote')
  /\ slice = "comments" => WindowSuffices'
  /\ UNCHANGED slice

MCSpec == MCInit /\ [][MCNext]_mcVars
=============================================================================
