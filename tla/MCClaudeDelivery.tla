-------------------------- MODULE MCClaudeDelivery --------------------------
(***************************************************************************)
(* A small instance of ClaudeDelivery for TLC: one session, with and       *)
(* without other plugins' Stop hooks.  Only a session without them is      *)
(* promised that its turns end, and with them there is an event less.      *)
(***************************************************************************)
EXTENDS ClaudeDelivery, TLC

CONSTANTS s1, p1, p2

MCNext == ClaudeNext /\ (others # {} => Len(log') <= 2)

MCSpec ==
  /\ ClaudeInit
  /\ [][MCNext]_<<allVars, others>>
  /\ others = {} => Fairness
=============================================================================
