--------------------------- MODULE ClaudeDelivery ---------------------------
(***************************************************************************)
(* The Claude Code plugin's hooks (plugin-claude/bin/lib.mjs) against the  *)
(* reminder store.  Every hook is a short-lived process: it talks to the   *)
(* daemon, keeps the handoff it is delivering in a file, writes its output *)
(* and exits, and it may be killed, or miss the daemon's 2 s deadline,     *)
(* between any two of these.  Claude Code sets stop_hook_active on the     *)
(* Stop events of a turn that some Stop hook, ours or another plugin's,    *)
(* has already continued.                                                  *)
(***************************************************************************)
EXTENDS ReminderStore

VARIABLES
  entry,       \* the handoff id in the session's handoff file
  hook,        \* the running Stop hook
  continuing,  \* stop_hook_active of the session's next Stop event
  shown,       \* events whose reminder reached the session
  others       \* sessions whose turns other plugins' Stop hooks continue too; it never changes

claudeVars == <<entry, hook, continuing, shown>>
allVars    == <<log, sess, paused, asked, sub, batch, settlement, exec, nextHandoff, coordinator,
                entry, hook, continuing, shown>>

Idle == [phase |-> "idle", handoff |-> NoHandoff, events |-> {}]

At(s, phase) == hook[s].phase = phase
Goto(s, phase) == hook' = [hook EXCEPT ![s].phase = phase]

(* The Stop event ends without our output: only another plugin continues the turn *)
EndStop(s) ==
  /\ hook' = [hook EXCEPT ![s] = Idle]
  /\ \E again \in BOOLEAN : /\ again => s \in others
                           /\ continuing' = [continuing EXCEPT ![s] = again]

-----------------------------------------------------------------------------
(* touchClaudeSession revives a suspended session *)
StopHookStarts(s) ==
  /\ At(s, "idle") /\ Exists(s)
  /\ Goto(s, "touched")
  /\ IF sess[s].status = "active" THEN UNCHANGED vars ELSE Revive(s)
  /\ UNCHANGED <<entry, continuing, shown>>

HookClaims(s) ==
  LET c == BundleCells(s, Swept[s])
  IN  /\ At(s, "touched") /\ ~continuing[s]
      /\ ClaimReminderBundle(s)
      /\ hook' = [hook EXCEPT ![s] =
           [phase |-> "claimed", handoff |-> BundleHandoff(s, c),
            events |-> UNION {c[t].evs : t \in Members(s, c)}]]
      /\ UNCHANGED <<entry, continuing, shown>>

(* The daemon claims, but its answer misses the hook, which exits silently *)
ClaimAnswerLost(s) ==
  /\ At(s, "touched") /\ ~continuing[s]
  /\ ClaimReminderBundle(s)
  /\ EndStop(s)
  /\ UNCHANGED <<entry, shown>>

(* handoffs.replace *)
HookStores(s) ==
  /\ At(s, "claimed")
  /\ entry' = [entry EXCEPT ![s] = hook[s].handoff]
  /\ Goto(s, "stored")
  /\ UNCHANGED <<vars, continuing, shown>>

(* additionalContext is written to stdout and the turn goes on *)
HookOutputs(s) ==
  /\ At(s, "stored")
  /\ shown' = [shown EXCEPT ![s] = @ \cup hook[s].events]
  /\ hook' = [hook EXCEPT ![s] = Idle]
  /\ continuing' = [continuing EXCEPT ![s] = TRUE]
  /\ UNCHANGED <<vars, entry>>

(* Mutant: whatever is in the file is confirmed, stop_hook_active or not *)
MutHookConfirms(s) ==
  /\ At(s, "touched") /\ entry[s] # NoHandoff
  /\ \/ AckReminderBundle(s, entry[s], "confirmed")
     \/ Records(s, entry[s]) = {} /\ UNCHANGED vars
  /\ Goto(s, "confirmed")
  /\ UNCHANGED <<entry, continuing, shown>>

(* stop_hook_active: the handoff in the file is taken to have been shown.  The *)
(* entry is dropped in a further step; an error keeps it.                      *)
HookConfirms(s) ==
  /\ At(s, "touched") /\ continuing[s] /\ entry[s] # NoHandoff
  /\ \/ AckReminderBundle(s, entry[s], "confirmed")
     \/ Records(s, entry[s]) = {} /\ UNCHANGED vars
  /\ Goto(s, "confirmed")
  /\ UNCHANGED <<entry, continuing, shown>>

HookForgets(s) ==
  /\ At(s, "confirmed")
  /\ entry' = [entry EXCEPT ![s] = NoHandoff]
  /\ EndStop(s)
  /\ UNCHANGED <<vars, shown>>

(* Without an entry the hook falls back to confirmClaudeHandoff *)
HookConfirmsLegacy(s) ==
  /\ At(s, "touched") /\ continuing[s] /\ entry[s] = NoHandoff
  /\ ConfirmClaudeHandoff(s) \/ UNCHANGED vars
  /\ EndStop(s)
  /\ UNCHANGED <<entry, shown>>

(* Nothing to claim, an error of the daemon, or the hook is killed *)
HookGivesUp(s) ==
  /\ ~At(s, "idle")
  /\ EndStop(s)
  /\ UNCHANGED <<vars, entry, shown>>

(* A new prompt starts a new turn; it revives a suspended session too *)
UserPromptSubmit(s) ==
  /\ At(s, "idle") /\ Exists(s)
  /\ IF sess[s].status = "active" THEN UNCHANGED vars ELSE Revive(s)
  /\ continuing' = [continuing EXCEPT ![s] = FALSE]
  /\ UNCHANGED <<entry, hook, shown>>

(* suspendClaudeSession may fail; the handoff file is cleared all the same *)
SessionEnd(s) ==
  /\ At(s, "idle") /\ Exists(s)
  /\ Close(s) \/ UNCHANGED vars
  /\ entry' = [entry EXCEPT ![s] = NoHandoff]
  /\ continuing' = [continuing EXCEPT ![s] = FALSE]
  /\ UNCHANGED <<hook, shown>>

-----------------------------------------------------------------------------
(* The rest of the store, under the hooks' feet *)
Polled == \E p \in PR, n \in 1..MaxPerPoll : Poll(p, n, FALSE, {s \in Session :
            sub[s][p].state = "active" /\ sess[s].status = "active"})

Background == /\ \/ Polled
                 \/ ExpireStaleHandoffs
                 \/ Tick
                 \/ \E s \in Session, p \in PR : Subscribe(s, p)
              /\ UNCHANGED claudeVars

Hooks(s) == \/ StopHookStarts(s) \/ HookClaims(s) \/ ClaimAnswerLost(s) \/ HookStores(s) \/ HookOutputs(s)
            \/ HookConfirms(s) \/ HookForgets(s) \/ HookConfirmsLegacy(s) \/ HookGivesUp(s)
            \/ UserPromptSubmit(s) \/ SessionEnd(s)

ClaudeInit ==
  /\ log = << >>
  /\ sess = [s \in Session |-> [NoSession EXCEPT !.status = "active"]]
  /\ paused = [s \in Session |-> FALSE] /\ asked = [s \in Session |-> FALSE]
  /\ sub = [s \in Session |-> [p \in PR |-> NoSub]]
  /\ batch = [s \in Session |-> [t \in Target |-> NoBatch]]
  /\ settlement = [h \in Handoff |-> NoSettlement]
  /\ exec = [h \in Handoff |-> NoExec]
  /\ nextHandoff = 1
  /\ coordinator = "serving"
  /\ entry = [s \in Session |-> NoHandoff]
  /\ hook = [s \in Session |-> Idle]
  /\ continuing = [s \in Session |-> FALSE]
  /\ shown = [s \in Session |-> {}]
  /\ others \in SUBSET Session

ClaudeNext ==
  /\ Background \/ \E s \in Session : Hooks(s)
  /\ UNCHANGED others

ClaudeSpec == ClaudeInit /\ [][ClaudeNext]_<<allVars, others>>

(* Turns keep ending, time passes, and no hook is killed at the same point for *)
(* ever.  Now and then a hook, and the turn it continues, ends before the user  *)
(* prompts again and before its handoff is stale: the code does not ensure     *)
(* that, and without it a queue starves behind one reminder, shown for ever.   *)
InTime(s, h) == h # NoHandoff /\ Records(s, h) # {}

Fairness ==
  /\ WF_allVars(Tick /\ UNCHANGED claudeVars)
  /\ \A s \in Session :
       /\ WF_allVars(StopHookStarts(s)) /\ WF_allVars(HookForgets(s))
       /\ WF_allVars(HookStores(s) \/ HookConfirms(s) \/ HookConfirmsLegacy(s) \/ HookGivesUp(s))
       /\ SF_allVars(HookClaims(s))
       /\ SF_allVars(InTime(s, hook[s].handoff) /\ HookStores(s))
       /\ SF_allVars(InTime(s, hook[s].handoff) /\ HookOutputs(s))
       /\ SF_allVars(continuing[s] /\ InTime(s, entry[s]) /\ StopHookStarts(s))
       /\ SF_allVars(InTime(s, entry[s]) /\ HookConfirms(s))

ClaudeFairSpec == ClaudeSpec /\ Fairness

-----------------------------------------------------------------------------

(* README.md: "interrupted handoffs become retryable, so duplicates are        *)
(* preferred to lost reminders".  A cursor passes only events whose reminder   *)
(* reached the session, wherever hooks are killed, answers are lost, handoffs  *)
(* go stale and are claimed again: so it is in a session whose turns no other  *)
(* plugin continues.                                                           *)
ShownUpToCursor(s) ==
  \A p \in PR : \A i \in After(log, p, 0) : i <= sub[s][p].cursor => i \in shown[s]

NothingLost == \A s \in Session \ others : ShownUpToCursor(s)

(* The same of every session, as the README says it: it does not hold, for a   *)
(* turn that another plugin's Stop hook continued confirms a reminder that its *)
(* own hook never wrote.                                                       *)
NothingLostWhoever == \A s \in Session : ShownUpToCursor(s)

(* A reminder that was confirmed is not shown again: duplicates come only of   *)
(* handoffs nobody confirmed, whoever continued the turn and whatever hook,     *)
(* late or killed, left its handoff in the file.                                *)
ConfirmedNotRepeated ==
  \A s \in Session : At(s, "claimed") \/ At(s, "stored") =>
    \A i \in hook[s].events : i > sub[s][log[i]].cursor

(* Every event a session subscribes to is shown to it in the end, although     *)
(* hooks die, answers are lost and the session is suspended in between: a      *)
(* handoff nobody finished is claimed again.  A turn that only this plugin     *)
(* continues is meant, as in NothingLost.                                      *)
EventuallyShown ==
  \A s \in Session, p \in PR, i \in 1..MaxEvents :
    (s \notin others /\ sub[s][p].state = "active" /\ i \in After(log, p, 0)) ~> (i \in shown[s])
=============================================================================
