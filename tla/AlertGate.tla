------------------------------ MODULE AlertGate ------------------------------
(***************************************************************************)
(* The alert activation gate (workbench/alerts) over the write path and    *)
(* the preview store: agent tools draft, edit, request and disarm; only a  *)
(* person, in the alerts surface, confirms or declines. The generic tools  *)
(* undo_change, restore_workspace_revision and preview/apply act on the    *)
(* same documents.                                                         *)
(*                                                                         *)
(* The content of a document is its one alert. The conditions stand for    *)
(* the alert's source.                                                     *)
(***************************************************************************)
EXTENDS PreviewApply

CONSTANTS
  Conditions,  \* what an alert can watch for
  NoConditions,\* what a workspace without an alert holds
  Ttl,         \* PENDING_ACTIVATION_TTL_MS, in clock ticks
  MaxTime,     \* bound: clock ticks
  GroupChoices \* the sets of generic tool groups a host may register

\* The operations of the alert tools, and one that stands for all others.
AlertOperations ==
  {"alerts.create_draft", "alerts.edit_conditions", "alerts.enable_activation",
   "alerts.disable_activation", "panels"}

ASSUME AlertAssumption ==
  /\ NoConditions \notin Conditions
  /\ AlertOperations \subseteq Operations /\ 0 \in ExpectedRevisions
  /\ Ttl \in Nat \ {0} /\ MaxTime \in Nat
  /\ GroupChoices \subseteq SUBSET {"restore", "preview"}

AlertStates == {"none", "draft", "pending_activation", "armed", "disarmed"}

\* expiresAt is 0 unless an activation request is pending.
Alert ==
  [state: AlertStates, conditions: Conditions \union {NoConditions}, expiresAt: 0..(MaxTime + Ttl)]

NoAlert == [state |-> "none", conditions |-> NoConditions, expiresAt |-> 0]

ASSUME ContentsAreAlerts == Contents = Alert /\ Blank = NoAlert /\ Seeded = NoAlert

VARIABLES
  now,        \* the clock
  requested,  \* every activation request: the conditions and when
  confirmed,  \* the conditions a person ever confirmed
  groups      \* the generic tool groups this host registers; never changes

alertVars == <<previewVars, now, requested, confirmed, groups>>

AlertTypeOK ==
  /\ PreviewTypeOK
  /\ now \in 0..MaxTime
  /\ requested \in SUBSET [conditions: Conditions, at: 0..MaxTime]
  /\ confirmed \in SUBSET Conditions
  /\ groups \in GroupChoices

AlertIn(w) == documents[w].content
Draft(c) == [state |-> "draft", conditions |-> c, expiresAt |-> 0]

\* isActivationRequestExpired
Expired(alert) == now >= alert.expiresAt

-----------------------------------------------------------------------------
(* The agent's tools: each goes through applyOperations *)

\* Every operation but disable leaves an inverse to the document before it.
AlertTool(t, op, alert, undoable) ==
  Edit(t, 0, op, alert, undoable, 0, NoKey) /\ UNCHANGED <<previews, now, confirmed, groups>>

CreateAlertDraft(t, c) ==
  /\ activeId # 0 /\ AlertIn(activeId).state = "none"
  /\ AlertTool(t, "alerts.create_draft", Draft(c), TRUE)
  /\ UNCHANGED requested

\* Variants: an edit leaves a pending request open; an armed alert is edited.
EditAlertDraft_KeepsRequest(t, c) ==
  /\ activeId # 0 /\ AlertIn(activeId).state \in {"draft", "pending_activation"}
  /\ AlertTool(t, "alerts.edit_conditions", [AlertIn(activeId) EXCEPT !.conditions = c], TRUE)
  /\ UNCHANGED requested
EditAlertDraft_Armed(t, c) ==
  /\ activeId # 0 /\ AlertIn(activeId).state = "armed"
  /\ AlertTool(t, "alerts.edit_conditions", [AlertIn(activeId) EXCEPT !.conditions = c], TRUE)
  /\ UNCHANGED requested

\* An edit always ends in draft: a pending request is invalidated.
EditAlertDraft(t, c) ==
  /\ activeId # 0 /\ AlertIn(activeId).state \in {"draft", "pending_activation"}
  /\ AlertTool(t, "alerts.edit_conditions", Draft(c), TRUE)
  /\ UNCHANGED requested

\* A draft, or a pending request that has expired.
EnableAlert(t) ==
  LET alert == AlertIn(activeId)
  IN  /\ activeId # 0
      /\ \/ alert.state = "draft"
         \/ alert.state = "pending_activation" /\ Expired(alert)
      /\ AlertTool(t, "alerts.enable_activation",
                   [alert EXCEPT !.state = "pending_activation", !.expiresAt = now + Ttl], TRUE)
      /\ requested' = requested \union {[conditions |-> alert.conditions, at |-> now]}

\* Variant: disarming can be undone.
DisableAlert_Undoable(t) ==
  /\ activeId # 0 /\ AlertIn(activeId).state \in {"armed", "disarmed"}
  /\ AlertTool(t, "alerts.disable_activation", [AlertIn(activeId) EXCEPT !.state = "disarmed"], TRUE)
  /\ UNCHANGED requested

\* Disarming a disarmed alert commits the same document again.
DisableAlert(t) ==
  LET alert == AlertIn(activeId)
  IN  /\ activeId # 0 /\ alert.state \in {"armed", "disarmed"}
      /\ AlertTool(t, "alerts.disable_activation", [alert EXCEPT !.state = "disarmed"], FALSE)
      /\ UNCHANGED requested

\* A tool of another part of the workbench leaves the alert alone.
OtherTool(t) ==
  /\ activeId # 0
  /\ AlertTool(t, "panels", AlertIn(activeId), TRUE)
  /\ UNCHANGED requested

\* A previewed disable_activation: apply always offers an undo.
PreviewDisable(t) ==
  /\ "preview" \in groups
  /\ activeId # 0 /\ AlertIn(activeId).state = "armed"
  /\ Preview(t, 0, [AlertIn(activeId) EXCEPT !.state = "disarmed"], TRUE)
  /\ UNCHANGED <<now, requested, confirmed, groups>>

-----------------------------------------------------------------------------
(* The alerts surface: a person decides *)

\* The decision is committed past the change history, so it has no token.
Decide(t, w, alert) ==
  /\ phase[t] = "ready"
  /\ AlertIn(w).state = "pending_activation"
  /\ \/ Commit(t, w, "human", Unkeyed, alert, NoInverse, ids[t]) /\ UNCHANGED history
     \/ FailCommit(t, w, "human", Unkeyed, alert, ids[t])
  /\ UNCHANGED <<activeId, phase, previews, now, requested, groups>>

ConfirmAlertActivation(t, w) ==
  /\ ~Expired(AlertIn(w))
  /\ Decide(t, w, [AlertIn(w) EXCEPT !.state = "armed", !.expiresAt = 0])
  /\ confirmed' = confirmed \union {AlertIn(w).conditions}

\* A decline does not ask whether the request has expired.
DeclineAlertActivation(t, w) ==
  /\ Decide(t, w, Draft(AlertIn(w).conditions))
  /\ UNCHANGED confirmed

-----------------------------------------------------------------------------
Tick ==
  /\ now < MaxTime
  /\ now' = now + 1
  /\ UNCHANGED <<previewVars, requested, confirmed, groups>>

\* The generic tools and the page.
Generic(t) ==
  \/ \E r \in history[t] : Undo(t, r)
  \/ /\ "restore" \in groups
     /\ \E r \in 1..MaxRevision : RestoreRevision(t, 0, r, 0, NoKey)
  \/ Boot(t) \/ Seed(t) \/ Reload(t)

AlertInit ==
  PreviewInit /\ now = 0 /\ requested = {} /\ confirmed = {} /\ groups \in GroupChoices

AlertNext ==
  \/ \E t \in Tabs :
       \/ \E c \in Conditions : CreateAlertDraft(t, c) \/ EditAlertDraft(t, c)
       \/ EnableAlert(t) \/ DisableAlert(t) \/ OtherTool(t) \/ PreviewDisable(t)
       \/ \E w \in WorkspaceIds : ConfirmAlertActivation(t, w) \/ DeclineAlertActivation(t, w)
       \/ \E p \in previews[t].entries :
            Apply(t, p, 0, NoKey) /\ UNCHANGED <<now, requested, confirmed, groups>>
       \/ /\ Generic(t)
          /\ previews' = [previews EXCEPT ![t] = IF phase'[t] = "loading" THEN EmptyStore ELSE @]
          /\ UNCHANGED <<now, requested, confirmed, groups>>
  \/ Tick

AlertSpec == AlertInit /\ [][AlertNext]_alertVars

-----------------------------------------------------------------------------
(* Properties *)

\* An armed alert watches conditions a person confirmed, however the
\* document got into that state (undo, redo, restore, reload, apply).
ArmedWasConfirmed ==
  \A w \in WorkspaceIds :
    AlertIn(w).state = "armed" => AlertIn(w).conditions \in confirmed

\* A request that could be confirmed now shows exactly the conditions an
\* agent asked for within the last Ttl, so nothing stale can be confirmed
\* (PENDING_ACTIVATION_TTL_MS, "a stale request can never be confirmed").
OpenRequestIsFresh ==
  \A w \in WorkspaceIds :
    LET alert == AlertIn(w)
    IN  alert.state = "pending_activation" /\ ~Expired(alert) =>
          \E q \in requested : q.conditions = alert.conditions /\ now - q.at < Ttl

\* Whatever is armed or could be confirmed now was seen by somebody as it is.
ActivationsHold == ArmedWasConfirmed /\ OpenRequestIsFresh

\* Only a person's decision makes an alert armed: "no sequence of tool
\* calls, in any order, with any arguments, transitions an alert to 'armed'".
OnlyHumanArms ==
  \A w \in WorkspaceIds :
    AlertIn(w).state # "armed" /\ AlertIn(w)'.state = "armed" => answer'.call = "human"
OnlyHumansArm == [][OnlyHumanArms]_alertVars

\* The part of it that holds: on a host whose only generic tool is
\* undo_change, undoing and redoing included.  (With restore it fails: the
\* run alert_rearmed.)
OnlyHumansArmByUndo == [][groups = {} => OnlyHumanArms]_alertVars

=============================================================================
