----------------------------- MODULE RolesWizard -----------------------------
(***************************************************************************)
(* The roles wizard of the cockpit (cmd/tui-router/wizard.go) over the     *)
(* RoleManager, with the part of the app (app.go) that opens it, feeds it  *)
(* messages and closes it: the snapshot the wizard is opened with, the     *)
(* loads that refresh it, and the delivery of every other message to       *)
(* whichever wizard is open when it arrives.                               *)
(***************************************************************************)
EXTENDS RoleManager, FiniteSets

CONSTANTS
    MaxOpens,   \* how many times the wizard is opened
    MaxLoads,   \* how many loads with different contents are in flight
    Failures,   \* what may fail under the program: "process", "machine"
    NoSnapshot  \* a.cur before the first load arrives

ASSUME WizardAssumption ==
    /\ MaxOpens \in Nat
    /\ MaxLoads \in Nat
    /\ Failures \subseteq {"process", "machine"}
    /\ NoSnapshot \notin Contents

VARIABLES
    cur,    \* the roles.conf content in the app's current snapshot
    loads,  \* contents read by loads whose message has not arrived
    wiz,    \* the open wizard
    opens   \* the wizards opened so far

appVars == <<cur, loads, wiz, opens>>
vars == <<conf, prevConf, live, unit, stagedConf, stagedPrev, job,
          cur, loads, wiz, opens>>

WizardSteps == {"closed", "select", "loading", "write", "apply", "done"}

(* prev is the content the wizard was opened with, new the content it has  *)
(* rendered (newContent, "" until a preview is built), armed the           *)
(* RevertScheduled of the result.                                          *)
Wizards == [step : WizardSteps, waiting : BOOLEAN, prev : Contents,
            new : Contents, armed : BOOLEAN, asking : BOOLEAN,
            cancelled : BOOLEAN]

TypeOK ==
    /\ HostTypeOK
    /\ ManagerTypeOK
    /\ cur \in Contents \cup {NoSnapshot}
    /\ loads \in SUBSET Contents
    /\ wiz \in Wizards
    /\ opens \in 0 .. MaxOpens

NewWizard(content) ==
    [step |-> "select", waiting |-> FALSE, prev |-> content, new |-> Empty,
     armed |-> FALSE, asking |-> FALSE, cancelled |-> FALSE]

Closed == [NewWizard(Empty) EXCEPT !.step = "closed"]

Init ==
    /\ HostInit
    /\ ManagerInit
    /\ cur = NoSnapshot
    /\ loads = {}
    /\ wiz = Closed
    /\ opens = 0

-----------------------------------------------------------------------------
(* The app's snapshot.  Loads run every two seconds and on demand, overlap *)
(* and finish in any order; one that arrives while the wizard is open is   *)
(* dropped.                                                                *)
LoadReads ==
    /\ Cardinality(loads) < MaxLoads
    /\ loads' = loads \cup {conf}
    /\ UNCHANGED <<hostVars, jobVars, cur, wiz, opens>>

LoadArrives ==
    /\ \E content \in loads :
         /\ loads' \in {loads, loads \ {content}}
         /\ cur' = IF wiz.step = "closed" THEN content ELSE cur
    /\ UNCHANGED <<hostVars, jobVars, wiz, opens>>

(* Mutation: the wizard opens before a snapshot was loaded.                *)
OpenWizardUnloaded ==
    /\ wiz.step = "closed"
    /\ opens < MaxOpens
    /\ wiz' = NewWizard(cur)
    /\ opens' = opens + 1
    /\ UNCHANGED <<hostVars, jobVars, cur, loads>>

OpenWizard ==
    /\ wiz.step = "closed"
    /\ cur # NoSnapshot
    /\ opens < MaxOpens
    /\ wiz' = NewWizard(cur)
    /\ opens' = opens + 1
    /\ UNCHANGED <<hostVars, jobVars, cur, loads>>

(* The app drops a wizard that says it is closed.                          *)
Close ==
    /\ wiz' = Closed
    /\ UNCHANGED <<hostVars, jobVars, cur, loads, opens>>

-----------------------------------------------------------------------------
(* The keyboard.  ctrl+c closes at any time, also while a command is in    *)
(* flight; every other key waits until no command is.                      *)
Interrupt == wiz.step # "closed" /\ Close

At(step) == wiz.step = step /\ ~wiz.waiting

Waits(step) == wiz' = [wiz EXCEPT !.step = step, !.waiting = TRUE]

(* Mutation: the preview is built without asking for a WAN and a LAN.      *)
BuildPreviewUnassigned ==
    /\ At("select")
    /\ \E content \in Contents :
         wiz' = [wiz EXCEPT !.new = content, !.step = "loading", !.waiting = TRUE]
    /\ Start("preview", "preview", Empty, opens)
    /\ UNCHANGED <<hostVars, stagedConf, stagedPrev, cur, loads, opens>>

(* enter on the selection screen, once a WAN and a LAN are assigned.       *)
BuildPreview ==
    /\ At("select")
    /\ \E content \in Assignments :
         wiz' = [wiz EXCEPT !.new = content, !.step = "loading", !.waiting = TRUE]
    /\ Start("preview", "preview", Empty, opens)
    /\ UNCHANGED <<hostVars, stagedConf, stagedPrev, cur, loads, opens>>

ConfirmWrite ==
    /\ At("write")
    /\ Waits("write")
    /\ Start("write", "stage", wiz.new, opens)
    /\ UNCHANGED <<hostVars, stagedConf, stagedPrev, cur, loads, opens>>

DeclineWrite ==
    /\ At("write")
    /\ wiz' = [wiz EXCEPT !.step = "select"]
    /\ UNCHANGED <<hostVars, jobVars, cur, loads, opens>>

(* Mutation: the new content is staged as the one to go back to.           *)
ConfirmApplyOfNew ==
    /\ At("apply")
    /\ Waits("apply")
    /\ Start("apply", "stage", wiz.new, opens)
    /\ UNCHANGED <<hostVars, stagedConf, stagedPrev, cur, loads, opens>>

(* y on the second confirm: the previous content is what the wizard was    *)
(* opened with.                                                            *)
ConfirmApply ==
    /\ At("apply")
    /\ Waits("apply")
    /\ Start("apply", "stage", wiz.prev, opens)
    /\ UNCHANGED <<hostVars, stagedConf, stagedPrev, cur, loads, opens>>

(* c on the result screen, then y or n.                                    *)
AskCancel ==
    /\ At("done")
    /\ ~wiz.asking
    /\ wiz.armed
    /\ ~wiz.cancelled
    /\ wiz' = [wiz EXCEPT !.asking = TRUE]
    /\ UNCHANGED <<hostVars, jobVars, cur, loads, opens>>

ConfirmCancel ==
    /\ At("done")
    /\ wiz.asking
    /\ Waits("done")
    /\ Start("cancel", "stop", Empty, opens)
    /\ UNCHANGED <<hostVars, stagedConf, stagedPrev, cur, loads, opens>>

DeclineCancel ==
    /\ At("done")
    /\ wiz.asking
    /\ wiz' = [wiz EXCEPT !.asking = FALSE]
    /\ UNCHANGED <<hostVars, jobVars, cur, loads, opens>>

(* esc on the selection screen, n on the second confirm (roles.conf stays  *)
(* written and is not applied), q on the result screen.                    *)
Quit ==
    /\ At("select") \/ At("apply") \/ (At("done") /\ ~wiz.asking)
    /\ Close

-----------------------------------------------------------------------------
(* Mutation: a failed command leaves the wizard waiting.                   *)
HandledStuck(message) ==
    [wiz EXCEPT !.waiting = message.failed,
                !.step = CASE message.kind = "preview" -> "write"
                           [] message.kind = "write" -> "apply"
                           [] OTHER -> "done",
                !.armed = message.armed]

(* The wizard's message handlers.                                          *)
Handled(message) ==
    CASE message.kind = "preview" ->
           [wiz EXCEPT !.waiting = FALSE, !.step = "write"]
      [] message.kind = "write" ->
           [wiz EXCEPT !.waiting = FALSE,
                       !.step = IF message.failed THEN "select" ELSE "apply"]
      [] message.kind = "apply" ->
           [wiz EXCEPT !.waiting = FALSE, !.step = "done",
                       !.armed = message.armed]
      [] OTHER ->  \* "cancel"
           [wiz EXCEPT !.waiting = FALSE, !.asking = FALSE,
                       !.cancelled = wiz.cancelled \/ ~message.failed]

(* A finished job's message reaches the wizard that is open now, whichever *)
(* wizard started the job; with none open the app ignores it.              *)
Deliver(j) ==
    /\ job[j].pc = "sent"
    /\ job' = [job EXCEPT ![j] = Idle]
    /\ wiz' = IF wiz.step = "closed" THEN wiz ELSE Handled(job[j])
    /\ UNCHANGED <<hostVars, stagedConf, stagedPrev, cur, loads, opens>>

(* The process ends: a hangup of the SSH session, a kill.  Its goroutines  *)
(* end with it, and the next run of the program starts without a snapshot. *)
ProcessGone ==
    /\ wiz' = Closed
    /\ job' = [j \in Slots |-> Idle]
    /\ cur' = NoSnapshot
    /\ loads' = {}
    /\ UNCHANGED <<conf, prevConf, live, stagedConf, stagedPrev, opens>>

Hangup ==
    /\ "process" \in Failures
    /\ cur # NoSnapshot
    /\ ProcessGone
    /\ UNCHANGED unit

(* The machine restarts: a transient unit does not survive it.             *)
Reboot ==
    /\ "machine" \in Failures
    /\ cur # NoSnapshot
    /\ ProcessGone
    /\ unit' = Unloaded

-----------------------------------------------------------------------------
Service == RevertService /\ UNCHANGED <<jobVars, appVars>>

Goroutine(j) == JobStep(j) /\ UNCHANGED appVars

Clock == Tick /\ UNCHANGED appVars

Keyboard ==
    \/ OpenWizard
    \/ Interrupt
    \/ BuildPreview
    \/ ConfirmWrite
    \/ DeclineWrite
    \/ ConfirmApply
    \/ AskCancel
    \/ ConfirmCancel
    \/ DeclineCancel
    \/ Quit

Next ==
    \/ Keyboard
    \/ LoadReads
    \/ LoadArrives
    \/ \E j \in Slots : Goroutine(j)
    \/ \E j \in Slots : Deliver(j)
    \/ Service
    \/ Clock
    \/ Hangup
    \/ Reboot

Spec == Init /\ [][Next]_vars

(* Go runs every goroutine and Bubble Tea delivers every message, systemd  *)
(* runs its units and time passes.  Nothing is assumed of the operator.    *)
FairSpec ==
    /\ Spec
    /\ \A j \in Slots : WF_vars(Goroutine(j)) /\ WF_vars(Deliver(j))
    /\ WF_vars(Service)
    /\ WF_vars(Clock)
-----------------------------------------------------------------------------
(* The revert never runs while an apply does: the two would rewrite        *)
(* roles.conf and the mapping under each other.  ApplyRoles arms the timer *)
(* before its last command, and only the two timeouts keep them apart.     *)
RevertNeverRacesApply ==
    Firing => \A j \in Slots : job[j].pc # "nics"

(* With systemd-run there, the mapping is rewritten only under an armed    *)
(* revert whose copy holds the content the wizard was opened with, however *)
(* the commands before it ended (ApplyRoles).                              *)
ApplyRunsGuarded ==
    HasSystemdRun => \A j \in Slots :
        job[j].pc = "nics" => unit.phase = "armed" /\ prevConf = job[j].arg

(* Whatever WriteRoles says it installed is a rendered, validated          *)
(* assignment of at least one WAN and one LAN (buildPreview,               *)
(* RenderRolesConf).                                                       *)
WritesAreRendered ==
    [][\A j \in Slots :
         /\ job[j].kind = "write"
         /\ job[j].pc = "install"
         /\ job'[j].pc = "sent"
         /\ ~job'[j].failed
         => conf' \in Assignments]_vars

(* A pending revert restores the content its apply was given as the        *)
(* previous one: nothing replaces the copy between arming and firing.      *)
RevertSourceIsPrevious ==
    Pending => prevConf = unit.from

(* A pending revert restores the roles.conf that was there before the      *)
(* session, and what was live until it was armed is what was live then:    *)
(* with a roles.conf that had been applied, the router comes back on the   *)
(* mapping it had.  One that was not applied (n on an earlier second       *)
(* confirm, an edit by hand) is what the revert applies, not the mapping   *)
(* that was live.  Nobody else writes the file during the session.         *)
RevertRestoresFound ==
    \A content, mapping \in Contents :
        conf = content /\ live = mapping =>
            [](Pending => prevConf = content /\ unit.was = mapping)

(* When the result screen says the revert is cancelled, no timer is left   *)
(* that would start one.  A revert may still be running, one whose timer   *)
(* elapsed between the stop of the service and the stop of the timer: the  *)
(* comment on CancelRevertArgv promises that there is none.                *)
CancelledMeansDisarmed ==
    wiz.cancelled => unit.phase # "armed"

(* When the result screen says the new assignment is permanent, it is the  *)
(* one in roles.conf.                                                      *)
CancelledMeansPermanent ==
    wiz.cancelled /\ wiz.step = "done" => conf = wiz.new

(* A wizard that ignores the keyboard has a command of its own in flight   *)
(* or a message of it on the way, whatever stale messages it was given     *)
(* before: it is never stuck waiting for nothing.                          *)
WaitingHasJob ==
    wiz.waiting => \E j \in Slots : job[j].pc # "idle" /\ job[j].owner = opens

(* Every command's answer reaches the screen.                              *)
WizardAnswers == wiz.waiting ~> ~wiz.waiting

(* A session the apply cuts off gets its assignment back: with the wizard  *)
(* and its commands gone and the revert armed, the copy ends up live again *)
(* or systemd shows the unit as failed.                                    *)
NobodyThere == wiz.step = "closed" /\ \A j \in Slots : job[j].pc = "idle"

CutOffIsReverted ==
    unit.phase = "armed" /\ NobodyThere
      ~> unit.phase = "failed" \/ (unit.phase = "none" /\ conf = prevConf /\ live = prevConf)
=============================================================================
