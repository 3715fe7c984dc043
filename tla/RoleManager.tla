----------------------------- MODULE RoleManager -----------------------------
(***************************************************************************)
(* The real RoleManager: NicsPreview, WriteRoles, ApplyRoles and           *)
(* CancelRevert.  The wizard runs each call in a command goroutine of its  *)
(* own, under a context that ends WizardTimeout ticks after the call; a    *)
(* goroutine goes on when the wizard that started it is closed.  A job is  *)
(* one such goroutine.  Every command it runs is a step, so that two jobs, *)
(* the revert service and the keyboard interleave between the commands; a  *)
(* command may fail at any step (an escalation refused, a full disk, the   *)
(* context ended), which ends the job.                                     *)
(***************************************************************************)
EXTENDS RolesHost

CONSTANTS
    Slots,          \* the jobs that may be in flight at once
    WizardTimeout   \* wizardTimeout, in ticks

ASSUME JobAssumption ==
    /\ WizardTimeout \in Nat
    /\ WizardTimeout < RevertDelay  \* 60 seconds and 120 seconds

VARIABLES
    stagedConf,  \* roles.conf.staged in the state directory, a fixed name
    stagedPrev,  \* roles.conf.prev.staged, likewise
    job          \* the jobs

jobVars == <<stagedConf, stagedPrev, job>>

Kinds == {"none", "preview", "write", "apply", "cancel"}
Steps == {"idle", "preview", "stage", "install", "arm", "nics", "stop",
          "stopTimer", "sent"}

(* owner is history: the wizard that started the job.  armed and failed    *)
(* are the RevertScheduled and the error of the job's message.             *)
Jobs == [kind : Kinds, pc : Steps, arg : Contents, armed : BOOLEAN,
         failed : BOOLEAN, budget : 0 .. WizardTimeout, owner : Nat]

Idle == [kind |-> "none", pc |-> "idle", arg |-> Empty, armed |-> FALSE,
         failed |-> FALSE, budget |-> 0, owner |-> 0]

ManagerTypeOK ==
    /\ stagedConf \in Contents
    /\ stagedPrev \in Contents
    /\ job \in [Slots -> Jobs]

ManagerInit ==
    /\ stagedConf = Empty
    /\ stagedPrev = Empty
    /\ job = [j \in Slots |-> Idle]

Running(j) == job[j].pc \notin {"idle", "sent"}

(* The wizard starts a command: a call with its argument, in a free slot.  *)
Start(kind, first, arg, owner) ==
    \E j \in Slots :
        /\ job[j].pc = "idle"
        /\ job' = [job EXCEPT ![j] =
                     [kind |-> kind, pc |-> first, arg |-> arg, armed |-> FALSE,
                      failed |-> FALSE, budget |-> WizardTimeout,
                      owner |-> owner]]

Goes(j, pc) == job' = [job EXCEPT ![j].pc = pc]

(* The call returns, and its message is on the way.                        *)
Returns(j, failed) ==
    job' = [job EXCEPT ![j] =
              [@ EXCEPT !.pc = "sent", !.failed = failed, !.budget = 0]]

-----------------------------------------------------------------------------
(* omarchy-router-nics --preview only reads.                               *)
Preview(j) ==
    /\ job[j].pc = "preview"
    /\ Returns(j, FALSE) \/ Returns(j, TRUE)
    /\ UNCHANGED <<hostVars, stagedConf, stagedPrev>>

(* os.WriteFile of the argument to the staging file of the call.  One that *)
(* fails may have cut the file short.                                      *)
Stage(j) ==
    /\ job[j].pc = "stage"
    /\ \/ /\ Goes(j, "install")
          /\ IF job[j].kind = "write"
             THEN stagedConf' = job[j].arg /\ UNCHANGED stagedPrev
             ELSE stagedPrev' = job[j].arg /\ UNCHANGED stagedConf
       \/ /\ Returns(j, TRUE)
          /\ IF job[j].kind = "write"
             THEN /\ stagedConf' \in CutShort(stagedConf, job[j].arg)
                  /\ UNCHANGED stagedPrev
             ELSE /\ stagedPrev' \in CutShort(stagedPrev, job[j].arg)
                  /\ UNCHANGED stagedConf
    /\ UNCHANGED hostVars

(* install: copies whatever the staging file holds by now.  It ends        *)
(* WriteRoles; in ApplyRoles it is the revert copy, and arming follows     *)
(* when systemd-run is there.  One that fails may have removed or replaced *)
(* the destination.                                                        *)
Install(j) ==
    /\ job[j].pc = "install"
    /\ \/ /\ job[j].kind = "write"
          /\ conf' = stagedConf
          /\ Returns(j, FALSE)
          /\ UNCHANGED prevConf
       \/ /\ job[j].kind = "apply"
          /\ prevConf' = stagedPrev
          /\ Goes(j, IF HasSystemdRun THEN "arm" ELSE "nics")
          /\ UNCHANGED conf
       \/ /\ Returns(j, TRUE)
          /\ IF job[j].kind = "write"
             THEN conf' \in CutShort(conf, stagedConf) /\ UNCHANGED prevConf
             ELSE prevConf' \in CutShort(prevConf, stagedPrev) /\ UNCHANGED conf
    /\ UNCHANGED <<live, unit, stagedConf, stagedPrev>>

(* Mutation: the error of systemd-run is not returned.                     *)
ArmGoesOn(j) ==
    /\ job[j].pc = "arm"
    /\ \/ /\ CanArm
          /\ Armed(job[j].arg)
          /\ job' = [job EXCEPT ![j] = [@ EXCEPT !.pc = "nics", !.armed = TRUE]]
       \/ /\ Goes(j, "nics")
          /\ UNCHANGED unit
    /\ UNCHANGED <<conf, prevConf, live, stagedConf, stagedPrev>>

(* systemd-run: the revert is armed before the apply.                      *)
Arm(j) ==
    /\ job[j].pc = "arm"
    /\ \/ /\ CanArm
          /\ Armed(job[j].arg)
          /\ job' = [job EXCEPT ![j] = [@ EXCEPT !.pc = "nics", !.armed = TRUE]]
       \/ /\ Returns(j, TRUE)
          /\ UNCHANGED unit
    /\ UNCHANGED <<conf, prevConf, live, stagedConf, stagedPrev>>

(* omarchy-router-nics --apply reads roles.conf as it is now.  A failed    *)
(* one may have rewritten the mapping; the revert stays armed.             *)
NicsApply(j) ==
    /\ job[j].pc = "nics"
    /\ \/ live' = conf /\ Returns(j, FALSE)
       \/ live' \in {live, conf} /\ Returns(j, TRUE)
    /\ UNCHANGED <<conf, prevConf, unit, stagedConf, stagedPrev>>

(* CancelRevert: systemctl stops the service, then the timer, and the      *)
(* timer may elapse between the two.  A stop that failed only because the  *)
(* units are gone is reported as a success.                                *)
StopService(j) ==
    /\ job[j].pc = "stop"
    /\ \/ ServiceStopped /\ Goes(j, "stopTimer")
       \/ Returns(j, TRUE) /\ UNCHANGED <<conf, live, unit>>
    /\ UNCHANGED <<prevConf, stagedConf, stagedPrev>>

(* Mutation: every failed stop is taken for a harmless one.                *)
StopTimerSwallows(j) ==
    /\ job[j].pc = "stopTimer"
    /\ Returns(j, FALSE)
    /\ TimerStopped \/ UNCHANGED unit
    /\ UNCHANGED <<conf, prevConf, live, stagedConf, stagedPrev>>

StopTimer(j) ==
    /\ job[j].pc = "stopTimer"
    /\ \/ TimerStopped /\ Returns(j, FALSE)
       \/ Returns(j, TRUE) /\ UNCHANGED unit
    /\ UNCHANGED <<conf, prevConf, live, stagedConf, stagedPrev>>

JobStep(j) ==
    \/ Preview(j)
    \/ Stage(j)
    \/ Install(j)
    \/ Arm(j)
    \/ NicsApply(j)
    \/ StopService(j)
    \/ StopTimer(j)

(* Time passes.  A job whose context has no time left must end first; the  *)
(* timer may elapse late but never early.                                  *)
Tick ==
    /\ \A j \in Slots : Running(j) => job[j].budget > 0
    /\ (\E j \in Slots : Running(j)) \/ (unit.phase = "armed" /\ unit.left > 0)
    /\ job' = [j \in Slots |->
                 IF Running(j) THEN [job[j] EXCEPT !.budget = @ - 1] ELSE job[j]]
    /\ unit' = IF unit.phase = "armed" /\ unit.left > 0
               THEN [unit EXCEPT !.left = @ - 1] ELSE unit
    /\ UNCHANGED <<conf, prevConf, live, stagedConf, stagedPrev>>
=============================================================================
