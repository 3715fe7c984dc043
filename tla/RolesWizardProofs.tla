-------------------------- MODULE RolesWizardProofs --------------------------
(***************************************************************************)
(* What holds of the roles wizard for every set of assignments, every      *)
(* number of commands in flight, of wizards opened and of loads, and every *)
(* pair of timeouts of which the revert's is the longer.                   *)
(***************************************************************************)
EXTENDS RolesWizard, TLAPS

(* Constants as the proofs need them.                                      *)
LEMMA Timeouts ==
    /\ RevertDelay \in Nat
    /\ WizardTimeout \in Nat
    /\ MaxOpens \in Nat
    /\ WizardTimeout < RevertDelay
    /\ Empty \in Contents
    /\ HasSystemdRun \in BOOLEAN
  BY HostAssumption, JobAssumption, WizardAssumption DEF Contents

(* The value of the app without an open wizard is one of the Wizards.      *)
LEMMA ClosedTyped == Closed \in Wizards
  BY Timeouts DEF Closed, NewWizard, Wizards, WizardSteps

(* A free slot holds one of the Jobs.                                      *)
LEMMA IdleTyped == Idle \in Jobs
  BY Timeouts DEF Idle, Jobs, Kinds, Steps

(* A unit that has ended is one of the Units, whichever way it ended.      *)
LEMMA UnitsEnded ==
    /\ Unloaded \in Units
    /\ Ended("failed") \in Units
  BY Timeouts DEF Unloaded, Ended, Units, Phases

(* A started job is typed.                                                 *)
LEMMA StartTyped ==
    ASSUME job \in [Slots -> Jobs],
           NEW kind \in Kinds, NEW first \in Steps, NEW arg \in Contents,
           NEW owner \in Nat, Start(kind, first, arg, owner)
    PROVE  job' \in [Slots -> Jobs]
  <1> DEFINE started == [kind |-> kind, pc |-> first, arg |-> arg,
                         armed |-> FALSE, failed |-> FALSE,
                         budget |-> WizardTimeout, owner |-> owner]
  <1>1. started \in Jobs
    <2>1. WizardTimeout \in 0 .. WizardTimeout
      BY Timeouts
    <2>2. QED BY <2>1 DEF Jobs
  <1>2. PICK j \in Slots : job' = [job EXCEPT ![j] = started]
    BY DEF Start
  <1> HIDE DEF started
  <1>3. QED BY <1>1, <1>2

(* The host and the jobs keep their types over every command.              *)
LEMMA JobStepTyped ==
    ASSUME HostTypeOK, ManagerTypeOK, NEW j \in Slots, JobStep(j)
    PROVE  HostTypeOK' /\ ManagerTypeOK'
  <1> USE Timeouts DEF HostTypeOK, ManagerTypeOK
  <1>0. job[j] \in Jobs
    OBVIOUS
  <1>1. ASSUME NEW failed \in BOOLEAN, Returns(j, failed)
        PROVE  job' \in [Slots -> Jobs]
    <2>1. 0 \in 0 .. WizardTimeout
      OBVIOUS
    <2>2. [job[j] EXCEPT !.pc = "sent", !.failed = failed, !.budget = 0] \in Jobs
      BY <1>0, <2>1 DEF Jobs, Steps
    <2>3. QED BY <1>1, <2>2 DEF Returns
  <1>2. ASSUME NEW pc \in Steps, Goes(j, pc)
        PROVE  job' \in [Slots -> Jobs]
    <2>1. [job[j] EXCEPT !.pc = pc] \in Jobs
      BY <1>0 DEF Jobs
    <2>2. QED BY <1>2, <2>1 DEF Goes
  <1>3. CASE Preview(j)
    BY <1>1, <1>3 DEF Preview, hostVars
  <1>4. CASE Stage(j)
    <2>1. job[j].arg \in Contents
      BY <1>0 DEF Jobs
    <2>2. job' \in [Slots -> Jobs]
      BY <1>1, <1>2, <1>4 DEF Stage, Steps
    <2>3. QED BY <1>4, <2>1, <2>2 DEF Stage, CutShort, hostVars
  <1>5. CASE Install(j)
    <2>1. job' \in [Slots -> Jobs]
      BY <1>1, <1>2, <1>5 DEF Install, Steps
    <2>2. QED BY <1>5, <2>1 DEF Install, CutShort
  <1>6. CASE Arm(j)
    <2>1. [job[j] EXCEPT !.pc = "nics", !.armed = TRUE] \in Jobs
      BY <1>0 DEF Jobs, Steps
    <2>2. job' \in [Slots -> Jobs]
      BY <1>1, <1>6, <2>1 DEF Arm
    <2>3. unit' \in Units
      <3>1. job[j].arg \in Contents /\ RevertDelay \in 0 .. RevertDelay
        BY <1>0 DEF Jobs
      <3>2. [phase |-> "armed", left |-> RevertDelay,
             from |-> job[j].arg, was |-> live] \in Units
        BY <3>1 DEF Units, Phases
      <3>3. QED BY <1>6, <3>2 DEF Arm, Armed
    <2>4. QED BY <1>6, <2>2, <2>3 DEF Arm
  <1>7. CASE NicsApply(j)
    <2>1. job' \in [Slots -> Jobs]
      BY <1>1, <1>7 DEF NicsApply
    <2>2. QED BY <1>7, <2>1 DEF NicsApply
  <1>8. CASE StopService(j)
    <2>1. job' \in [Slots -> Jobs]
      BY <1>1, <1>2, <1>8 DEF StopService, Steps
    <2>2. unit' \in Units /\ live' \in Contents /\ conf' \in Contents
      BY <1>8, UnitsEnded DEF StopService, ServiceStopped, CutShort
    <2>3. QED BY <1>8, <2>1, <2>2 DEF StopService
  <1>9. CASE StopTimer(j)
    <2>1. job' \in [Slots -> Jobs]
      BY <1>1, <1>9 DEF StopTimer
    <2>2. unit' \in Units
      BY <1>9, UnitsEnded DEF StopTimer, TimerStopped
    <2>3. QED BY <1>9, <2>1, <2>2 DEF StopTimer
  <1>10. QED BY <1>3, <1>4, <1>5, <1>6, <1>7, <1>8, <1>9 DEF JobStep

(* The revert service preserves the types of the host.                     *)
LEMMA ServiceTyped ==
    ASSUME HostTypeOK, RevertService
    PROVE  HostTypeOK'
  <1> USE Timeouts, UnitsEnded DEF HostTypeOK
  <1>1. CASE RevertFires
    BY <1>1 DEF RevertFires, Units, Phases
  <1>2. CASE RevertCopies
    BY <1>2 DEF RevertCopies, CutShort, Units, Phases
  <1>3. CASE RevertApplies
    BY <1>3 DEF RevertApplies
  <1>4. QED BY <1>1, <1>2, <1>3 DEF RevertService

(* So does time: a budget and a delay are counted down only while there is *)
(* something left of them.                                                 *)
LEMMA TickTyped ==
    ASSUME HostTypeOK, ManagerTypeOK, Tick
    PROVE  HostTypeOK' /\ ManagerTypeOK'
  <1> USE Timeouts DEF HostTypeOK, ManagerTypeOK
  <1>1. job' \in [Slots -> Jobs]
    <2>1. ASSUME NEW j \in Slots
          PROVE  (IF Running(j) THEN [job[j] EXCEPT !.budget = @ - 1]
                  ELSE job[j]) \in Jobs
      <3>1. job[j] \in Jobs
        OBVIOUS
      <3>2. CASE Running(j)
        <4>1. job[j].budget \in 0 .. WizardTimeout /\ job[j].budget > 0
          BY <3>1, <3>2 DEF Tick, Jobs
        <4>2. job[j].budget - 1 \in 0 .. WizardTimeout
          BY <4>1
        <4>3. QED BY <3>1, <3>2, <4>2 DEF Jobs
      <3>3. QED BY <3>1, <3>2
    <2>2. QED BY <2>1 DEF Tick
  <1>2. unit' \in Units
    <2>1. unit.left \in 0 .. RevertDelay
      BY DEF Units
    <2>2. unit.left > 0 => unit.left - 1 \in 0 .. RevertDelay
      BY <2>1
    <2>3. QED BY <2>2 DEF Tick, Units
  <1>3. QED BY <1>1, <1>2 DEF Tick

-----------------------------------------------------------------------------
(* The program starts with its types.                                      *)
LEMMA InitTyped == Init => TypeOK
  <1> SUFFICES ASSUME Init PROVE TypeOK
    OBVIOUS
  <1> USE Timeouts
  <1>1. HostTypeOK
    BY UnitsEnded DEF Init, HostInit, HostTypeOK
  <1>2. ManagerTypeOK
    BY IdleTyped DEF Init, ManagerInit, ManagerTypeOK
  <1>3. QED BY <1>1, <1>2, ClosedTyped DEF Init, TypeOK

(* Each key of the wizard keeps every part typed.                          *)
LEMMA KeyboardTyped ==
    ASSUME TypeOK, Keyboard
    PROVE  TypeOK'
  <1> USE Timeouts
  <1>w. wiz \in Wizards /\ wiz.prev \in Contents /\ wiz.new \in Contents
    BY DEF TypeOK, Wizards
  <1>o. opens \in 0 .. MaxOpens /\ opens \in Nat
    BY DEF TypeOK
  <1>j. job \in [Slots -> Jobs]
    BY DEF TypeOK, ManagerTypeOK
  <1>1. CASE OpenWizard
    <2>1. cur \in Contents
      BY <1>1 DEF OpenWizard, TypeOK
    <2>2. wiz' \in Wizards
      BY <1>1, <2>1 DEF OpenWizard, NewWizard, Wizards, WizardSteps
    <2>3. opens' \in 0 .. MaxOpens
      BY <1>1, <1>o DEF OpenWizard
    <2>4. QED
      BY <1>1, <2>2, <2>3 DEF OpenWizard, TypeOK, HostTypeOK, ManagerTypeOK,
                              hostVars, jobVars
  <1>2. CASE Close
    BY <1>2, ClosedTyped DEF Close, TypeOK, HostTypeOK, ManagerTypeOK,
                             hostVars, jobVars
  <1>3. CASE BuildPreview
    <2>1. job' \in [Slots -> Jobs]
      BY <1>3, <1>o, <1>j, StartTyped DEF BuildPreview, Kinds, Steps
    <2>2. wiz' \in Wizards
      BY <1>3, <1>w DEF BuildPreview, Wizards, WizardSteps, Contents
    <2>3. QED
      BY <1>3, <2>1, <2>2 DEF BuildPreview, TypeOK, HostTypeOK, ManagerTypeOK,
                              hostVars
  <1>4. CASE ConfirmWrite
    <2>1. job' \in [Slots -> Jobs]
      BY <1>4, <1>w, <1>o, <1>j, StartTyped DEF ConfirmWrite, Kinds, Steps
    <2>2. wiz' \in Wizards
      BY <1>4, <1>w DEF ConfirmWrite, Waits, Wizards, WizardSteps
    <2>3. QED
      BY <1>4, <2>1, <2>2 DEF ConfirmWrite, TypeOK, HostTypeOK, ManagerTypeOK,
                              hostVars
  <1>5. CASE ConfirmApply
    <2>1. job' \in [Slots -> Jobs]
      BY <1>5, <1>w, <1>o, <1>j, StartTyped DEF ConfirmApply, Kinds, Steps
    <2>2. wiz' \in Wizards
      BY <1>5, <1>w DEF ConfirmApply, Waits, Wizards, WizardSteps
    <2>3. QED
      BY <1>5, <2>1, <2>2 DEF ConfirmApply, TypeOK, HostTypeOK, ManagerTypeOK,
                              hostVars
  <1>6. CASE ConfirmCancel
    <2>1. job' \in [Slots -> Jobs]
      BY <1>6, <1>w, <1>o, <1>j, StartTyped DEF ConfirmCancel, Kinds, Steps
    <2>2. wiz' \in Wizards
      BY <1>6, <1>w DEF ConfirmCancel, Waits, Wizards, WizardSteps
    <2>3. QED
      BY <1>6, <2>1, <2>2 DEF ConfirmCancel, TypeOK, HostTypeOK, ManagerTypeOK,
                              hostVars
  <1>7. CASE DeclineWrite \/ AskCancel \/ DeclineCancel
    <2>1. wiz' \in Wizards
      BY <1>7, <1>w DEF DeclineWrite, AskCancel, DeclineCancel, Wizards,
                        WizardSteps
    <2>2. UNCHANGED <<hostVars, jobVars, cur, loads, opens>>
      BY <1>7 DEF DeclineWrite, AskCancel, DeclineCancel
    <2>3. QED
      BY <2>1, <2>2 DEF TypeOK, HostTypeOK, ManagerTypeOK, hostVars, jobVars
  <1>8. QED
    BY <1>1, <1>2, <1>3, <1>4, <1>5, <1>6, <1>7 DEF Keyboard, Interrupt, Quit

(* A message preserves them, also one of a job an earlier wizard started.  *)
LEMMA DeliverTyped ==
    ASSUME TypeOK, NEW j \in Slots, Deliver(j)
    PROVE  TypeOK'
  <1>1. job' \in [Slots -> Jobs]
    BY IdleTyped DEF TypeOK, ManagerTypeOK, Deliver
  <1>2. job[j] \in Jobs /\ wiz \in Wizards
    BY DEF TypeOK, ManagerTypeOK
  <1>3. wiz' \in Wizards
    <2>1. CASE wiz.step = "closed"
      BY <1>2, <2>1 DEF Deliver
    <2>2. CASE wiz.step # "closed"
      <3>1. Handled(job[j]) \in Wizards
        BY <1>2 DEF Handled, Wizards, WizardSteps, Jobs
      <3>2. QED BY <2>2, <3>1 DEF Deliver
    <2>3. QED BY <2>1, <2>2
  <1>4. QED
    BY <1>1, <1>3 DEF Deliver, TypeOK, HostTypeOK, ManagerTypeOK, hostVars

(* The process gone, its wizard and jobs are the initial ones.             *)
LEMMA GoneTyped ==
    ASSUME TypeOK, ProcessGone, unit' \in Units
    PROVE  TypeOK'
  BY ClosedTyped, IdleTyped
  DEF ProcessGone, TypeOK, HostTypeOK, ManagerTypeOK

(* Every step preserves them.                                              *)
LEMMA NextTyped == TypeOK /\ [Next]_vars => TypeOK'
  <1> SUFFICES ASSUME TypeOK, [Next]_vars PROVE TypeOK'
    OBVIOUS
  <1>1. CASE Keyboard
    BY <1>1, KeyboardTyped
  <1>2. CASE LoadReads \/ LoadArrives
    <2>1. UNCHANGED <<hostVars, jobVars, wiz, opens>>
      BY <1>2 DEF LoadReads, LoadArrives
    <2>2. cur' \in Contents \cup {NoSnapshot} /\ loads' \in SUBSET Contents
      BY <1>2 DEF LoadReads, LoadArrives, TypeOK, HostTypeOK
    <2>3. QED
      BY <2>1, <2>2 DEF TypeOK, HostTypeOK, ManagerTypeOK, hostVars, jobVars
  <1>3. ASSUME NEW j \in Slots, Goroutine(j) PROVE TypeOK'
    BY <1>3, JobStepTyped DEF Goroutine, TypeOK, appVars
  <1>4. ASSUME NEW j \in Slots, Deliver(j) PROVE TypeOK'
    BY <1>4, DeliverTyped
  <1>5. CASE Service
    BY <1>5, ServiceTyped DEF Service, TypeOK, ManagerTypeOK, appVars, jobVars
  <1>6. CASE Clock
    BY <1>6, TickTyped DEF Clock, TypeOK, appVars
  <1>7. CASE Hangup
    <2>1. unit' \in Units
      BY <1>7 DEF Hangup, TypeOK, HostTypeOK
    <2>2. QED BY <1>7, <2>1, GoneTyped DEF Hangup
  <1>8. CASE Reboot
    BY <1>8, UnitsEnded, GoneTyped DEF Reboot
  <1>9. CASE UNCHANGED vars
    BY <1>9 DEF vars, TypeOK, HostTypeOK, ManagerTypeOK
  <1>10. QED
    BY <1>1, <1>2, <1>3, <1>4, <1>5, <1>6, <1>7, <1>8, <1>9 DEF Next

(* Every variable of the wizard, the app, the jobs and the machine keeps   *)
(* its type.                                                               *)
THEOREM WizardTyped == Spec => []TypeOK
  BY InitTyped, NextTyped, PTL DEF Spec

-----------------------------------------------------------------------------
(* What a command may do to its own job, and to the others.                *)
LEMMA JobStepEffect ==
    ASSUME ManagerTypeOK, NEW j \in Slots, JobStep(j)
    PROVE  /\ \A k \in Slots \ {j} : job'[k] = job[k]
           /\ job[j].pc # "idle" /\ job'[j].pc # "idle"
           /\ job'[j].owner = job[j].owner
           /\ job'[j].pc = "nics" => job'[j].budget = job[j].budget
           /\ job'[j].pc = "arm" => HasSystemdRun
           /\ job'[j].pc = "nics" =>
                \/ ~HasSystemdRun
                \/ Arm(j) /\ Armed(job[j].arg)
  <1>0. job \in [Slots -> Jobs] /\ job[j] \in Jobs
    BY DEF ManagerTypeOK
  <1>1. ASSUME NEW failed \in BOOLEAN, Returns(j, failed)
        PROVE  /\ \A k \in Slots \ {j} : job'[k] = job[k]
               /\ job'[j].pc = "sent"
               /\ job'[j].owner = job[j].owner
    BY <1>0, <1>1 DEF Returns, Jobs
  <1>2. ASSUME NEW pc \in Steps, Goes(j, pc)
        PROVE  /\ \A k \in Slots \ {j} : job'[k] = job[k]
               /\ job'[j].pc = pc
               /\ job'[j].owner = job[j].owner
               /\ job'[j].budget = job[j].budget
    BY <1>0, <1>2 DEF Goes, Jobs
  <1>3. CASE Preview(j)
    BY <1>1, <1>3 DEF Preview
  <1>4. CASE Stage(j)
    BY <1>1, <1>2, <1>4 DEF Stage, Steps
  <1>5. CASE Install(j)
    BY <1>1, <1>2, <1>5, Timeouts DEF Install, Steps
  <1>6. CASE Arm(j)
    <2>1. CASE Returns(j, TRUE)
      BY <1>1, <1>6, <2>1 DEF Arm
    <2>2. CASE /\ Armed(job[j].arg)
               /\ job' = [job EXCEPT ![j] =
                            [@ EXCEPT !.pc = "nics", !.armed = TRUE]]
      BY <1>0, <1>6, <2>2 DEF Arm, Jobs
    <2>3. QED BY <1>6, <2>1, <2>2 DEF Arm
  <1>7. CASE NicsApply(j)
    BY <1>1, <1>7 DEF NicsApply
  <1>8. CASE StopService(j)
    BY <1>1, <1>2, <1>8 DEF StopService, Steps
  <1>9. CASE StopTimer(j)
    BY <1>1, <1>9 DEF StopTimer
  <1>10. QED BY <1>3, <1>4, <1>5, <1>6, <1>7, <1>8, <1>9 DEF JobStep

(* A key leaves the machine alone and at most starts a job in a free slot, *)
(* whose owner is the wizard that is open; the wizard then waits for it.   *)
LEMMA KeyboardEffect ==
    ASSUME TypeOK, Keyboard
    PROVE  /\ UNCHANGED hostVars
           /\ \/ job' = job /\ (wiz'.waiting => wiz.waiting /\ opens' = opens)
              \/ /\ opens' = opens
                 /\ \E j \in Slots :
                      /\ job[j].pc = "idle"
                      /\ \A k \in Slots \ {j} : job'[k] = job[k]
                      /\ job'[j].pc \in {"preview", "stage", "stop"}
                      /\ job'[j].owner = opens
  <1>0. job \in [Slots -> Jobs] /\ wiz \in Wizards
    BY DEF TypeOK, ManagerTypeOK
  <1>1. ASSUME NEW kind, NEW first \in {"preview", "stage", "stop"}, NEW arg,
               Start(kind, first, arg, opens)
        PROVE  \E j \in Slots :
                 /\ job[j].pc = "idle"
                 /\ \A k \in Slots \ {j} : job'[k] = job[k]
                 /\ job'[j].pc \in {"preview", "stage", "stop"}
                 /\ job'[j].owner = opens
    BY <1>0, <1>1 DEF Start
  <1>2. CASE OpenWizard
    BY <1>2 DEF OpenWizard, NewWizard, jobVars
  <1>3. CASE Close
    BY <1>3 DEF Close, Closed, NewWizard, jobVars
  <1>4. CASE BuildPreview
    BY <1>1, <1>4 DEF BuildPreview
  <1>5. CASE ConfirmWrite
    BY <1>1, <1>5 DEF ConfirmWrite
  <1>6. CASE ConfirmApply
    BY <1>1, <1>6 DEF ConfirmApply
  <1>7. CASE ConfirmCancel
    BY <1>1, <1>7 DEF ConfirmCancel
  <1>8. CASE DeclineWrite \/ AskCancel \/ DeclineCancel
    BY <1>0, <1>8 DEF DeclineWrite, AskCancel, DeclineCancel, Wizards, jobVars
  <1>9. QED
    BY <1>2, <1>3, <1>4, <1>5, <1>6, <1>7, <1>8 DEF Keyboard, Interrupt, Quit

-----------------------------------------------------------------------------
(* Why the revert never races an apply: without systemd-run there is no    *)
(* revert at all; with it, an apply that has reached its last command      *)
(* armed a timer that has longer to run than the command has.              *)
NoRevertWithoutSystemdRun ==
    ~HasSystemdRun => /\ unit.phase = "none"
                      /\ \A j \in Slots : job[j].pc # "arm"

TimerOutlivesApply ==
    \A j \in Slots : job[j].pc = "nics" =>
        /\ ~Firing
        /\ unit.phase = "armed" => unit.left > job[j].budget

RaceInv == TypeOK /\ NoRevertWithoutSystemdRun /\ TimerOutlivesApply

(* It holds at first: no unit is armed and no job runs.                    *)
LEMMA RaceInvInit == Init => RaceInv
  BY InitTyped
  DEF Init, HostInit, ManagerInit, Unloaded, Ended, Idle, RaceInv,
      NoRevertWithoutSystemdRun, TimerOutlivesApply

(* The steps that touch neither a job's progress nor the unit.             *)
LEMMA RaceInvFrame ==
    ASSUME RaceInv, unit' = unit,
           \A j \in Slots : job'[j] = job[j] \/ job'[j].pc \notin {"arm", "nics"}
    PROVE  NoRevertWithoutSystemdRun' /\ TimerOutlivesApply'
  BY DEF RaceInv, NoRevertWithoutSystemdRun, TimerOutlivesApply, Firing

(* A command step preserves it: the timer is armed with its whole delay,   *)
(* and the job that armed it has at most WizardTimeout left.               *)
LEMMA RaceInvCommand ==
    ASSUME RaceInv, NEW j \in Slots, JobStep(j)
    PROVE  NoRevertWithoutSystemdRun' /\ TimerOutlivesApply'
  <1>0. job \in [Slots -> Jobs] /\ unit \in Units /\ ManagerTypeOK
    BY DEF RaceInv, TypeOK, HostTypeOK, ManagerTypeOK
  <1>1. \A k \in Slots : job[k].budget \in 0 .. WizardTimeout
    BY <1>0 DEF Jobs
  <1>2. CASE Arm(j) /\ Armed(job[j].arg)
    <2>1. HasSystemdRun
      BY <1>2 DEF RaceInv, NoRevertWithoutSystemdRun, Arm
    <2>2. unit'.phase = "armed" /\ unit'.left = RevertDelay
      BY <1>2 DEF Armed
    <2>3. \A k \in Slots : job'[k].budget = job[k].budget
                             \/ job'[k].pc # "nics"
      BY <1>0, JobStepEffect
    <2>4. \A k \in Slots : job'[k].pc = "nics" => unit'.left > job'[k].budget
      BY <1>1, <2>2, <2>3, Timeouts
    <2>5. QED
      BY <2>1, <2>2, <2>4 DEF NoRevertWithoutSystemdRun, TimerOutlivesApply,
                              Firing
  <1>3. CASE ~(Arm(j) /\ Armed(job[j].arg))
    <2>1. CASE (StopService(j) /\ ServiceStopped) \/ (StopTimer(j) /\ TimerStopped)
      <3>1. unit' = unit \/ unit'.phase = "none"
        BY <2>1 DEF ServiceStopped, TimerStopped, Unloaded, Ended
      <3>2. \A k \in Slots : job'[k].pc = "arm" => job[k].pc = "arm" \/ HasSystemdRun
        BY <1>0, JobStepEffect
      <3>3. job'[j].pc = "nics" => ~HasSystemdRun
        BY <1>0, <1>3, JobStepEffect
      <3>4. QED
        BY <1>0, <3>1, <3>2, <3>3, JobStepEffect
        DEF RaceInv, NoRevertWithoutSystemdRun, TimerOutlivesApply, Firing
    <2>2. CASE ~((StopService(j) /\ ServiceStopped) \/ (StopTimer(j) /\ TimerStopped))
      <3>1. unit' = unit
        BY <1>3, <2>2 DEF JobStep, Preview, Stage, Install, Arm, NicsApply,
                          StopService, StopTimer, hostVars
      <3>2. \A k \in Slots : job'[k].pc = "arm" => job[k].pc = "arm" \/ HasSystemdRun
        BY <1>0, JobStepEffect
      <3>3. job'[j].pc = "nics" => ~HasSystemdRun
        BY <1>0, <1>3, JobStepEffect
      <3>4. QED
        BY <1>0, <3>1, <3>2, <3>3, JobStepEffect
        DEF RaceInv, NoRevertWithoutSystemdRun, TimerOutlivesApply, Firing
    <2>3. QED BY <2>1, <2>2
  <1>4. QED BY <1>2, <1>3

(* Time runs for the timer and for every running command alike.            *)
LEMMA RaceInvTick ==
    ASSUME RaceInv, Tick
    PROVE  NoRevertWithoutSystemdRun' /\ TimerOutlivesApply'
  <1>0. job \in [Slots -> Jobs] /\ unit \in Units
    BY DEF RaceInv, TypeOK, HostTypeOK, ManagerTypeOK
  <1>1. unit.left \in Nat /\ \A k \in Slots : job[k].budget \in Nat
    BY <1>0, Timeouts DEF Jobs, Units
  <1>2. \A k \in Slots : /\ job'[k].pc = job[k].pc
                         /\ job[k].pc = "nics" =>
                              job'[k].budget = job[k].budget - 1
    BY <1>0 DEF Tick, Running, Jobs
  <1>3. /\ unit'.phase = unit.phase
        /\ unit.phase = "armed" /\ unit.left > 0 => unit'.left = unit.left - 1
    BY <1>0 DEF Tick, Units
  <1>4. ASSUME NEW k \in Slots, job'[k].pc = "nics", unit'.phase = "armed"
        PROVE  unit'.left > job'[k].budget
    <2>1. unit.left > job[k].budget
      BY <1>2, <1>3, <1>4 DEF RaceInv, TimerOutlivesApply
    <2>2. QED BY <1>1, <1>2, <1>3, <1>4, <2>1
  <1>5. QED
    BY <1>2, <1>3, <1>4 DEF RaceInv, NoRevertWithoutSystemdRun,
                            TimerOutlivesApply, Firing

(* The timer can elapse only when no apply is at its last command.         *)
LEMMA RaceInvService ==
    ASSUME RaceInv, RevertService, job' = job
    PROVE  NoRevertWithoutSystemdRun' /\ TimerOutlivesApply'
  <1>0. \A k \in Slots : job[k].budget \in Nat
    BY Timeouts DEF RaceInv, TypeOK, ManagerTypeOK, Jobs
  <1>1. HasSystemdRun
    BY DEF RaceInv, NoRevertWithoutSystemdRun, RevertService, RevertFires,
           TimerElapsed, RevertCopies, RevertApplies
  <1>2. \A k \in Slots : job[k].pc # "nics"
    <2>1. CASE RevertFires
      <3>1. ASSUME NEW k \in Slots, job[k].pc = "nics"
            PROVE  FALSE
        BY <1>0, <2>1, <3>1 DEF RevertFires, TimerElapsed, RaceInv,
                                TimerOutlivesApply
      <3>2. QED BY <3>1
    <2>2. CASE RevertCopies \/ RevertApplies
      BY <2>2 DEF RevertCopies, RevertApplies, RaceInv, TimerOutlivesApply,
                  Firing
    <2>3. QED BY <2>1, <2>2 DEF RevertService
  <1>3. QED
    BY <1>1, <1>2 DEF NoRevertWithoutSystemdRun, TimerOutlivesApply

(* Every step preserves it.                                                *)
LEMMA RaceInvNext == RaceInv /\ [Next]_vars => RaceInv'
  <1> SUFFICES ASSUME RaceInv, [Next]_vars PROVE RaceInv'
    OBVIOUS
  <1>0. TypeOK /\ TypeOK'
    BY NextTyped DEF RaceInv
  <1> SUFFICES NoRevertWithoutSystemdRun' /\ TimerOutlivesApply'
    BY <1>0 DEF RaceInv
  <1>1. CASE Keyboard
    BY <1>0, <1>1, KeyboardEffect, RaceInvFrame DEF hostVars
  <1>2. CASE LoadReads \/ LoadArrives
    BY <1>2, RaceInvFrame DEF LoadReads, LoadArrives, hostVars, jobVars
  <1>3. ASSUME NEW j \in Slots, Goroutine(j)
        PROVE  NoRevertWithoutSystemdRun' /\ TimerOutlivesApply'
    BY <1>3, RaceInvCommand DEF Goroutine
  <1>4. ASSUME NEW j \in Slots, Deliver(j)
        PROVE  NoRevertWithoutSystemdRun' /\ TimerOutlivesApply'
    <2>1. \A k \in Slots : job'[k] = job[k] \/ job'[k].pc = "idle"
      BY <1>0, <1>4 DEF Deliver, Idle, TypeOK, ManagerTypeOK
    <2>2. QED BY <1>4, <2>1, RaceInvFrame DEF Deliver, hostVars
  <1>5. CASE Service
    BY <1>5, RaceInvService DEF Service, jobVars
  <1>6. CASE Clock
    BY <1>6, RaceInvTick DEF Clock
  <1>7. CASE Hangup \/ Reboot
    BY <1>7 DEF Hangup, Reboot, ProcessGone, Idle, Unloaded, Ended, RaceInv,
                NoRevertWithoutSystemdRun, TimerOutlivesApply
  <1>8. CASE UNCHANGED vars
    BY <1>8, RaceInvFrame DEF vars
  <1>9. QED
    BY <1>1, <1>2, <1>3, <1>4, <1>5, <1>6, <1>7, <1>8 DEF Next

(* The revert's cp and re-apply never run while an ApplyRoles is at its    *)
(* own apply, whoever opened, interrupted and reopened which wizards, and  *)
(* however long the commands took.                                         *)
THEOREM RevertNeverRaces == Spec => []RevertNeverRacesApply
  <1>1. RaceInv => RevertNeverRacesApply
    BY DEF RaceInv, TimerOutlivesApply, RevertNeverRacesApply
  <1>2. QED BY RaceInvInit, RaceInvNext, <1>1, PTL DEF Spec

-----------------------------------------------------------------------------
(* Why a waiting wizard is never stuck: every message, also a stale one,   *)
(* ends the wait, and a new wait starts with a job of the open wizard,     *)
(* which only its own message takes away.                                  *)
WaitInv == TypeOK /\ WaitingHasJob /\ (wiz.step = "closed" => ~wiz.waiting)

(* Every step preserves it.                                                *)
LEMMA WaitInvNext == WaitInv /\ [Next]_vars => WaitInv'
  <1> SUFFICES ASSUME WaitInv, [Next]_vars PROVE WaitInv'
    OBVIOUS
  <1>0. TypeOK /\ TypeOK' /\ ManagerTypeOK
    BY NextTyped DEF WaitInv, TypeOK
  <1>t. job \in [Slots -> Jobs] /\ wiz \in Wizards
    BY <1>0 DEF TypeOK, ManagerTypeOK
  <1> SUFFICES WaitingHasJob' /\ (wiz'.step = "closed" => ~wiz'.waiting)
    BY <1>0 DEF WaitInv
  <1>1. CASE Keyboard
    <2>1. wiz'.step = "closed" => ~wiz'.waiting
      <3>1. CASE OpenWizard \/ Close
        BY <3>1 DEF OpenWizard, Close, Closed, NewWizard
      <3>2. CASE BuildPreview
        BY <1>t, <3>2 DEF BuildPreview, Wizards
      <3>3. CASE ConfirmWrite \/ ConfirmApply \/ ConfirmCancel
        <4>1. ASSUME NEW step \in {"write", "apply", "done"}, Waits(step)
              PROVE  wiz'.step # "closed"
          BY <1>t, <4>1 DEF Waits, Wizards
        <4>2. QED
          BY <3>3, <4>1 DEF ConfirmWrite, ConfirmApply, ConfirmCancel
      <3>4. CASE DeclineWrite \/ AskCancel \/ DeclineCancel
        BY <1>t, <3>4 DEF DeclineWrite, AskCancel, DeclineCancel, At, Wizards
      <3>5. QED
        BY <1>1, <3>1, <3>2, <3>3, <3>4 DEF Keyboard, Interrupt, Quit
    <2>2. WaitingHasJob'
      BY <1>0, <1>1, KeyboardEffect DEF WaitInv, WaitingHasJob
    <2>3. QED BY <2>1, <2>2
  <1>2. CASE LoadReads \/ LoadArrives \/ Service \/ UNCHANGED vars
    <2>1. wiz' = wiz /\ opens' = opens /\ job' = job
      BY <1>2 DEF LoadReads, LoadArrives, Service, vars, jobVars, appVars
    <2>2. QED BY <2>1 DEF WaitInv, WaitingHasJob
  <1>3. ASSUME NEW j \in Slots, Goroutine(j)
        PROVE  WaitingHasJob' /\ (wiz'.step = "closed" => ~wiz'.waiting)
    <2>1. JobStep(j) /\ wiz' = wiz /\ opens' = opens
      BY <1>3 DEF Goroutine, appVars
    <2>2. \A k \in Slots : job[k].pc # "idle" =>
             job'[k].pc # "idle" /\ job'[k].owner = job[k].owner
      BY <1>0, <2>1, JobStepEffect
    <2>3. QED BY <2>1, <2>2 DEF WaitInv, WaitingHasJob
  <1>4. ASSUME NEW j \in Slots, Deliver(j)
        PROVE  WaitingHasJob' /\ (wiz'.step = "closed" => ~wiz'.waiting)
    <2>1. CASE wiz.step = "closed"
      BY <1>4, <2>1 DEF Deliver, WaitInv, WaitingHasJob
    <2>2. CASE wiz.step # "closed"
      <3>1. wiz' = Handled(job[j])
        BY <1>4, <2>2 DEF Deliver
      <3>2. ~wiz'.waiting
        BY <1>t, <3>1 DEF Handled, Wizards
      <3>3. QED BY <3>2 DEF WaitingHasJob
    <2>3. QED BY <2>1, <2>2
  <1>5. CASE Clock
    <2>1. wiz' = wiz /\ opens' = opens
      BY <1>5 DEF Clock, appVars
    <2>2. \A k \in Slots : job'[k].pc = job[k].pc /\ job'[k].owner = job[k].owner
      BY <1>5, <1>t DEF Clock, Tick, Running, Jobs
    <2>3. QED BY <2>1, <2>2 DEF WaitInv, WaitingHasJob
  <1>6. CASE Hangup \/ Reboot
    BY <1>6 DEF Hangup, Reboot, ProcessGone, Closed, NewWizard, WaitingHasJob
  <1>7. QED BY <1>1, <1>2, <1>3, <1>4, <1>5, <1>6 DEF Next

(* A wizard that ignores the keyboard always has an answer of its own on   *)
(* the way.                                                                *)
THEOREM WizardNeverStuck == Spec => []WaitingHasJob
  <1>1. Init => WaitInv
    BY InitTyped DEF Init, Closed, NewWizard, WaitInv, WaitingHasJob
  <1>2. WaitInv => WaitingHasJob
    BY DEF WaitInv
  <1>3. QED BY WaitInvNext, <1>1, <1>2, PTL DEF Spec

-----------------------------------------------------------------------------
(***************************************************************************)
(* What holds of the roles wizard as long as it is opened once: then no    *)
(* command of an earlier, interrupted wizard is left to overlap with its   *)
(* own, which is what wizard_overlap and wizard_prev_overwritten show.     *)
(* It holds for any number of slots and loads, whatever fails, the process *)
(* and the machine included, and also after the wizard was interrupted.    *)
(***************************************************************************)

AllIdle == \A j \in Slots : job[j].pc = "idle"

(* One command at a time.                                                  *)
Alone == \A j, k \in Slots : job[j].pc # "idle" /\ job[k].pc # "idle" => j = k

(* The session of a machine that had this roles.conf and ran this mapping. *)
(* Before the wizard is opened nothing has changed it, and the app has     *)
(* read what is there.                                                     *)
Fresh(content, mapping) ==
    opens = 0 => /\ wiz = Closed
                 /\ AllIdle
                 /\ unit.phase = "none"
                 /\ conf = content
                 /\ live = mapping
                 /\ cur \in {NoSnapshot, content}
                 /\ loads \subseteq {content}

(* The command each screen waits for.                                      *)
Awaits == [select |-> "none", loading |-> "preview", write |-> "write",
           apply |-> "apply", done |-> "cancel"]

(* The machine still runs what it ran when the wizard was opened.          *)
NotApplied(mapping) == unit.phase = "none" /\ live = mapping

ScreenFits(content, mapping) ==
    wiz.step # "closed" =>
        /\ wiz.prev = content
        /\ ~wiz.waiting => AllIdle
        /\ \A j \in Slots : job[j].pc # "idle" => job[j].kind = Awaits[wiz.step]
        /\ wiz.step \in {"select", "loading", "write"} => NotApplied(mapping)
        /\ wiz.step = "apply" /\ ~wiz.waiting => NotApplied(mapping)
        /\ wiz.step \in {"loading", "write"} => wiz.new \in Assignments

(* The commands each call runs.                                            *)
Stages == [none |-> {"idle"}, preview |-> {"preview", "sent"},
           write |-> {"stage", "install", "sent"},
           apply |-> {"stage", "install", "arm", "nics", "sent"},
           cancel |-> {"stop", "stopTimer", "sent"}]

(* What a call has done to the machine by the command it is at.            *)
JobFits(j, content, mapping) ==
    /\ job[j].pc \in Stages[job[j].kind]
    /\ job[j].kind \in {"preview", "write"} => unit.phase = "none"
    /\ job[j].kind = "write" => job[j].arg \in Assignments
    /\ job[j].kind = "write" /\ job[j].pc = "install" => stagedConf = job[j].arg
    /\ job[j].kind = "apply" => job[j].arg = content
    /\ job[j].kind = "apply" /\ job[j].pc \in {"stage", "install", "arm"} =>
         NotApplied(mapping)
    /\ job[j].kind = "apply" /\ job[j].pc = "install" => stagedPrev = content
    /\ job[j].pc = "arm" => prevConf = content
    /\ job[j].pc = "nics" /\ HasSystemdRun =>
         unit.phase = "armed" /\ prevConf = content
    /\ job[j].kind = "cancel" /\ job[j].pc = "sent" /\ ~job[j].failed =>
         unit.phase # "armed"

(* What a pending revert restores.                                         *)
Restores(content, mapping) ==
    Pending => prevConf = content /\ unit.was = mapping

SourceHolds(content, mapping) ==
    Restores(content, mapping) /\ (Pending => unit.from = content)

CancelHolds == wiz.cancelled => wiz.step = "done" /\ unit.phase # "armed"

SessionFits(content, mapping) ==
    /\ Alone
    /\ Fresh(content, mapping)
    /\ ScreenFits(content, mapping)
    /\ \A j \in Slots : JobFits(j, content, mapping)
    /\ SourceHolds(content, mapping)
    /\ CancelHolds

SessionInv(content, mapping) == opens <= 1 => SessionFits(content, mapping)

-----------------------------------------------------------------------------
(* What a call is at tells which call it is.                               *)
LEMMA StageTells ==
    ASSUME NEW content, NEW mapping,
           TypeOK, NEW j \in Slots, JobFits(j, content, mapping)
    PROVE  /\ job[j].pc = "idle" <=> job[j].kind = "none"
           /\ job[j].pc = "preview" => job[j].kind = "preview"
           /\ job[j].pc \in {"stage", "install"} => job[j].kind \in {"write", "apply"}
           /\ job[j].pc \in {"arm", "nics"} => job[j].kind = "apply"
           /\ job[j].pc \in {"stop", "stopTimer"} => job[j].kind = "cancel"
<1>1. job[j].kind \in Kinds
  BY DEF TypeOK, ManagerTypeOK, Jobs
<1> QED
  BY <1>1 DEF Kinds, JobFits, Stages

(* The wizard opens on an untouched machine.                               *)
LEMMA OpensFresh ==
    ASSUME NEW content \in Contents, NEW mapping \in Contents,
           TypeOK, SessionInv(content, mapping), OpenWizard, opens' <= 1
    PROVE  SessionFits(content, mapping)'
<1>1. opens = 0 /\ opens' = 1
  BY DEF TypeOK, OpenWizard
<1>2. Fresh(content, mapping) /\ Alone /\ \A j \in Slots : JobFits(j, content, mapping)
  BY <1>1 DEF SessionInv, SessionFits
<1>3. /\ AllIdle /\ unit.phase = "none" /\ live = mapping /\ cur = content
      /\ wiz' = NewWizard(cur)
      /\ UNCHANGED <<conf, prevConf, live, unit, stagedConf, stagedPrev, job>>
  BY <1>1, <1>2 DEF OpenWizard, Fresh, hostVars, jobVars
<1>4. /\ wiz'.step = "select" /\ ~wiz'.waiting /\ wiz'.prev = cur /\ ~wiz'.cancelled
  BY <1>3 DEF NewWizard
<1>5. ScreenFits(content, mapping)'
  BY <1>3, <1>4 DEF ScreenFits, AllIdle, NotApplied
<1>6. \A j \in Slots : JobFits(j, content, mapping)'
  BY <1>2, <1>3 DEF JobFits, NotApplied
<1> QED
  BY <1>1, <1>2, <1>3, <1>4, <1>5, <1>6
  DEF SessionFits, Alone, Fresh, SourceHolds, Restores, CancelHolds,
      Pending, Firing

(* Closing it leaves its command in flight and the machine as it is.       *)
LEMMA ClosesFit ==
    ASSUME NEW content \in Contents, NEW mapping \in Contents,
           TypeOK, SessionFits(content, mapping), Close
    PROVE  SessionFits(content, mapping)'
<1>1. /\ wiz' = Closed
      /\ UNCHANGED <<conf, prevConf, live, unit, stagedConf, stagedPrev, job, cur,
                     loads, opens>>
  BY DEF Close, hostVars, jobVars
<1>2. wiz'.step = "closed" /\ ~wiz'.cancelled
  BY <1>1 DEF Closed, NewWizard
<1>3. \A j \in Slots : JobFits(j, content, mapping)'
  BY <1>1 DEF SessionFits, JobFits, NotApplied
<1> QED
  BY <1>1, <1>2, <1>3
  DEF SessionFits, Alone, Fresh, AllIdle, ScreenFits, SourceHolds, Restores, CancelHolds,
      Pending, Firing

(* A key that starts no command.                                           *)
LEMMA KeysFit ==
    ASSUME NEW content \in Contents, NEW mapping \in Contents,
           TypeOK, SessionFits(content, mapping), DeclineWrite \/ AskCancel \/ DeclineCancel
    PROVE  SessionFits(content, mapping)'
<1>1. /\ wiz \in Wizards
      /\ UNCHANGED <<conf, prevConf, live, unit, stagedConf, stagedPrev, job, cur,
                     loads, opens>>
  BY DEF DeclineWrite, AskCancel, DeclineCancel, hostVars, jobVars, TypeOK
<1>2. /\ wiz.step # "closed" /\ ~wiz.waiting /\ ~wiz'.waiting
      /\ wiz'.prev = wiz.prev /\ wiz'.new = wiz.new /\ wiz'.cancelled = wiz.cancelled
      /\ \/ wiz.step = "write" /\ wiz'.step = "select"
         \/ wiz.step = "done" /\ wiz'.step = "done"
  BY <1>1 DEF DeclineWrite, AskCancel, DeclineCancel, At, Wizards
<1>3. \A j \in Slots : JobFits(j, content, mapping)'
  BY <1>1 DEF SessionFits, JobFits, NotApplied
<1>4. ScreenFits(content, mapping)'
  BY <1>1, <1>2 DEF SessionFits, ScreenFits, AllIdle, NotApplied
<1>5. opens # 0
  BY <1>2 DEF SessionFits, Fresh, Closed, NewWizard
<1> QED
  BY <1>1, <1>2, <1>3, <1>4, <1>5
  DEF SessionFits, Alone, Fresh, SourceHolds, Restores, CancelHolds,
      Pending, Firing

(* A key that starts one finds every slot free, so that it is alone.       *)
LEMMA StartsAlone ==
    ASSUME NEW content, NEW mapping,
           TypeOK, AllIdle, \A j \in Slots : JobFits(j, content, mapping),
           NEW kind \in Kinds, NEW first \in Steps, NEW arg \in Contents,
           Start(kind, first, arg, opens)
    PROVE  \E j \in Slots :
             /\ job'[j].kind = kind /\ job'[j].pc = first /\ job'[j].arg = arg
             /\ \A k \in Slots \ {j} : job'[k].pc = "idle" /\ job'[k].kind = "none"
<1>1. job \in [Slots -> Jobs]
  BY DEF TypeOK, ManagerTypeOK
<1>2. \A k \in Slots : job[k].pc = "idle" /\ job[k].kind = "none"
  BY StageTells DEF AllIdle
<1> QED
  BY <1>1, <1>2 DEF Start

(* The wizard then waits for it: the preview of a validated assignment,    *)
(* the write of one, the apply with what is live as the content to go back *)
(* to, or the stop of the revert.                                          *)
LEMMA StartsFit ==
    ASSUME NEW content \in Contents, NEW mapping \in Contents,
           TypeOK, SessionFits(content, mapping),
           BuildPreview \/ ConfirmWrite \/ ConfirmApply \/ ConfirmCancel
    PROVE  SessionFits(content, mapping)'
<1>1. /\ wiz \in Wizards /\ wiz.prev \in Contents /\ wiz.new \in Contents
      /\ Empty \in Contents
  BY Timeouts DEF TypeOK, Wizards
<1>2. /\ UNCHANGED <<conf, prevConf, live, unit, stagedConf, stagedPrev, cur, loads, opens>>
      /\ wiz.step # "closed" /\ ~wiz.waiting
  BY DEF BuildPreview, ConfirmWrite, ConfirmApply, ConfirmCancel, At, hostVars
<1>3. AllIdle /\ opens # 0 /\ wiz.prev = content /\ \A j \in Slots : JobFits(j, content, mapping)
  BY <1>2 DEF SessionFits, ScreenFits, Fresh, Closed, NewWizard
<1>4. ASSUME NEW kind \in Kinds \ {"none"}, NEW first \in Steps, NEW arg \in Contents,
             Start(kind, first, arg, opens),
             wiz'.waiting, wiz'.step # "closed", kind = Awaits[wiz'.step],
             wiz'.cancelled = wiz.cancelled,
             wiz'.step = "done" <=> wiz.step = "done",
             wiz'.step \in {"loading", "write"} =>
               NotApplied(mapping) /\ wiz'.new \in Assignments,
             wiz'.prev = content,
             wiz'.step \notin {"select"},
             first \in Stages[kind], first \notin {"install", "arm", "nics", "sent"},
             kind \in {"preview", "write"} => unit.phase = "none",
             kind = "write" => arg \in Assignments,
             kind = "apply" => NotApplied(mapping) /\ arg = content
      PROVE  SessionFits(content, mapping)'
  <2>1. PICK j \in Slots :
          /\ job'[j].kind = kind /\ job'[j].pc = first /\ job'[j].arg = arg
          /\ \A k \in Slots \ {j} : job'[k].pc = "idle" /\ job'[k].kind = "none"
    BY <1>3, <1>4, StartsAlone
  <2>2. Alone'
    BY <2>1 DEF Alone
  <2>3. \A k \in Slots \ {j} : JobFits(k, content, mapping)'
    BY <2>1 DEF JobFits, Stages
  <2>4. JobFits(j, content, mapping)'
    BY <1>2, <1>4, <2>1 DEF JobFits, NotApplied
  <2>5. ScreenFits(content, mapping)'
    BY <1>2, <1>4, <2>1 DEF ScreenFits, NotApplied
  <2>6. SourceHolds(content, mapping)' /\ CancelHolds' /\ Fresh(content, mapping)'
    BY <1>2, <1>3, <1>4
    DEF SessionFits, SourceHolds, Restores, CancelHolds, Fresh, Pending, Firing
  <2> QED
    BY <2>2, <2>3, <2>4, <2>5, <2>6 DEF SessionFits
<1>5. {"preview", "write", "apply", "cancel"} \subseteq Kinds \ {"none"}
  BY DEF Kinds
<1>6. {"preview", "stage", "stop"} \subseteq Steps
  BY DEF Steps
<1>7. CASE BuildPreview
  <2>1. PICK rendered \in Assignments :
          wiz' = [wiz EXCEPT !.new = rendered, !.step = "loading", !.waiting = TRUE]
    BY <1>7 DEF BuildPreview
  <2>2. /\ wiz'.waiting /\ wiz'.step = "loading" /\ wiz'.prev = wiz.prev
        /\ wiz'.new \in Assignments /\ wiz'.cancelled = wiz.cancelled
    BY <1>1, <2>1 DEF Wizards
  <2>3. wiz.step = "select" /\ Start("preview", "preview", Empty, opens)
    BY <1>7 DEF BuildPreview, At
  <2>4. NotApplied(mapping)
    BY <2>3 DEF SessionFits, ScreenFits
  <2> QED
    BY <1>1, <1>3, <1>4, <1>5, <1>6, <2>2, <2>3, <2>4 DEF Awaits, Stages, NotApplied
<1>8. CASE ConfirmWrite
  <2>1. wiz.step = "write" /\ Start("write", "stage", wiz.new, opens)
    BY <1>8 DEF ConfirmWrite, At
  <2>2. /\ wiz'.waiting /\ wiz'.step = "write" /\ wiz'.prev = wiz.prev
        /\ wiz'.new = wiz.new /\ wiz'.cancelled = wiz.cancelled
    BY <1>1, <1>8 DEF ConfirmWrite, Waits, Wizards
  <2>3. NotApplied(mapping) /\ wiz.new \in Assignments
    BY <2>1 DEF SessionFits, ScreenFits
  <2> QED
    BY <1>1, <1>3, <1>4, <1>5, <1>6, <2>1, <2>2, <2>3 DEF Awaits, Stages, NotApplied
<1>9. CASE ConfirmApply
  <2>1. wiz.step = "apply" /\ Start("apply", "stage", wiz.prev, opens)
    BY <1>9 DEF ConfirmApply, At
  <2>2. /\ wiz'.waiting /\ wiz'.step = "apply" /\ wiz'.prev = wiz.prev
        /\ wiz'.cancelled = wiz.cancelled
    BY <1>1, <1>9 DEF ConfirmApply, Waits, Wizards
  <2>3. NotApplied(mapping)
    BY <1>2, <2>1 DEF SessionFits, ScreenFits
  <2> QED
    BY <1>1, <1>3, <1>4, <1>5, <1>6, <2>1, <2>2, <2>3 DEF Awaits, Stages, NotApplied
<1>10. CASE ConfirmCancel
  <2>1. wiz.step = "done" /\ Start("cancel", "stop", Empty, opens)
    BY <1>10 DEF ConfirmCancel, At
  <2>2. /\ wiz'.waiting /\ wiz'.step = "done" /\ wiz'.prev = wiz.prev
        /\ wiz'.cancelled = wiz.cancelled
    BY <1>1, <1>10 DEF ConfirmCancel, Waits, Wizards
  <2> QED
    BY <1>1, <1>3, <1>4, <1>5, <1>6, <2>1, <2>2 DEF Awaits, Stages
<1> QED
  BY <1>7, <1>8, <1>9, <1>10

-----------------------------------------------------------------------------
(* A command of the one call in flight: what it stages is what it was      *)
(* given, what it installs is what it staged, and it applies only under a  *)
(* timer it has armed.                                                     *)
LEMMA CommandFits ==
    ASSUME NEW content \in Contents, NEW mapping \in Contents,
           RaceInv, SessionFits(content, mapping), NEW j \in Slots, Goroutine(j)
    PROVE  SessionFits(content, mapping)'
<1>1. /\ TypeOK /\ ManagerTypeOK /\ JobStep(j) /\ JobFits(j, content, mapping)
      /\ UNCHANGED <<cur, loads, wiz, opens>>
      /\ job \in [Slots -> Jobs] /\ job[j] \in Jobs
  BY DEF RaceInv, TypeOK, ManagerTypeOK, Goroutine, appVars, SessionFits
<1>2. /\ job[j].pc # "idle" /\ job'[j].pc # "idle"
      /\ \A k \in Slots \ {j} : job'[k] = job[k]
  BY <1>1, JobStepEffect
<1>3. \A k \in Slots \ {j} : job[k].pc = "idle" /\ job[k].kind = "none"
  BY <1>1, <1>2, StageTells DEF SessionFits, Alone
<1>4. opens # 0 /\ (wiz.step # "closed" => wiz.waiting /\ job[j].kind = Awaits[wiz.step])
  BY <1>2 DEF SessionFits, Fresh, AllIdle, ScreenFits
<1>5. wiz.cancelled => wiz.step = "done" /\ unit.phase # "armed" /\ job[j].kind = "cancel"
  BY <1>4 DEF SessionFits, CancelHolds, Awaits
<1>6. ASSUME NEW pc \in Steps, Goes(j, pc)
      PROVE  job'[j].pc = pc /\ job'[j].kind = job[j].kind /\ job'[j].arg = job[j].arg
  BY <1>1, <1>6 DEF Goes, Jobs
<1>7. ASSUME NEW failed \in BOOLEAN, Returns(j, failed)
      PROVE  /\ job'[j].pc = "sent" /\ job'[j].kind = job[j].kind
             /\ job'[j].arg = job[j].arg /\ job'[j].failed = failed
  BY <1>1, <1>7 DEF Returns, Jobs
<1>8. ASSUME job'[j].kind = job[j].kind, JobFits(j, content, mapping)', SourceHolds(content, mapping)',
             wiz.cancelled => unit'.phase # "armed",
             job[j].kind \in {"preview", "write"} => unit'.phase = "none" /\ live' = live
      PROVE  SessionFits(content, mapping)'
  <2>1. Alone' /\ Fresh(content, mapping)'
    BY <1>1, <1>2, <1>3, <1>4 DEF Alone, Fresh
  <2>2. \A k \in Slots \ {j} : JobFits(k, content, mapping)'
    BY <1>2, <1>3 DEF JobFits, Stages
  <2>3. CancelHolds'
    BY <1>1, <1>5, <1>8 DEF CancelHolds
  <2>4. ASSUME wiz.step # "closed"
        PROVE  /\ wiz.waiting /\ job[j].kind = Awaits[wiz.step] /\ job[j].kind # "none"
               /\ wiz.prev = content
               /\ wiz.step \in {"select", "loading", "write"} =>
                    /\ wiz.step # "select" /\ job[j].kind \in {"preview", "write"}
                    /\ NotApplied(mapping)
               /\ wiz.step \in {"loading", "write"} => wiz.new \in Assignments
    BY <1>1, <1>2, <1>4, <2>4, StageTells DEF SessionFits, ScreenFits, Awaits
  <2>5. ScreenFits(content, mapping)'
    BY <1>1, <1>3, <1>2, <1>8, <2>4 DEF ScreenFits, NotApplied
  <2> QED
    BY <1>8, <2>1, <2>2, <2>3, <2>5 DEF SessionFits
<1>9. ASSUME unit' = unit \/ unit'.phase = "none",
             prevConf' = prevConf \/ unit'.phase = "none"
      PROVE  SourceHolds(content, mapping)' /\ (wiz.cancelled => unit'.phase # "armed")
  BY <1>5, <1>9 DEF SessionFits, SourceHolds, Restores, Pending, Firing
<1>10. CASE Preview(j)
  <2>1. /\ job'[j].pc = "sent" /\ job'[j].kind = job[j].kind /\ job[j].kind = "preview"
        /\ UNCHANGED <<prevConf, live, unit, stagedConf, stagedPrev>>
    BY <1>1, <1>7, <1>10, StageTells DEF Preview, hostVars
  <2>2. JobFits(j, content, mapping)'
    BY <1>1, <2>1 DEF JobFits, Stages
  <2> QED
    BY <1>1, <1>8, <1>9, <2>1, <2>2 DEF JobFits
<1>11. CASE Stage(j)
  <2>1. /\ job[j].kind \in {"write", "apply"}
        /\ UNCHANGED <<conf, prevConf, live, unit>>
        /\ job'[j].kind = job[j].kind /\ job'[j].arg = job[j].arg
        /\ \/ job'[j].pc = "install" /\ IF job[j].kind = "write"
                                         THEN stagedConf' = job[j].arg
                                         ELSE stagedPrev' = job[j].arg
           \/ job'[j].pc = "sent"
    BY <1>1, <1>6, <1>7, <1>11, StageTells DEF Stage, hostVars, Steps
  <2>2. job[j].pc = "stage"
    BY <1>11 DEF Stage
  <2>3. JobFits(j, content, mapping)'
    BY <1>1, <2>1, <2>2 DEF JobFits, Stages, NotApplied
  <2> QED
    BY <1>1, <1>8, <1>9, <2>1, <2>3 DEF JobFits
<1>12. CASE Install(j)
  <2>1. /\ job[j].pc = "install" /\ job[j].kind \in {"write", "apply"} /\ unit.phase = "none"
        /\ UNCHANGED <<live, unit, stagedConf, stagedPrev>>
    BY <1>1, <1>12, StageTells DEF Install, JobFits, NotApplied
  <2>2. SourceHolds(content, mapping)' /\ (wiz.cancelled => unit'.phase # "armed")
    BY <1>9, <2>1
  <2>3. CASE Returns(j, TRUE) \/ Returns(j, FALSE)
    <3>1. job'[j].pc = "sent" /\ job'[j].kind = job[j].kind /\ job'[j].arg = job[j].arg
      BY <1>7, <2>3
    <3>2. JobFits(j, content, mapping)'
      BY <1>1, <2>1, <3>1 DEF JobFits, Stages, NotApplied
    <3> QED
      BY <1>8, <2>1, <2>2, <3>1, <3>2
  <2>4. CASE /\ job[j].kind = "apply" /\ prevConf' = stagedPrev
             /\ Goes(j, IF HasSystemdRun THEN "arm" ELSE "nics")
    <3>1. /\ job'[j].pc = IF HasSystemdRun THEN "arm" ELSE "nics"
          /\ job'[j].kind = "apply" /\ job'[j].arg = job[j].arg
      BY <1>6, <2>4, Timeouts DEF Steps
    <3>2. stagedPrev = content /\ job[j].arg = content /\ live = mapping
      BY <1>1, <2>1, <2>4 DEF JobFits, NotApplied
    <3>3. JobFits(j, content, mapping)'
      BY <1>1, <2>1, <2>4, <3>1, <3>2 DEF JobFits, Stages, NotApplied
    <3> QED
      BY <1>8, <2>1, <2>2, <2>4, <3>1, <3>3
  <2> QED
    BY <1>12, <2>3, <2>4 DEF Install
<1>13. CASE Arm(j)
  <2>1. /\ job[j].pc = "arm" /\ job[j].kind = "apply" /\ unit.phase = "none"
        /\ live = mapping /\ prevConf = content /\ job[j].arg = content
        /\ UNCHANGED <<conf, prevConf, live, stagedConf, stagedPrev>>
    BY <1>1, <1>13, StageTells DEF Arm, JobFits, NotApplied
  <2>2. CASE Returns(j, TRUE) /\ unit' = unit
    <3>1. job'[j].pc = "sent" /\ job'[j].kind = job[j].kind /\ job'[j].arg = job[j].arg
      BY <1>7, <2>2
    <3>2. JobFits(j, content, mapping)'
      BY <1>1, <2>1, <2>2, <3>1 DEF JobFits, Stages
    <3> QED
      BY <1>8, <1>9, <2>1, <2>2, <3>1, <3>2
  <2>3. CASE /\ Armed(job[j].arg)
             /\ job' = [job EXCEPT ![j] = [@ EXCEPT !.pc = "nics", !.armed = TRUE]]
    <3>1. job'[j].pc = "nics" /\ job'[j].kind = "apply" /\ job'[j].arg = job[j].arg
      BY <1>1, <2>1, <2>3 DEF Jobs
    <3>2. unit'.phase = "armed" /\ unit'.from = content /\ unit'.was = mapping
      BY <2>1, <2>3 DEF Armed
    <3>3. JobFits(j, content, mapping)' /\ SourceHolds(content, mapping)'
      BY <2>1, <3>1, <3>2 DEF JobFits, Stages, SourceHolds, Restores
    <3> QED
      BY <1>5, <1>8, <2>1, <3>1, <3>3
  <2> QED
    BY <1>13, <2>2, <2>3 DEF Arm
<1>14. CASE NicsApply(j)
  <2>1. /\ job[j].kind = "apply" /\ job'[j].pc = "sent" /\ job'[j].kind = "apply"
        /\ job'[j].arg = job[j].arg /\ UNCHANGED <<prevConf, unit>>
    BY <1>1, <1>7, <1>14, StageTells DEF NicsApply
  <2>2. JobFits(j, content, mapping)'
    BY <1>1, <2>1 DEF JobFits, Stages
  <2> QED
    BY <1>8, <1>9, <2>1, <2>2
<1>15. CASE StopService(j)
  <2>1. /\ job[j].kind = "cancel" /\ job'[j].kind = "cancel" /\ prevConf' = prevConf
        /\ job'[j].pc = "stopTimer" \/ (job'[j].pc = "sent" /\ job'[j].failed)
    <3>1. job[j].kind = "cancel"
      BY <1>1, <1>15, StageTells DEF StopService
    <3>2. CASE Goes(j, "stopTimer")
      BY <1>6, <1>15, <3>1, <3>2 DEF StopService, Steps
    <3>3. CASE Returns(j, TRUE)
      BY <1>7, <1>15, <3>1, <3>3 DEF StopService
    <3> QED
      BY <1>15, <3>2, <3>3 DEF StopService
  <2>2. unit' = unit \/ unit'.phase = "none"
    <3>1. ServiceStopped => unit' = unit \/ unit' = Unloaded
      BY DEF ServiceStopped
    <3>2. ServiceStopped \/ unit' = unit
      BY <1>15 DEF StopService
    <3> QED
      BY <3>1, <3>2 DEF Unloaded, Ended
  <2>3. JobFits(j, content, mapping)'
    BY <2>1 DEF JobFits, Stages
  <2> QED
    BY <1>8, <1>9, <2>1, <2>2, <2>3
<1>16. CASE StopTimer(j)
  <2>1. /\ job[j].kind = "cancel" /\ job'[j].pc = "sent" /\ job'[j].kind = "cancel"
        /\ prevConf' = prevConf
        /\ TimerStopped \/ (job'[j].failed /\ unit' = unit)
    BY <1>1, <1>7, <1>16, StageTells DEF StopTimer
  <2>2. TimerStopped => unit'.phase # "armed" /\ (unit' = unit \/ unit'.phase = "none")
    BY DEF TimerStopped, Unloaded, Ended
  <2>3. JobFits(j, content, mapping)'
    BY <2>1, <2>2 DEF JobFits, Stages
  <2> QED
    BY <1>8, <1>9, <2>1, <2>2, <2>3
<1> QED
  BY <1>1, <1>10, <1>11, <1>12, <1>13, <1>14, <1>15, <1>16 DEF JobStep

-----------------------------------------------------------------------------
(* The message of the one call frees its slot and moves the screen on.     *)
LEMMA MessageFits ==
    ASSUME NEW content \in Contents, NEW mapping \in Contents,
           TypeOK, SessionFits(content, mapping), NEW j \in Slots, Deliver(j)
    PROVE  SessionFits(content, mapping)'
<1>1. /\ job \in [Slots -> Jobs] /\ job[j] \in Jobs /\ wiz \in Wizards
      /\ job[j].pc = "sent" /\ job' = [job EXCEPT ![j] = Idle] /\ JobFits(j, content, mapping)
      /\ UNCHANGED <<conf, prevConf, live, unit, stagedConf, stagedPrev, cur, loads, opens>>
  BY DEF TypeOK, ManagerTypeOK, Deliver, hostVars, SessionFits
<1>2. opens # 0 /\ \A k \in Slots \ {j} : job[k].pc = "idle" /\ job[k].kind = "none"
  BY <1>1, StageTells DEF SessionFits, Alone, Fresh, AllIdle
<1>3. \A k \in Slots : job'[k].pc = "idle" /\ job'[k].kind = "none"
  BY <1>1, <1>2 DEF Idle
<1>4. \A k \in Slots : JobFits(k, content, mapping)'
  BY <1>3 DEF JobFits, Stages
<1>5. SourceHolds(content, mapping)'
  BY <1>1 DEF SessionFits, SourceHolds, Restores, Pending, Firing
<1>6. ASSUME wiz'.cancelled => wiz'.step = "done" /\ unit.phase # "armed",
             wiz'.step # "closed" => wiz'.prev = content,
             wiz'.step \in {"select", "loading", "write", "apply"} => NotApplied(mapping)',
             wiz'.step \in {"loading", "write"} => wiz'.new \in Assignments
      PROVE  SessionFits(content, mapping)'
  <2>1. ScreenFits(content, mapping)'
    BY <1>3, <1>6 DEF ScreenFits, AllIdle
  <2>2. CancelHolds'
    BY <1>1, <1>6 DEF CancelHolds
  <2> QED
    BY <1>1, <1>2, <1>3, <1>4, <1>5, <2>1, <2>2 DEF SessionFits, Alone, Fresh
<1>7. CASE wiz.step = "closed"
  <2>1. wiz' = wiz /\ ~wiz.cancelled
    BY <1>7 DEF Deliver, SessionFits, CancelHolds
  <2> QED
    BY <1>6, <1>7, <2>1
<1>8. CASE wiz.step # "closed"
  <2>1. wiz' = Handled(job[j]) /\ job[j].kind = Awaits[wiz.step]
    BY <1>1, <1>8 DEF Deliver, SessionFits, ScreenFits
  <2>2. /\ wiz.step \in {"select", "loading", "write", "apply", "done"}
        /\ job[j].kind # "none"
        /\ wiz.cancelled => wiz.step = "done" /\ unit.phase # "armed"
        /\ wiz.prev = content /\ wiz'.prev = wiz.prev
    <3>1. wiz'.prev = wiz.prev
      BY <1>1, <2>1 DEF Handled, Wizards
    <3> QED
      BY <1>1, <1>8, <3>1, StageTells
      DEF Wizards, WizardSteps, SessionFits, ScreenFits, CancelHolds
  <2>3. CASE wiz.step = "loading"
    <3>0. job[j].kind = "preview"
      BY <2>1, <2>3 DEF Awaits
    <3>1. /\ wiz'.step = "write" /\ wiz'.new = wiz.new
          /\ wiz'.cancelled = wiz.cancelled
      BY <1>1, <2>1, <3>0 DEF Handled, Wizards
    <3>2. NotApplied(mapping) /\ wiz.new \in Assignments
      BY <2>3 DEF SessionFits, ScreenFits
    <3> QED
      BY <1>1, <1>6, <2>2, <2>3, <3>1, <3>2 DEF NotApplied
  <2>4. CASE wiz.step = "write"
    <3>0. job[j].kind = "write"
      BY <2>1, <2>4 DEF Awaits
    <3>1. wiz'.step \in {"select", "apply"} /\ wiz'.cancelled = wiz.cancelled
      BY <1>1, <2>1, <3>0 DEF Handled, Wizards
    <3>2. NotApplied(mapping)
      BY <2>4 DEF SessionFits, ScreenFits
    <3> QED
      BY <1>1, <1>6, <2>2, <2>4, <3>1, <3>2 DEF NotApplied
  <2>5. CASE wiz.step = "apply"
    <3>0. job[j].kind = "apply"
      BY <2>1, <2>5 DEF Awaits
    <3>1. wiz'.step = "done" /\ wiz'.cancelled = wiz.cancelled
      BY <1>1, <2>1, <3>0 DEF Handled, Wizards
    <3> QED
      BY <1>6, <2>2, <2>5, <3>1
  <2>6. CASE wiz.step = "done"
    <3>0. job[j].kind = "cancel"
      BY <2>1, <2>6 DEF Awaits
    <3>1. /\ wiz'.step = "done"
          /\ wiz'.cancelled => wiz.cancelled \/ ~job[j].failed
      <4>1. wiz' = [wiz EXCEPT !.waiting = FALSE, !.asking = FALSE,
                              !.cancelled = wiz.cancelled \/ ~job[j].failed]
        BY <2>1, <3>0 DEF Handled
      <4>2. wiz'.step = "done" /\ wiz'.cancelled = (wiz.cancelled \/ ~job[j].failed)
        BY <1>1, <2>6, <4>1, Zenon DEF Wizards
      <4> QED
        BY <4>2
    <3>2. ~job[j].failed => unit.phase # "armed"
      BY <1>1, <2>1, <2>6 DEF JobFits, Awaits
    <3> QED
      BY <1>6, <2>2, <3>1, <3>2
  <2> QED
    BY <2>1, <2>2, <2>3, <2>4, <2>5, <2>6 DEF Awaits
<1> QED
  BY <1>7, <1>8

(* The revert moves only when nothing has reached the apply, or after it.  *)
LEMMA ServiceFits ==
    ASSUME NEW content \in Contents, NEW mapping \in Contents,
           RaceInv, SessionFits(content, mapping), Service
    PROVE  SessionFits(content, mapping)'
<1>1. /\ UNCHANGED <<stagedConf, stagedPrev, job, cur, loads, wiz, opens>>
      /\ RevertService /\ Pending /\ unit.phase # "none" /\ unit \in Units
      /\ prevConf' = prevConf
  BY DEF Service, jobVars, appVars, RevertService, RevertFires, RevertCopies, RevertApplies,
         TimerElapsed, Pending, Firing, RaceInv, TypeOK, HostTypeOK
<1>2. \A k \in Slots : job[k].pc # "nics"
  <2> SUFFICES ASSUME NEW k \in Slots, job[k].pc = "nics" PROVE FALSE
    OBVIOUS
  <2>1. job[k].budget \in Nat
    BY Timeouts DEF RaceInv, TypeOK, ManagerTypeOK, Jobs
  <2>2. ~Firing /\ (unit.phase = "armed" => unit.left > job[k].budget)
    BY DEF RaceInv, TimerOutlivesApply
  <2> QED
    BY <1>1, <2>1, <2>2
    DEF RevertService, RevertFires, RevertCopies, RevertApplies, TimerElapsed, Firing
<1>3. opens # 0 /\ ~NotApplied(mapping)
  BY <1>1 DEF SessionFits, Fresh, NotApplied
<1>4. \A k \in Slots : JobFits(k, content, mapping)'
  <2>1. unit'.phase # "armed"
    BY <1>1 DEF RevertService, RevertFires, RevertCopies, RevertApplies,
                TimerElapsed, Units, Unloaded, Ended
  <2> QED
    BY <1>1, <1>2, <1>3, <2>1 DEF SessionFits, JobFits, NotApplied
<1>5. SourceHolds(content, mapping)'
  <2>1. Pending' => unit'.from = unit.from /\ unit'.was = unit.was
    BY <1>1 DEF RevertService, RevertFires, RevertCopies, RevertApplies, Units, Unloaded,
                Ended, Pending, Firing
  <2> QED
    BY <1>1, <2>1 DEF SessionFits, SourceHolds, Restores
<1>6. ScreenFits(content, mapping)'
  BY <1>1, <1>3 DEF SessionFits, ScreenFits, AllIdle
<1>7. CancelHolds'
  BY <1>1 DEF SessionFits, CancelHolds, RevertService, RevertFires, RevertCopies,
              RevertApplies, TimerElapsed, Units, Unloaded, Ended
<1> QED
  BY <1>1, <1>3, <1>4, <1>5, <1>6, <1>7 DEF SessionFits, Alone, Fresh

(* Time, and the end of the process or of the machine.                     *)
LEMMA ClockFits ==
    ASSUME NEW content \in Contents, NEW mapping \in Contents,
           TypeOK, SessionFits(content, mapping), Clock
    PROVE  SessionFits(content, mapping)'
<1>1. /\ job \in [Slots -> Jobs] /\ unit \in Units
      /\ UNCHANGED <<conf, prevConf, live, stagedConf, stagedPrev, cur, loads, wiz, opens>>
  BY DEF TypeOK, HostTypeOK, ManagerTypeOK, Clock, Tick, appVars
<1>2. \A k \in Slots : /\ job'[k].pc = job[k].pc /\ job'[k].kind = job[k].kind
                        /\ job'[k].arg = job[k].arg /\ job'[k].failed = job[k].failed
  BY <1>1 DEF Clock, Tick, Jobs
<1>3. unit'.phase = unit.phase /\ unit'.from = unit.from /\ unit'.was = unit.was
  BY <1>1 DEF Clock, Tick, Units
<1>4. \A k \in Slots : JobFits(k, content, mapping)'
  BY <1>1, <1>2, <1>3 DEF SessionFits, JobFits, NotApplied
<1>5. ScreenFits(content, mapping)'
  BY <1>1, <1>2, <1>3 DEF SessionFits, ScreenFits, AllIdle, NotApplied
<1> QED
  BY <1>1, <1>2, <1>3, <1>4, <1>5
  DEF SessionFits, Alone, Fresh, AllIdle, SourceHolds, Restores, CancelHolds,
      Pending, Firing

LEMMA GoneFits ==
    ASSUME NEW content \in Contents, NEW mapping \in Contents,
           TypeOK, SessionFits(content, mapping), Hangup \/ Reboot
    PROVE  SessionFits(content, mapping)'
<1>1. /\ wiz' = Closed /\ cur' = NoSnapshot /\ loads' = {}
      /\ \A k \in Slots : job'[k].pc = "idle" /\ job'[k].kind = "none"
      /\ UNCHANGED <<conf, prevConf, live, opens>>
      /\ unit' = unit \/ unit'.phase = "none"
  BY DEF Hangup, Reboot, ProcessGone, Idle, Unloaded, Ended
<1>2. wiz'.step = "closed" /\ ~wiz'.cancelled
  BY <1>1 DEF Closed, NewWizard
<1>3. \A k \in Slots : JobFits(k, content, mapping)'
  BY <1>1 DEF JobFits, Stages
<1>4. SourceHolds(content, mapping)'
  BY <1>1 DEF SessionFits, SourceHolds, Restores, Pending, Firing
<1> QED
  BY <1>1, <1>2, <1>3, <1>4 DEF SessionFits, Alone, Fresh, AllIdle, ScreenFits, CancelHolds

(* A load that arrives before the wizard is opened brings what is there.   *)
LEMMA LoadFits ==
    ASSUME NEW content \in Contents, NEW mapping \in Contents,
           TypeOK, SessionFits(content, mapping), LoadReads \/ LoadArrives
    PROVE  SessionFits(content, mapping)'
<1>1. UNCHANGED <<conf, prevConf, live, unit, stagedConf, stagedPrev, job, wiz, opens>>
  BY DEF LoadReads, LoadArrives, hostVars, jobVars
<1>2. Fresh(content, mapping)'
  BY <1>1 DEF SessionFits, Fresh, AllIdle, LoadReads, LoadArrives, Closed, NewWizard
<1>3. \A k \in Slots : JobFits(k, content, mapping)'
  BY <1>1 DEF SessionFits, JobFits, NotApplied
<1>4. ScreenFits(content, mapping)'
  BY <1>1 DEF SessionFits, ScreenFits, AllIdle, NotApplied
<1> QED
  BY <1>1, <1>2, <1>3, <1>4 DEF SessionFits, Alone, SourceHolds, Restores, CancelHolds,
      Pending, Firing

-----------------------------------------------------------------------------
(* Every step preserves the invariant while the wizard is the first one.   *)
LEMMA SessionInvNext ==
    ASSUME NEW content \in Contents, NEW mapping \in Contents,
           RaceInv, SessionInv(content, mapping), [Next]_vars
    PROVE  SessionInv(content, mapping)'
<1> SUFFICES ASSUME opens' <= 1 PROVE SessionFits(content, mapping)'
  BY DEF SessionInv
<1>0. TypeOK
  BY DEF RaceInv
<1>1. CASE OpenWizard
  BY <1>0, <1>1, OpensFresh
<1>2. ASSUME ~OpenWizard PROVE opens' = opens
  BY <1>2 DEF Next, Keyboard, Interrupt, Quit, Close, BuildPreview, ConfirmWrite, DeclineWrite,
              ConfirmApply, AskCancel, ConfirmCancel, DeclineCancel, LoadReads, LoadArrives,
              Goroutine, Deliver, Service, Clock, Hangup, Reboot, ProcessGone, appVars, vars
<1>3. ASSUME ~OpenWizard PROVE SessionFits(content, mapping)
  BY <1>2, <1>3 DEF SessionInv
<1>4. CASE ~OpenWizard /\ Keyboard
  BY <1>0, <1>3, <1>4, ClosesFit, KeysFit, StartsFit DEF Keyboard, Interrupt, Quit
<1>5. CASE ~OpenWizard /\ (LoadReads \/ LoadArrives)
  BY <1>0, <1>3, <1>5, LoadFits
<1>6. ASSUME ~OpenWizard, NEW j \in Slots, Goroutine(j) \/ Deliver(j)
      PROVE  SessionFits(content, mapping)'
  BY <1>0, <1>3, <1>6, CommandFits, MessageFits
<1>7. CASE ~OpenWizard /\ (Service \/ Clock \/ Hangup \/ Reboot)
  BY <1>0, <1>3, <1>7, ServiceFits, ClockFits, GoneFits
<1>8. CASE ~OpenWizard /\ UNCHANGED vars
  <2>1. \A k \in Slots : JobFits(k, content, mapping)'
    BY <1>3, <1>8 DEF SessionFits, JobFits, NotApplied, vars
  <2>2. ScreenFits(content, mapping)'
    BY <1>3, <1>8 DEF SessionFits, ScreenFits, AllIdle, NotApplied, vars
  <2> QED
    BY <1>3, <1>8, <2>1, <2>2
    DEF SessionFits, Alone, Fresh, AllIdle, SourceHolds, Restores, CancelHolds,
      Pending, Firing, vars
<1> QED
  BY <1>1, <1>4, <1>5, <1>6, <1>7, <1>8 DEF Next

(* It holds at first, of the roles.conf and the mapping that are there.    *)
LEMMA SessionInvInit ==
    ASSUME NEW content, NEW mapping, Init, conf = content, live = mapping
    PROVE  SessionInv(content, mapping)
<1>1. /\ wiz = Closed /\ opens = 0 /\ unit.phase = "none" /\ cur = NoSnapshot
      /\ loads = {} /\ \A k \in Slots : job[k].pc = "idle" /\ job[k].kind = "none"
  BY DEF Init, HostInit, ManagerInit, Unloaded, Ended, Idle
<1>2. wiz.step = "closed" /\ ~wiz.cancelled
  BY <1>1 DEF Closed, NewWizard
<1>3. \A k \in Slots : JobFits(k, content, mapping)
  BY <1>1 DEF JobFits, Stages
<1> QED
  BY <1>1, <1>2, <1>3 DEF SessionInv, SessionFits, Alone, Fresh, AllIdle, ScreenFits,
                          SourceHolds, Restores, CancelHolds, Pending, Firing

(* Whatever the machine had and ran, the session fits it.                  *)
SomeSession == \E content, mapping \in Contents : SessionInv(content, mapping)

LEMMA SessionInvariant == Spec => [](RaceInv /\ SomeSession)
<1>1. Init => RaceInv /\ SomeSession
  BY RaceInvInit, SessionInvInit DEF SomeSession, Init, HostInit
<1>2. RaceInv /\ SomeSession /\ [Next]_vars => SomeSession'
  BY SessionInvNext DEF SomeSession
<1> QED
  BY <1>1, <1>2, RaceInvNext, PTL DEF Spec

(* With systemd-run there, the first wizard's apply rewrites the mapping   *)
(* only under an armed revert whose copy holds the content the wizard was  *)
(* opened with, whatever failed or was interrupted before (ApplyRoles).    *)
THEOREM FirstApplyGuarded == Spec => [](opens <= 1 => ApplyRunsGuarded)
<1>1. RaceInv /\ SomeSession => (opens <= 1 => ApplyRunsGuarded)
  <2> SUFFICES ASSUME RaceInv, NEW content \in Contents, NEW mapping \in Contents,
                      SessionFits(content, mapping), HasSystemdRun,
                      NEW j \in Slots, job[j].pc = "nics"
               PROVE  unit.phase = "armed" /\ prevConf = job[j].arg
    BY DEF SomeSession, SessionInv, ApplyRunsGuarded
  <2>1. JobFits(j, content, mapping)
    BY DEF SessionFits
  <2>2. job[j].kind = "apply"
    BY <2>1, StageTells DEF RaceInv
  <2> QED
    BY <2>1, <2>2 DEF JobFits
<1> QED
  BY <1>1, SessionInvariant, PTL

(* Where the wizard is opened once, whatever roles.conf holds and whatever *)
(* mapping is live when the program starts, applied or not, a pending      *)
(* revert restores that roles.conf, and armed over that mapping            *)
(* (ApplyRoles, revertShellCommand).                                       *)
THEOREM FirstRevertRestores ==
    ASSUME MaxOpens <= 1
    PROVE  Spec => RevertRestoresFound
<1>1. ASSUME NEW content \in Contents, NEW mapping \in Contents
      PROVE  Spec => (conf = content /\ live = mapping =>
                        [](Pending => prevConf = content /\ unit.was = mapping))
  <2>1. Init /\ conf = content /\ live = mapping => RaceInv /\ SessionInv(content, mapping)
    BY RaceInvInit, SessionInvInit
  <2>2. RaceInv /\ SessionInv(content, mapping) /\ [Next]_vars
          => SessionInv(content, mapping)'
    BY SessionInvNext
  <2>3. RaceInv /\ SessionInv(content, mapping)
          => (Pending => prevConf = content /\ unit.was = mapping)
    <3>1. RaceInv => opens <= 1
      BY Timeouts DEF RaceInv, TypeOK
    <3> QED
      BY <3>1 DEF SessionInv, SessionFits, SourceHolds, Restores
  <2> QED
    BY <2>1, <2>2, <2>3, RaceInvNext, PTL DEF Spec
<1> QED
  BY <1>1 DEF RevertRestoresFound

(* The first wizard says the revert is cancelled only when no timer is     *)
(* left that would start one (CancelRevert): also when the timer elapsed   *)
(* between its two stops, of which the screen says nothing.                *)
THEOREM FirstCancelDisarms == Spec => [](opens <= 1 => CancelledMeansDisarmed)
<1>1. SomeSession => (opens <= 1 => CancelledMeansDisarmed)
  BY DEF SomeSession, SessionInv, SessionFits, CancelHolds, CancelledMeansDisarmed
<1> QED
  BY <1>1, SessionInvariant, PTL

(* Where the wizard is opened once, whatever WriteRoles says it installed  *)
(* is a rendered, validated assignment (buildPreview, RenderRolesConf).    *)
THEOREM OneWizardWritesRendered ==
    ASSUME MaxOpens <= 1
    PROVE  Spec => WritesAreRendered
<1>1. ASSUME RaceInv, SomeSession, [Next]_vars,
             NEW j \in Slots, job[j].kind = "write", job[j].pc = "install",
             job'[j].pc = "sent", ~job'[j].failed
      PROVE  conf' \in Assignments
  <2>1. TypeOK /\ ManagerTypeOK /\ job \in [Slots -> Jobs] /\ opens <= 1
    BY <1>1, Timeouts DEF RaceInv, TypeOK, ManagerTypeOK
  <2>2. PICK content \in Contents, mapping \in Contents : SessionFits(content, mapping)
    BY <1>1, <2>1 DEF SomeSession, SessionInv
  <2>3. stagedConf \in Assignments
    BY <1>1, <2>2 DEF SessionFits, JobFits
  <2>4. job'[j] # job[j]
    BY <1>1
  <2>5. ~Keyboard
    BY <1>1, <2>1, <2>4, KeyboardEffect
  <2>6. \A k \in Slots : ~Deliver(k)
    BY <1>1, <2>1 DEF Deliver, Idle
  <2>7. ~Clock
    BY <1>1, <2>1 DEF Clock, Tick, Jobs
  <2>8. ~(Hangup \/ Reboot)
    BY <1>1 DEF Hangup, Reboot, ProcessGone, Idle
  <2>9. PICK k \in Slots : JobStep(k)
    BY <1>1, <2>4, <2>5, <2>6, <2>7, <2>8
    DEF Next, LoadReads, LoadArrives, Goroutine, Service, jobVars, vars
  <2>10. k = j
    BY <2>1, <2>4, <2>9, JobStepEffect
  <2>11. Install(j)
    BY <1>1, <2>9, <2>10
    DEF JobStep, Preview, Stage, Arm, NicsApply, StopService, StopTimer
  <2>12. ~Returns(j, TRUE)
    BY <1>1, <2>1 DEF Returns, Jobs
  <2> QED
    BY <1>1, <2>3, <2>11, <2>12 DEF Install
<1>2. RaceInv /\ SomeSession /\ [Next]_vars
        => \A j \in Slots :
             /\ job[j].kind = "write"
             /\ job[j].pc = "install"
             /\ job'[j].pc = "sent"
             /\ ~job'[j].failed
             => conf' \in Assignments
  BY <1>1
<1> QED
  BY <1>2, SessionInvariant, PTL DEF Spec, WritesAreRendered
=============================================================================
