-------------------------- MODULE BackupScreenProofs --------------------------
(***************************************************************************)
(* What holds of the backup screen for every set of artifacts, every pair  *)
(* of timeouts, any number of screens and of commands in flight, and       *)
(* whatever fails.                                                         *)
(***************************************************************************)
EXTENDS BackupScreen, RestoreEngineProofs, SequenceTheorems

(* Where the ruleset stands at each stage of the restore.                  *)
RunStands(r) ==
    /\ run[r].pc # "ended" => run[r].outcome = "none"
    /\ run[r].pc = "ended" => run[r].outcome \notin {"none", "aborted"}
    /\ run[r].pc \in {"write", "reload", "snapshot", "apply"} => ruleset = Before
    /\ run[r].pc \in {"apply", "keep", "rollback"} => run[r].snapshot = Before
    /\ run[r].pc \in {"keep", "rollback"} => ruleset = run[r].artifact
    /\ run[r].outcome = "kept" => ruleset = run[r].artifact
    /\ run[r].outcome \in {"failed", "restored", "rolledback"} => ruleset = Before

(* The stages of a run that a restore started by the screen goes through.  *)
Started == {"write", "reload", "snapshot", "apply", "keep", "rollback", "ended"}

(* Somewhere on the way from the engine to the screen and back there is a  *)
(* question or an answer.                                                  *)
AskQueued == \E i \in 1 .. Len(inbox) : inbox[i].kind = "ask"

Questioned ==
    \/ \E n \in Numbers : ask[n] \/ answer[n] # "none"
    \/ AskQueued
    \/ scr.step = "keep"

(* There is none before the restore is at its keep question; an answer to  *)
(* keep that it may still take was given while it was.                     *)
AnswersStand ==
    /\ Questioned => \E r \in Runs : run[r].pc \in {"keep", "rollback", "ended"}
    /\ \A r \in Runs, n \in Numbers :
         run[r].pc = "keep" /\ answer[n] = "keep" => r \in confirmed
    /\ \A r \in Runs : run[r].outcome = "kept" => r \in confirmed

SingleInv ==
    /\ \A r \in Runs : /\ run[r].pc \in Started \cup {"idle"}
                       /\ run[r].pc = "idle" => run[r].outcome = "none"
    /\ OneRestore =>
         /\ \A r \in Runs : run[r].pc # "idle" => RunStands(r)
         /\ (\A r \in Runs : run[r].pc = "idle") => ruleset = Before
         /\ AnswersStand

-----------------------------------------------------------------------------
(* Nothing is in flight for any screen, and nothing has changed.           *)
Quiet ==
    /\ \A c \in Slots : command[c] = Idle
    /\ inbox = << >>
    /\ \A r \in Runs : run[r].pc = "idle"
    /\ \A n \in Numbers : ~ask[n] /\ answer[n] = "none" /\ waiters[n] = 0
    /\ reported = {}
    /\ ruleset = Before

(* The three situations of the first screen: it waits for a key, for one   *)
(* read or write, or for the one restore it has started.                   *)
Resting ==
    /\ Quiet
    /\ scr.step \in {"menu", "path", "exportPlan", "restorePlan", "hardware",
                     "confirm", "done"}
    /\ scr.result \in {"none", "failed"}
    /\ scr.step # "done" => scr.result = "none"

Reading ==
    /\ \A r \in Runs : run[r].pc = "idle"
    /\ \A n \in Numbers : ~ask[n] /\ answer[n] = "none" /\ waiters[n] = 0
    /\ reported = {}
    /\ ruleset = Before
    /\ scr.step = "working" /\ scr.result = "none"
    /\ \/ /\ inbox = << >>
          /\ \E c \in Slots : /\ command[c].kind # "none" /\ command[c].from = opens
                              /\ \A d \in Slots \ {c} : command[d] = Idle
       \/ /\ \A c \in Slots : command[c] = Idle
          /\ \E message \in Messages :
               /\ inbox = <<message>>
               /\ message.kind \in {"collected", "opened", "wrote"}
               /\ message.from = opens
               /\ message.result \in {"none", "failed"}

Question == Message("ask", opens, NoPlan, "none")

Verdict(r) == Message("applied", opens, NoPlan, run[r].outcome)

(* The question reaches the event loop before the verdict does, so that    *)
(* the verdict is the last thing the screen hears.                         *)
Hears(r) ==
    \/ /\ run[r].pc \in {"write", "reload", "snapshot", "apply"}
       /\ r \notin reported /\ inbox = << >> /\ scr.step = "working"
       /\ ~ask[opens] /\ waiters[opens] = 1 /\ answer[opens] = "none"
    \/ /\ run[r].pc = "keep" /\ run[r].window > 0
       /\ r \notin reported /\ inbox = << >> /\ scr.step = "working"
       /\ ask[opens] /\ waiters[opens] = 1 /\ answer[opens] = "none"
    \/ /\ run[r].pc \in {"keep", "rollback", "ended"} /\ ~ask[opens]
       /\ r \notin reported
       /\ \/ inbox = <<Question>> /\ scr.step = "working"
          \/ inbox = << >> /\ scr.step \in {"keep", "working"}
    \/ /\ run[r].pc = "ended" /\ ~ask[opens]
       /\ r \in reported
       /\ \/ inbox = <<Question, Verdict(r)>> /\ scr.step = "working"
          \/ inbox = <<Verdict(r)>> /\ scr.step \in {"keep", "working"}
          \/ inbox = << >> /\ scr.step = "done" /\ scr.result = run[r].outcome

Restoring(r) ==
    /\ \A c \in Slots : command[c] = Idle
    /\ \A s \in Runs \ {r} : run[s].pc = "idle"
    /\ owner[r] = opens
    /\ run[r].artifact = scr.plan.target
    /\ \A n \in Numbers \ {opens} : ~ask[n]
    /\ scr.step # "done" => scr.result = "none"
    /\ Hears(r)

FirstInv ==
    /\ opens = 0 => scr.step = "closed" /\ Quiet
    /\ opens = 1 /\ scr.step # "closed" =>
         Resting \/ Reading \/ \E r \in Runs : Restoring(r)

-----------------------------------------------------------------------------
(* The values the screen, its commands and its messages start from.        *)
LEMMA ScreenValues ==
    /\ NoPlan \in Plans /\ NewScreen \in Screens /\ Closed \in Screens
    /\ Idle \in Commands /\ PlansNow \subseteq Plans
<1>1. NoPlan \in Plans
  BY DEF NoPlan, Plans, Versions
<1>2. NewScreen \in Screens /\ Closed \in Screens
  BY <1>1 DEF NewScreen, Closed, Screens, ScreenSteps, Outcomes
<1>3. Idle \in Commands
  BY ScreenAssumption DEF Idle, Commands, Numbers
<1>4. PlansNow \subseteq Plans
  BY ScreenAssumption DEF PlansNow, Plans, Versions
<1> QED
  BY <1>1, <1>2, <1>3, <1>4

(* What the event loop hands to the screen keeps it a screen.              *)
LEMMA HandledTyped ==
    ASSUME scr \in Screens, NEW message \in Messages
    PROVE  Handled(message) \in Screens
<1>1. /\ message.kind \in {"collected", "opened", "wrote", "ask", "applied"}
      /\ message.plan \in Plans /\ message.result \in Outcomes
  BY DEF Messages
<1>2. StepAfter[message.kind] \in ScreenSteps
  BY <1>1 DEF StepAfter, ScreenSteps
<1> QED
  BY <1>1, <1>2 DEF Handled, Screens, ScreenSteps

LEMMA SendTyped ==
    ASSUME inbox \in Seq(Messages),
           NEW kind \in {"collected", "opened", "wrote", "ask", "applied"},
           NEW from \in Numbers, NEW plan \in Plans, NEW result \in Outcomes,
           Sends(Message(kind, from, plan, result))
    PROVE  inbox' \in Seq(Messages)
<1>1. Message(kind, from, plan, result) \in Messages
  BY DEF Message, Messages
<1> QED
  BY <1>1 DEF Sends

LEMMA ScreenInitTyped == Init => TypeOK
BY EngineInitTyped, ScreenValues, ScreenAssumption DEF Init, TypeOK, Numbers

LEMMA StartTyped ==
    ASSUME TypeOK, NEW kind \in {"collect", "open", "write"}, Start(kind)
    PROVE  TypeOK'
<1>1. [kind |-> kind, from |-> opens] \in Commands
  BY DEF TypeOK, Commands
<1>2. command' \in [Slots -> Commands]
  BY <1>1 DEF TypeOK, Start
<1>3. scr' \in Screens
  BY DEF TypeOK, Start, Goes, Screens, ScreenSteps
<1> QED
  BY <1>2, <1>3 DEF TypeOK, EngineTypeOK, Start, runVars, channelVars

LEMMA KeyboardTyped ==
    ASSUME TypeOK, Keyboard
    PROVE  TypeOK'
<1>0. scr \in Screens /\ scr.plan \in Plans
  BY DEF TypeOK, Screens
<1>1. ASSUME OnlyScreen, scr' \in Screens
      PROVE  TypeOK'
  BY <1>1 DEF TypeOK, EngineTypeOK, OnlyScreen, runVars, channelVars
<1>2. ASSUME OpenBackup
      PROVE  TypeOK'
  <2>1. opens' \in Numbers /\ scr' \in Screens
    BY <1>2, ScreenValues, ScreenAssumption DEF OpenBackup, TypeOK, Numbers
  <2> QED
    BY <1>2, <2>1 DEF TypeOK, EngineTypeOK, OpenBackup, runVars, channelVars
<1>3. ASSUME NEW step \in ScreenSteps, Goes(step)
      PROVE  scr' \in Screens
  BY <1>0, <1>3 DEF Goes, Screens
<1>4. Fails => scr' \in Screens
  BY <1>0 DEF Fails, Screens, ScreenSteps, Outcomes
<1>5. CASE Leave
  BY <1>1, <1>5, ScreenValues DEF Leave
<1>6. CASE ChooseMode
  BY <1>0, <1>1, <1>6 DEF ChooseMode, Screens, ScreenSteps
<1>7. CASE TypePath
  BY <1>7, StartTyped DEF TypePath
<1>8. CASE ConfirmExport
  BY <1>8, StartTyped DEF ConfirmExport
<1>9. CASE ConfirmPlan
  BY <1>1, <1>3, <1>9 DEF ConfirmPlan, ScreenSteps
<1>10. CASE AnswerHardware
  BY <1>1, <1>3, <1>4, <1>10 DEF AnswerHardware, ScreenSteps
<1>11. CASE RefuseConfirm
  BY <1>1, <1>4, <1>11 DEF RefuseConfirm
<1>12. CASE StartRestore
  <2> DEFINE started == [NotStarted EXCEPT !.pc = "write", !.artifact = scr.plan.target,
                                 !.carried = scr.plan.carried,
                                 !.todo = scr.plan.carried \cap Files,
                                 !.ctx = CtxTimeout]
  <2>0. /\ scr.plan.target \in Versions /\ scr.plan.carried \in SUBSET Parts
        /\ scr.plan.carried \cap Files \in SUBSET (Files \cup Reloads)
        /\ CtxTimeout \in 0 .. CtxTimeout /\ 0 \in 0 .. KeepTimeout
        /\ Before \in Versions
    BY <1>0, EngineAssumption DEF Plans, Versions
  <2>1. started \in RunStates
    BY <2>0 DEF NotStarted, RunStates, Pcs, Outcomes
  <2>2. run' \in [Runs -> RunStates] /\ owner' \in [Runs -> Numbers]
    BY <1>12, <2>1 DEF StartRestore, TypeOK, EngineTypeOK
  <2>3. waiters' \in [Numbers -> Nat]
    BY <1>12 DEF StartRestore, TypeOK
  <2>4. scr' \in Screens
    BY <1>3, <1>12 DEF StartRestore, ScreenSteps
  <2> QED
    BY <1>12, <2>2, <2>3, <2>4 DEF StartRestore, TypeOK, EngineTypeOK, machineVars
<1>13. CASE AnswerKeep
  <2>1. scr' \in Screens
    BY <1>3, <1>13 DEF AnswerKeep, ScreenSteps
  <2>2. answer' \in [Numbers -> {"none", "keep", "drop"}] /\ confirmed' \in SUBSET Runs
    BY <1>13 DEF AnswerKeep, Asking, TypeOK
  <2> QED
    BY <1>13, <2>1, <2>2 DEF AnswerKeep, TypeOK, EngineTypeOK, runVars
<1> QED
  BY <1>2, <1>5, <1>6, <1>7, <1>8, <1>9, <1>10, <1>11, <1>12, <1>13 DEF Keyboard

(* Nothing but the keyboard opens a screen or asks for anything new.       *)
LEMMA StepTyped ==
    ASSUME TypeOK, [Next]_vars
    PROVE  TypeOK'
<1>0. CASE UNCHANGED vars
  BY <1>0 DEF vars, TypeOK, EngineTypeOK
<1>1. ASSUME NEW c \in Slots, CommandEnds(c)
      PROVE  TypeOK'
  <2>1. command[c].from \in Numbers
    BY DEF TypeOK, Commands
  <2>2. inbox' \in Seq(Messages)
    BY <1>1, <2>1, ScreenValues, SendTyped DEF CommandEnds, TypeOK, Outcomes
  <2>3. command' \in [Slots -> Commands]
    BY <1>1, ScreenValues DEF CommandEnds, TypeOK
  <2> QED
    BY <1>1, <2>2, <2>3 DEF CommandEnds, TypeOK, EngineTypeOK, runVars, channelVars
<1>2. ASSUME NEW r \in Runs, EngineMoves(r)
      PROVE  TypeOK'
  <2>1. EngineTypeOK'
    BY <1>2, EngineTyped DEF EngineMoves, TypeOK
  <2>2. ask' \in [Numbers -> BOOLEAN]
    BY <1>2 DEF EngineMoves, TypeOK
  <2> QED
    BY <1>2, <2>1, <2>2 DEF EngineMoves, TypeOK
<1>3. ASSUME NEW r \in Runs, TakeAnswer(r) \/ KeepTimesOut(r)
      PROVE  TypeOK'
  <2>1. run' \in [Runs -> RunStates] /\ UNCHANGED machineVars
    BY <1>3, AnswersTyped DEF TakeAnswer, KeepTimesOut, TypeOK, Becomes, Commit, NotKept
  <2>2. EngineTypeOK'
    BY <2>1 DEF TypeOK, EngineTypeOK, machineVars
  <2>3. answer' \in [Numbers -> {"none", "keep", "drop"}]
    BY <1>3 DEF TakeAnswer, KeepTimesOut, TypeOK, channelVars
  <2> QED
    BY <1>3, <2>2, <2>3 DEF TakeAnswer, KeepTimesOut, TypeOK, channelVars
<1>4. ASSUME NEW r \in Runs, Reports(r)
      PROVE  TypeOK'
  <2>1. owner[r] \in Numbers /\ run[r].outcome \in Outcomes
    BY DEF TypeOK, EngineTypeOK, RunStates
  <2>2. inbox' \in Seq(Messages)
    BY <1>4, <2>1, ScreenValues, SendTyped DEF Reports, TypeOK
  <2> QED
    BY <1>4, <2>2 DEF Reports, TypeOK, EngineTypeOK, machineVars, channelVars
<1>5. ASSUME NEW n \in Numbers, WaiterWakes(n)
      PROVE  TypeOK'
  <2>1. inbox' \in Seq(Messages)
    BY <1>5, ScreenValues, SendTyped DEF WaiterWakes, TypeOK, Outcomes
  <2>2. ask' \in [Numbers -> BOOLEAN] /\ waiters' \in [Numbers -> Nat]
    BY <1>5 DEF WaiterWakes, WaiterReady, TypeOK
  <2> QED
    BY <1>5, <2>1, <2>2 DEF WaiterWakes, TypeOK, EngineTypeOK, runVars
<1>6. CASE Clock
  BY <1>6, TickTyped DEF Clock, TypeOK, channelVars
<1>7. CASE Deliver
  <2>1. scr' \in Screens
    BY <1>7, HandledTyped DEF Deliver, TypeOK
  <2>2. inbox' \in Seq(Messages)
    BY <1>7 DEF Deliver, TypeOK
  <2> QED
    BY <1>7, <2>1, <2>2 DEF Deliver, TypeOK, EngineTypeOK, runVars, channelVars
<1>8. CASE ProcessEnds
  <2>1. ASSUME NEW r \in Runs
        PROVE  [run[r] EXCEPT !.pc = "ended", !.outcome = "gone"] \in RunStates
    <3>1. "ended" \in Pcs /\ "gone" \in Outcomes /\ run[r] \in RunStates
      BY RunTyped DEF TypeOK, Pcs, Outcomes
    <3> QED
      BY <3>1 DEF RunStates
  <2>2. run' \in [Runs -> RunStates]
    BY <1>8, <2>1 DEF ProcessEnds, TypeOK, EngineTypeOK
  <2>3. /\ scr' \in Screens /\ command' \in [Slots -> Commands]
        /\ reported' \in SUBSET Runs
    BY <1>8, ScreenValues DEF ProcessEnds
  <2>4. << >> \in Seq(Messages)
    OBVIOUS
  <2>5. /\ ask' \in [Numbers -> BOOLEAN] /\ waiters' \in [Numbers -> Nat]
        /\ answer' \in [Numbers -> {"none", "keep", "drop"}]
    BY <1>8 DEF ProcessEnds
  <2> QED
    BY <1>8, <2>2, <2>3, <2>5, <2>4 DEF ProcessEnds, TypeOK, EngineTypeOK, machineVars
<1> QED
  BY <1>0, <1>1, <1>2, <1>3, <1>4, <1>5, <1>6, <1>7, <1>8, KeyboardTyped
  DEF Next, Cockpit, Goroutine

(* Every screen, message, answer and run has the type the code gives it,   *)
(* whatever is opened over whatever.                                       *)
THEOREM ScreenTyped == Spec => []TypeOK
BY ScreenInitTyped, StepTyped, PTL DEF Spec

-----------------------------------------------------------------------------
(* A message that is no question adds none, and the event loop makes one   *)
(* only of one.                                                            *)
LEMMA NoNewQuestion ==
    ASSUME inbox \in Seq(Messages), NEW kind, kind # "ask",
           NEW from, NEW plan, NEW result,
           Sends(Message(kind, from, plan, result)), AskQueued'
    PROVE  AskQueued
<1>1. PICK i \in 1 .. Len(inbox') : inbox'[i].kind = "ask"
  BY DEF AskQueued
<1>2. /\ Len(inbox') = Len(inbox) + 1
      /\ inbox'[Len(inbox) + 1].kind = kind
      /\ \A j \in 1 .. Len(inbox) : inbox'[j] = inbox[j]
  BY DEF Sends, Message
<1>3. i \in 1 .. Len(inbox)
  BY <1>1, <1>2
<1> QED
  BY <1>1, <1>2, <1>3 DEF AskQueued

LEMMA QuestionWasQueued ==
    ASSUME TypeOK, Deliver, AskQueued' \/ scr'.step = "keep"
    PROVE  AskQueued \/ scr.step = "keep"
<1>1. inbox \in Seq(Messages) /\ inbox # << >> /\ inbox' = Tail(inbox)
  BY DEF TypeOK, Deliver
<1>2. CASE AskQueued'
  <2>1. PICK i \in 1 .. Len(inbox') : inbox'[i].kind = "ask"
    BY <1>2 DEF AskQueued
  <2>2. i + 1 \in 1 .. Len(inbox) /\ inbox[i + 1] = inbox'[i]
    BY <1>1, <2>1
  <2> QED
    BY <2>1, <2>2 DEF AskQueued
<1>3. CASE scr'.step = "keep" /\ scr.step # "keep"
  <2>1. Head(inbox) \in Messages /\ 1 \in 1 .. Len(inbox) /\ inbox[1] = Head(inbox)
    BY <1>1
  <2>2. scr' = Handled(Head(inbox)) /\ scr \in Screens
    BY <1>3 DEF Deliver, TypeOK
  <2>3. Head(inbox).result # "failed" /\ StepAfter[Head(inbox).kind] = "keep"
    BY <1>3, <2>2 DEF Handled, Screens
  <2>4. Head(inbox).kind = "ask"
    BY <2>1, <2>3 DEF StepAfter, Messages
  <2> QED
    BY <2>1, <2>4 DEF AskQueued
<1> QED
  BY <1>2, <1>3

(* A step that moves no run and asks or answers nothing new.               *)
LEMMA SameStages ==
    ASSUME SingleInv,
           \A r \in Runs : /\ run'[r].pc = run[r].pc
                          /\ run'[r].outcome = run[r].outcome
                          /\ run'[r].artifact = run[r].artifact
                          /\ run'[r].snapshot = run[r].snapshot,
           ruleset' = ruleset, confirmed' = confirmed,
           \A n \in Numbers : answer'[n] = "keep" => answer[n] = "keep",
           Questioned' => Questioned
    PROVE  SingleInv'
<1>1. OneRestore' <=> OneRestore
  BY DEF OneRestore
<1>2. ASSUME OneRestore, NEW r \in Runs, RunStands(r)
      PROVE  RunStands(r)'
  BY <1>2 DEF RunStands
<1>3. ASSUME OneRestore, AnswersStand
      PROVE  AnswersStand'
  BY <1>3 DEF AnswersStand
<1> QED
  BY <1>1, <1>2, <1>3 DEF SingleInv

(* A step of a run that has started.                                       *)
LEMMA MovesOn ==
    ASSUME SingleInv, NEW r \in Runs, run[r].pc # "idle",
           \A other \in Runs \ {r} : run'[other] = run[other],
           run'[r].pc \in Started,
           OneRestore => RunStands(r)' /\ AnswersStand'
    PROVE  SingleInv'
<1>1. run'[r].pc # "idle"
  BY DEF Started
<1>2. OneRestore' => OneRestore
  BY <1>1 DEF OneRestore
<1>3. ASSUME OneRestore, NEW s \in Runs, run'[s].pc # "idle"
      PROVE  s = r
  BY <1>3, <1>1 DEF OneRestore
<1> QED
  BY <1>1, <1>2, <1>3 DEF SingleInv

LEMMA SingleInit == Init => SingleInv
BY DEF Init, EngineInit, NotStarted, SingleInv, AnswersStand, Questioned, AskQueued,
       Closed, NewScreen

LEMMA KeyboardSingle ==
    ASSUME TypeOK, SingleInv, Keyboard
    PROVE  SingleInv'
<1>0. scr \in Screens
  BY DEF TypeOK
<1>1. ASSUME UNCHANGED <<runVars, ask, answer, inbox, confirmed>>, scr'.step # "keep"
      PROVE  SingleInv'
  <2>1. UNCHANGED <<run, ruleset, ask, answer, inbox, confirmed>>
    BY <1>1 DEF runVars
  <2>2. Questioned' => Questioned
    BY <1>1, <2>1 DEF Questioned, AskQueued
  <2> QED
    BY <2>1, <2>2, SameStages
<1>2. ASSUME NEW step, Goes(step), step # "keep"
      PROVE  scr'.step # "keep"
  BY <1>0, <1>2 DEF Goes, Screens
<1>3. Fails => scr'.step # "keep"
  BY <1>0 DEF Fails, Screens
<1>4. CASE OpenBackup \/ Leave
  BY <1>1, <1>4 DEF OpenBackup, Leave, OnlyScreen, NewScreen, Closed, channelVars
<1>5. CASE ChooseMode
  BY <1>0, <1>1, <1>5 DEF ChooseMode, OnlyScreen, channelVars, Screens
<1>6. CASE TypePath \/ ConfirmExport
  <2>1. PICK kind : Start(kind)
    BY <1>6 DEF TypePath, ConfirmExport
  <2> QED
    BY <1>1, <1>2, <2>1 DEF Start, channelVars
<1>7. CASE ConfirmPlan \/ AnswerHardware \/ RefuseConfirm
  BY <1>1, <1>2, <1>3, <1>7
  DEF ConfirmPlan, AnswerHardware, RefuseConfirm, OnlyScreen, channelVars
<1>8. CASE StartRestore
  <2>1. PICK r \in Runs :
          /\ run[r].pc = "idle"
          /\ run' = [run EXCEPT ![r] =
               [NotStarted EXCEPT !.pc = "write", !.artifact = scr.plan.target,
                                  !.carried = scr.plan.carried,
                                  !.todo = scr.plan.carried \cap Files,
                                  !.ctx = CtxTimeout]]
    BY <1>8 DEF StartRestore
  <2>2. /\ run'[r].pc = "write" /\ run'[r].outcome = "none"
        /\ \A other \in Runs \ {r} : run'[other] = run[other]
    BY <2>1 DEF NotStarted, TypeOK, EngineTypeOK
  <2>3. ASSUME OneRestore'
        PROVE  \A s \in Runs : run[s].pc = "idle"
    BY <2>1, <2>2, <2>3 DEF OneRestore
  <2>4. Questioned' => Questioned
    BY <1>2, <1>8 DEF StartRestore, Questioned, AskQueued
  <2>5. UNCHANGED <<ruleset, answer, confirmed>>
    BY <1>8 DEF StartRestore, machineVars
  <2>6. ASSUME OneRestore'
        PROVE  /\ OneRestore /\ ~Questioned /\ ruleset = Before
               /\ \A s \in Runs : run[s].outcome = "none"
    BY <2>3, <2>6 DEF OneRestore, SingleInv, AnswersStand
  <2>7. ASSUME OneRestore'
        PROVE  AnswersStand'
    <3>1. ~Questioned'
      BY <2>4, <2>6, <2>7
    <3>2. \A n \in Numbers : answer[n] = "none"
      BY <2>6, <2>7 DEF Questioned
    <3>3. \A s \in Runs : run'[s].outcome = "none"
      BY <2>2, <2>6, <2>7
    <3> QED
      BY <2>5, <3>1, <3>2, <3>3 DEF AnswersStand
  <2>8. ASSUME OneRestore', NEW s \in Runs, run'[s].pc # "idle"
        PROVE  RunStands(s)'
    <3>1. s = r
      BY <2>2, <2>3, <2>8
    <3> QED
      BY <2>2, <2>5, <2>6, <2>8, <3>1 DEF RunStands
  <2>9. \A s \in Runs : /\ run'[s].pc \in Started \cup {"idle"}
                        /\ run'[s].pc = "idle" => run'[s].outcome = "none"
    BY <2>2 DEF SingleInv, Started
  <2> QED
    BY <2>2, <2>7, <2>8, <2>9 DEF SingleInv
<1>9. CASE AnswerKeep
  <2>1. PICK key \in {"keep", "drop"} :
          /\ answer' = [answer EXCEPT ![opens] = IF @ = "none" THEN key ELSE @]
          /\ confirmed' = IF key = "keep" THEN confirmed \cup Asking ELSE confirmed
    BY <1>9 DEF AnswerKeep
  <2>2. Questioned
    BY <1>9 DEF AnswerKeep, Questioned
  <2>3. UNCHANGED <<run, ruleset>> /\ confirmed \subseteq confirmed'
    BY <1>9, <2>1 DEF AnswerKeep, runVars
  <2>4. ASSUME OneRestore, NEW r \in Runs, NEW n \in Numbers,
               run[r].pc = "keep", answer'[n] = "keep"
        PROVE  r \in confirmed'
    <3>1. CASE answer[n] = "keep"
      BY <2>3, <2>4, <3>1 DEF SingleInv, AnswersStand
    <3>2. CASE answer[n] # "keep"
      BY <2>1, <2>4, <3>2 DEF Asking, TypeOK
    <3> QED
      BY <3>1, <3>2
  <2>5. ASSUME OneRestore
        PROVE  AnswersStand'
    BY <2>2, <2>3, <2>4, <2>5 DEF SingleInv, AnswersStand
  <2> QED
    BY <2>3, <2>5 DEF SingleInv, OneRestore, RunStands
<1> QED
  BY <1>4, <1>5, <1>6, <1>7, <1>8, <1>9 DEF Keyboard

(* A step of the engine.  There is no question before the ruleset is live, *)
(* so no answer can be waiting for it when it asks.                        *)
LEMMA EngineSingle ==
    ASSUME TypeOK, SingleInv, NEW r \in Runs, EngineMoves(r)
    PROVE  SingleInv'
<1>1. EngineTypeOK /\ EngineStep(r) /\ run[r] \in RunStates
  BY RunTyped DEF EngineMoves, TypeOK
<1>2. /\ UNCHANGED <<answer, scr, inbox, confirmed>>
      /\ ask' = [ask EXCEPT ![owner[r]] = @ \/ run'[r].pc = "keep"]
  BY DEF EngineMoves
<1>3. Questioned' => Questioned \/ run'[r].pc = "keep"
  BY <1>2 DEF Questioned, AskQueued, TypeOK
<1>4. ASSUME OneRestore, run[r].pc \notin {"idle", "ended"}
      PROVE  /\ RunStands(r) /\ AnswersStand
             /\ Questioned => run[r].pc \in {"keep", "rollback"}
             /\ \A s \in Runs \ {r} : run[s].pc = "idle" /\ run[s].outcome = "none"
  <2>1. RunStands(r) /\ AnswersStand
    BY <1>4 DEF SingleInv
  <2>2. \A s \in Runs \ {r} : run[s].pc = "idle" /\ run[s].outcome = "none"
    BY <1>4 DEF OneRestore, SingleInv
  <2> QED
    BY <1>4, <2>1, <2>2 DEF AnswersStand
<1>5. ASSUME run[r].pc \notin {"idle", "ended"},
             \A other \in Runs \ {r} : run'[other] = run[other],
             run'[r].pc \in Started, run'[r].pc # "keep", run'[r].outcome # "kept",
             Questioned => run'[r].pc \in {"rollback", "ended"},
             OneRestore => RunStands(r)'
      PROVE  SingleInv'
  <2>1. ASSUME OneRestore
        PROVE  AnswersStand'
    <3>1. \A s \in Runs \ {r} : run'[s].pc = "idle" /\ run'[s].outcome = "none"
      BY <1>4, <1>5, <2>1
    <3>2. Questioned' => \E s \in Runs : run'[s].pc \in {"keep", "rollback", "ended"}
      BY <1>3, <1>5
    <3> QED
      BY <1>5, <3>1, <3>2 DEF AnswersStand
  <2> QED
    BY <1>5, <2>1, MovesOn
<1>6. CASE LoopsOn(r)
  <2>1. PICK todo, bad : Becomes(r, [run[r] EXCEPT !.todo = todo, !.badReload = bad])
    BY <1>6 DEF LoopsOn
  <2>2. /\ \A s \in Runs \ {r} : run'[s] = run[s]
        /\ run'[r].pc = run[r].pc
        /\ run'[r].outcome = run[r].outcome
        /\ run'[r].artifact = run[r].artifact
        /\ run'[r].snapshot = run[r].snapshot
    BY <1>1, <2>1 DEF Becomes, RunStates
  <2>3. run'[r].pc # "keep" /\ ruleset' = ruleset
    BY <1>6, <2>2 DEF LoopsOn
  <2> QED
    BY <1>2, <1>3, <2>2, <2>3, SameStages
<1>7. CASE FailsEarly(r)
  <2>1. /\ \A other \in Runs \ {r} : run'[other] = run[other]
        /\ run'[r].pc = "ended" /\ run'[r].outcome = "failed"
        /\ run[r].pc \in {"write", "reload", "snapshot", "apply"}
        /\ ruleset' = ruleset
    BY <1>1, <1>7 DEF FailsEarly, Becomes, RunStates
  <2>2. OneRestore => RunStands(r)'
    BY <1>4, <2>1 DEF RunStands
  <2> QED
    BY <1>5, <2>1, <2>2 DEF Started
<1>8. CASE WritesOver(r) \/ ReloadsOver(r) \/ SnapshotTaken(r)
  <2>1. /\ \A other \in Runs \ {r} : run'[other] = run[other]
        /\ run[r].pc \in {"write", "reload", "snapshot"} /\ ruleset' = ruleset
        /\ \/ run'[r].pc \in {"reload", "snapshot"} /\ run'[r].outcome = run[r].outcome
           \/ run'[r].pc = "ended" /\ run'[r].outcome = "restored"
           \/ /\ run'[r].pc = "apply" /\ run'[r].outcome = run[r].outcome
              /\ run'[r].snapshot = ruleset
    BY <1>1, <1>8
    DEF WritesOver, ReloadsOver, SnapshotTaken, Becomes, RunStates, machineVars
  <2>2. OneRestore => RunStands(r)'
    BY <1>4, <2>1 DEF RunStands
  <2>3. OneRestore => ~Questioned
    BY <1>4, <2>1
  <2>4. ASSUME OneRestore
        PROVE  AnswersStand'
    <3>1. \A s \in Runs \ {r} : run'[s].pc = "idle" /\ run'[s].outcome = "none"
      BY <1>4, <2>1, <2>4
    <3>2. run'[r].pc # "keep" /\ run'[r].outcome # "kept"
      BY <1>4, <2>1, <2>4 DEF RunStands
    <3> QED
      BY <1>3, <2>3, <2>4, <3>1, <3>2 DEF AnswersStand
  <2>5. run[r].pc # "idle" /\ run'[r].pc \in Started
    BY <2>1 DEF Started
  <2> QED
    BY <2>1, <2>2, <2>4, <2>5, MovesOn
<1>9. CASE RulesetTried(r)
  <2>1. /\ \A other \in Runs \ {r} : run'[other] = run[other]
        /\ run[r].pc = "apply" /\ ruleset' = run[r].artifact
        /\ run'[r].pc = "keep" /\ run'[r].outcome = run[r].outcome
        /\ run'[r].artifact = run[r].artifact /\ run'[r].snapshot = run[r].snapshot
    BY <1>1, <1>9 DEF RulesetTried, Becomes, RunStates
  <2>2. OneRestore => RunStands(r)'
    BY <1>4, <2>1 DEF RunStands
  <2>3. ASSUME OneRestore
        PROVE  AnswersStand'
    <3>1. \A n \in Numbers : answer'[n] = "none"
      BY <1>2, <1>4, <2>1, <2>3 DEF Questioned
    <3>2. \A s \in Runs : run'[s].outcome = "none"
      BY <1>4, <2>1, <2>3 DEF RunStands
    <3> QED
      BY <2>1, <3>1, <3>2 DEF AnswersStand
  <2>4. run[r].pc # "idle" /\ run'[r].pc \in Started
    BY <2>1 DEF Started
  <2> QED
    BY <2>1, <2>2, <2>3, <2>4, MovesOn
<1>10. CASE RolledBack(r) \/ RollbackFails(r)
  <2>1. /\ \A other \in Runs \ {r} : run'[other] = run[other]
        /\ run[r].pc = "rollback" /\ run'[r].pc = "ended"
        /\ \/ run'[r].outcome = "rolledback" /\ ruleset' = run[r].snapshot
           \/ run'[r].outcome = "stuck"
    BY <1>1, <1>10 DEF RolledBack, RollbackFails, Becomes, RunStates
  <2>2. OneRestore => RunStands(r)'
    BY <1>4, <2>1 DEF RunStands
  <2> QED
    BY <1>5, <2>1, <2>2 DEF Started
<1> QED
  BY <1>1, <1>6, <1>7, <1>8, <1>9, <1>10, EngineEffects

LEMMA SingleStep ==
    ASSUME TypeOK, SingleInv, [Next]_vars
    PROVE  SingleInv'
<1>0. CASE UNCHANGED vars
  BY <1>0 DEF vars, SingleInv, OneRestore, RunStands, AnswersStand, Questioned, AskQueued
<1>1. ASSUME NEW c \in Slots, CommandEnds(c)
      PROVE  SingleInv'
  <2>1. UNCHANGED <<run, ruleset, ask, answer, scr, confirmed>>
    BY <1>1 DEF CommandEnds, runVars, channelVars
  <2>2. \E kind, from, plan, result :
           kind # "ask" /\ Sends(Message(kind, from, plan, result))
    BY <1>1 DEF CommandEnds
  <2>3. AskQueued' => AskQueued
    BY <2>2, NoNewQuestion DEF TypeOK
  <2>4. Questioned' => Questioned
    BY <2>1, <2>3 DEF Questioned
  <2> QED
    BY <2>1, <2>4, SameStages
<1>2. ASSUME NEW r \in Runs, TakeAnswer(r) \/ KeepTimesOut(r)
      PROVE  SingleInv'
  <2>1. /\ run[r] \in RunStates /\ EngineTypeOK
        /\ UNCHANGED <<ruleset, ask, scr, inbox, confirmed>>
    BY <1>2, RunTyped
    DEF TypeOK, TakeAnswer, KeepTimesOut, Commit, NotKept, machineVars, channelVars
  <2>2. /\ \A n \in Numbers : answer'[n] # "none" => answer'[n] = answer[n]
        /\ \/ Commit(r) /\ answer[owner[r]] = "keep" /\ owner[r] \in Numbers
           \/ NotKept(r)
    BY <1>2 DEF TakeAnswer, KeepTimesOut, TypeOK, channelVars
  <2>3. /\ \A other \in Runs \ {r} : run'[other] = run[other]
        /\ run[r].pc = "keep"
        /\ run'[r].artifact = run[r].artifact /\ run'[r].snapshot = run[r].snapshot
        /\ \/ /\ run'[r].pc = "ended" /\ run'[r].outcome = "kept"
              /\ answer[owner[r]] = "keep" /\ owner[r] \in Numbers
           \/ run'[r].pc = "rollback" /\ run'[r].outcome = run[r].outcome
    <3>1. CASE Commit(r) /\ answer[owner[r]] = "keep" /\ owner[r] \in Numbers
      <4>1. run[r].pc = "keep"
        BY <3>1 DEF Commit
      <4>2. Becomes(r, [run[r] EXCEPT !.pc = "ended", !.awaiting = FALSE,
                                      !.outcome = "kept"])
        BY <2>1, <3>1, AnswersTyped
      <4> QED
        BY <2>1, <3>1, <4>1, <4>2 DEF Becomes, RunStates
    <3>2. CASE NotKept(r)
      <4>1. run[r].pc = "keep"
        BY <3>2 DEF NotKept
      <4>2. Becomes(r, [run[r] EXCEPT !.pc = "rollback", !.todo = {}])
        BY <2>1, <3>2, AnswersTyped
      <4> QED
        BY <2>1, <4>1, <4>2 DEF Becomes, RunStates
    <3> QED
      BY <2>2, <3>1, <3>2
  <2>4. OneRestore => RunStands(r) /\ AnswersStand
    BY <2>3 DEF SingleInv
  <2>5. OneRestore => RunStands(r)'
    BY <2>1, <2>3, <2>4 DEF RunStands
  <2>6. ASSUME OneRestore
        PROVE  AnswersStand'
    <3>1. run'[r].outcome = "kept" => r \in confirmed
      BY <2>3, <2>4, <2>6 DEF AnswersStand, RunStands
    <3>2. \A s \in Runs \ {r} : run[s].pc = "idle" /\ run[s].outcome = "none"
      BY <2>3, <2>6 DEF OneRestore, SingleInv
    <3> QED
      BY <2>1, <2>3, <3>1, <3>2 DEF AnswersStand
  <2>7. run[r].pc # "idle" /\ run'[r].pc \in Started
    BY <2>3 DEF Started
  <2> QED
    BY <2>3, <2>5, <2>6, <2>7, MovesOn
<1>3. ASSUME NEW r \in Runs, Reports(r)
      PROVE  SingleInv'
  <2>1. UNCHANGED <<run, ruleset, ask, answer, scr, confirmed>>
    BY <1>3 DEF Reports, machineVars, channelVars
  <2>2. AskQueued' => AskQueued
    BY <1>3, NoNewQuestion DEF Reports, TypeOK
  <2>3. Questioned' => Questioned
    BY <2>1, <2>2 DEF Questioned
  <2> QED
    BY <2>1, <2>3, SameStages
<1>4. ASSUME NEW n \in Numbers, WaiterWakes(n)
      PROVE  SingleInv'
  <2>1. UNCHANGED <<run, ruleset, answer, confirmed>> /\ Questioned
    BY <1>4 DEF WaiterWakes, WaiterReady, runVars, Questioned
  <2> QED
    BY <2>1, SameStages
<1>5. CASE Clock
  <2>1. UNCHANGED <<ruleset, ask, answer, scr, inbox, confirmed>>
    BY <1>5 DEF Clock, Tick, machineVars, channelVars
  <2>2. \A r \in Runs : \E ctx, window :
           run'[r] = [run[r] EXCEPT !.ctx = ctx, !.window = window]
    BY <1>5, TickTyped DEF Clock, TypeOK
  <2>3. ASSUME NEW r \in Runs
        PROVE  /\ run'[r].pc = run[r].pc
               /\ run'[r].outcome = run[r].outcome
               /\ run'[r].artifact = run[r].artifact
               /\ run'[r].snapshot = run[r].snapshot
    <3>1. PICK ctx, window : run'[r] = [run[r] EXCEPT !.ctx = ctx, !.window = window]
      BY <2>2
    <3> QED
      BY <3>1, RunTyped DEF TypeOK, RunStates
  <2>4. Questioned' => Questioned
    BY <2>1 DEF Questioned, AskQueued
  <2> QED
    BY <2>1, <2>3, <2>4, SameStages
<1>6. CASE Deliver
  <2>1. UNCHANGED <<run, ruleset, ask, answer, confirmed>>
    BY <1>6 DEF Deliver, runVars, channelVars
  <2>2. Questioned' => Questioned
    BY <1>6, <2>1, QuestionWasQueued DEF Questioned
  <2> QED
    BY <2>1, <2>2, SameStages
<1>7. CASE ProcessEnds
  <2>1. \A r \in Runs :
           IF Active(r) THEN run'[r].pc = "ended" /\ run'[r].outcome = "gone"
                        ELSE run'[r] = run[r]
    BY <1>7 DEF ProcessEnds, TypeOK, EngineTypeOK, RunStates
  <2>2. UNCHANGED <<ruleset, confirmed>>
    BY <1>7 DEF ProcessEnds, machineVars
  <2>3. ~Questioned' /\ \A n \in Numbers : answer'[n] = "none"
    <3>1. Len(inbox') = 0 /\ scr'.step = "closed"
      BY <1>7 DEF ProcessEnds, Closed, NewScreen
    <3>2. \A n \in Numbers : ~ask'[n] /\ answer'[n] = "none"
      BY <1>7 DEF ProcessEnds
    <3> QED
      BY <3>1, <3>2 DEF Questioned, AskQueued
  <2>4. OneRestore' <=> OneRestore
    BY <2>1 DEF OneRestore, Active
  <2>5. \A r \in Runs : run'[r].pc = "idle" <=> run[r].pc = "idle"
    BY <2>1 DEF Active
  <2>6. ASSUME OneRestore, NEW r \in Runs, run[r].pc # "idle"
        PROVE  RunStands(r)'
    BY <2>1, <2>2, <2>6 DEF SingleInv, RunStands, Active
  <2>7. OneRestore => AnswersStand'
    BY <2>1, <2>2, <2>3 DEF SingleInv, AnswersStand
  <2>8. \A r \in Runs : /\ run'[r].pc \in Started \cup {"idle"}
                        /\ run'[r].pc = "idle" => run'[r].outcome = "none"
    BY <2>1 DEF SingleInv, Started
  <2> QED
    BY <2>2, <2>4, <2>5, <2>6, <2>7, <2>8 DEF SingleInv
<1> QED
  BY <1>0, <1>1, <1>2, <1>3, <1>4, <1>5, <1>6, <1>7, KeyboardSingle, EngineSingle
  DEF Next, Cockpit, Goroutine

LEMMA SingleInvariant == Spec => [](TypeOK /\ SingleInv)
<1>1. Init => TypeOK /\ SingleInv
  BY ScreenInitTyped, SingleInit
<1>2. TypeOK /\ SingleInv /\ [Next]_vars => (TypeOK /\ SingleInv)'
  BY StepTyped, SingleStep
<1> QED
  BY <1>1, <1>2, PTL DEF Spec

(* As long as one restore has been started, by any of the screens, it is   *)
(* kept only when k was pressed while its question was open, whatever was  *)
(* opened, closed, answered or timed out meanwhile (keyKeep, the keep      *)
(* callback).                                                              *)
THEOREM KeptWasConfirmed == Spec => []KeptMeansConfirmed
<1>1. SingleInv => KeptMeansConfirmed
  BY DEF SingleInv, AnswersStand, KeptMeansConfirmed
<1> QED
  BY <1>1, SingleInvariant, PTL

(* One restore that ended unconfirmed has taken its ruleset back, unless   *)
(* its rollback failed or the process died under it (KeepSession.Revert).  *)
THEOREM UnconfirmedIsTakenBack == Spec => [](OneRestore => UnconfirmedIsRolledBack)
<1>1. ASSUME TypeOK, SingleInv, OneRestore,
             \A r \in Runs : /\ ~Active(r)
                            /\ run[r].outcome \notin {"kept", "stuck", "gone"}
      PROVE  ruleset = Before
  <2>1. CASE \A r \in Runs : run[r].pc = "idle"
    BY <1>1, <2>1 DEF SingleInv
  <2>2. ASSUME NEW r \in Runs, run[r].pc # "idle"
        PROVE  ruleset = Before
    <3>1. RunStands(r) /\ run[r].pc = "ended"
      BY <1>1, <2>2 DEF SingleInv, Active
    <3>2. run[r].outcome \in {"failed", "restored", "rolledback"}
      BY <1>1, <3>1 DEF RunStands, TypeOK, EngineTypeOK, RunStates, Outcomes
    <3> QED
      BY <3>1, <3>2 DEF RunStands
  <2> QED
    BY <2>1, <2>2
<1>2. TypeOK /\ SingleInv => (OneRestore => UnconfirmedIsRolledBack)
  BY <1>1 DEF UnconfirmedIsRolledBack
<1> QED
  BY <1>2, SingleInvariant, PTL

-----------------------------------------------------------------------------
(* Nothing moves by itself where nothing is in flight.                     *)
LEMMA NoCommandEnds ==
    ASSUME \A c \in Slots : command[c] = Idle, NEW c \in Slots, CommandEnds(c)
    PROVE  FALSE
BY DEF CommandEnds, Idle

LEMMA NoRunMoves ==
    ASSUME NEW r \in Runs, run[r].pc = "idle", Goroutine(r)
    PROVE  FALSE
<1>1. ~EngineStep(r)
  BY DEF EngineStep, WriteConfig, ApplyAccounts, WritesEnd, RunReload, ReloadsEnd,
         Snapshot, ApplyNftables, Rollback
<1> QED
  BY <1>1 DEF Goroutine, EngineMoves, TakeAnswer, KeepTimesOut, Reports, Commit, NotKept

LEMMA NoTimePasses ==
    ASSUME \A r \in Runs : run[r].pc = "idle", Clock
    PROVE  FALSE
BY DEF Clock, Tick, Active

LEMMA QuietStep ==
    ASSUME Quiet, Next
    PROVE  Keyboard \/ UNCHANGED vars \/ ProcessEnds
<1>1. ~\E c \in Slots : CommandEnds(c)
  BY NoCommandEnds DEF Quiet
<1>2. ~\E r \in Runs : Goroutine(r)
  BY NoRunMoves DEF Quiet
<1>3. ~\E n \in Numbers : WaiterWakes(n)
  BY DEF Quiet, WaiterWakes, WaiterReady
<1>4. ~Clock /\ ~Deliver
  BY NoTimePasses DEF Quiet, Deliver
<1> QED
  BY <1>1, <1>2, <1>3, <1>4 DEF Next, Cockpit

(* A screen that waits for a key.                                          *)
LEMMA RestingStep ==
    ASSUME TypeOK, opens = 1, Resting, Next, ~OpenBackup, scr'.step # "closed"
    PROVE  Resting' \/ Reading' \/ \E r \in Runs : Restoring(r)'
<1>0. /\ scr \in Screens /\ opens \in Numbers /\ Quiet
      /\ command \in [Slots -> Commands] /\ run \in [Runs -> RunStates]
      /\ waiters \in [Numbers -> Nat] /\ owner \in [Runs -> Numbers]
  BY DEF TypeOK, EngineTypeOK, Resting
<1>1. Leave \/ ProcessEnds => scr'.step = "closed"
  BY DEF Leave, ProcessEnds, Closed, NewScreen
<1>2. CASE UNCHANGED vars
  BY <1>2 DEF vars, Resting, Quiet
<1>3. ASSUME OnlyScreen,
             \/ /\ scr'.step \in {"path", "hardware", "confirm", "done"}
                /\ scr'.result = scr.result /\ scr.step # "done"
             \/ scr'.step = "done" /\ scr'.result = "failed"
      PROVE  Resting'
  <2>1. Quiet'
    BY <1>0, <1>3 DEF Quiet, OnlyScreen, runVars, channelVars
  <2>2. scr.step # "done" => scr.result = "none"
    BY DEF Resting
  <2> QED
    BY <1>3, <2>1, <2>2 DEF Resting
<1>4. ASSUME NEW step, Goes(step)
      PROVE  /\ scr'.step = step /\ scr'.result = scr.result
             /\ scr'.plan = scr.plan
  BY <1>0, <1>4 DEF Goes, Screens
<1>5. Fails => scr'.step = "done" /\ scr'.result = "failed"
  BY <1>0 DEF Fails, Screens
<1>6. CASE ChooseMode
  BY <1>0, <1>3, <1>6 DEF ChooseMode, Screens
<1>7. CASE TypePath \/ ConfirmExport
  <2>1. /\ scr.step # "done"
        /\ \E kind \in {"collect", "open", "write"} : Start(kind)
    BY <1>7 DEF TypePath, ConfirmExport
  <2>2. PICK kind \in {"collect", "open", "write"}, c \in Slots :
          /\ Goes("working")
          /\ command' = [command EXCEPT ![c] = [kind |-> kind, from |-> opens]]
          /\ UNCHANGED <<runVars, channelVars, opens, inbox, confirmed>>
    BY <2>1 DEF Start
  <2>3. /\ command'[c].kind # "none" /\ command'[c].from = opens'
        /\ \A d \in Slots \ {c} : command'[d] = Idle
    BY <1>0, <2>2 DEF Quiet
  <2>4. scr'.step = "working" /\ scr'.result = "none"
    BY <1>4, <2>1, <2>2 DEF Resting
  <2>5. UNCHANGED <<run, ruleset, reported, ask, answer, waiters, inbox>>
    BY <2>2 DEF runVars, channelVars
  <2> QED
    BY <1>0, <2>3, <2>4, <2>5 DEF Reading, Quiet
<1>8. CASE ConfirmPlan
  <2>1. PICK step \in {"hardware", "confirm", "done"} : Goes(step)
    BY <1>8 DEF ConfirmPlan
  <2> QED
    BY <1>3, <1>4, <1>8, <2>1 DEF ConfirmPlan
<1>9. CASE AnswerHardware
  BY <1>3, <1>4, <1>5, <1>9 DEF AnswerHardware
<1>10. CASE RefuseConfirm
  BY <1>3, <1>5, <1>10 DEF RefuseConfirm
<1>11. CASE StartRestore
  <2>1. PICK r \in Runs :
          /\ run' = [run EXCEPT ![r] =
               [NotStarted EXCEPT !.pc = "write", !.artifact = scr.plan.target,
                                  !.carried = scr.plan.carried,
                                  !.todo = scr.plan.carried \cap Files,
                                  !.ctx = CtxTimeout]]
          /\ owner' = [owner EXCEPT ![r] = opens]
    BY <1>11 DEF StartRestore
  <2>2. /\ run'[r].pc = "write" /\ run'[r].artifact = scr.plan.target
        /\ \A s \in Runs \ {r} : run'[s].pc = "idle"
        /\ owner'[r] = opens
    BY <1>0, <2>1 DEF NotStarted, Quiet
  <2>3. /\ waiters'[opens] = 1
        /\ UNCHANGED <<command, inbox, ask, answer, reported, opens>>
    BY <1>0, <1>11 DEF StartRestore, Quiet
  <2>4. scr'.step = "working" /\ scr'.result = "none" /\ scr'.plan = scr.plan
    BY <1>4, <1>11 DEF StartRestore, Resting
  <2>5. Hears(r)'
    BY <1>0, <2>2, <2>3, <2>4 DEF Hears, Quiet
  <2>6. Restoring(r)'
    BY <1>0, <2>2, <2>3, <2>4, <2>5 DEF Restoring, Quiet
  <2> QED
    BY <2>6
<1>12. ~AnswerKeep
  BY DEF AnswerKeep, Resting
<1> QED
  BY <1>0, <1>1, <1>2, <1>6, <1>7, <1>8, <1>9, <1>10, <1>11, <1>12, QuietStep DEF Keyboard

(* A screen that waits for a read or a write.                              *)
LEMMA ReadingStep ==
    ASSUME TypeOK, opens = 1, Reading, Next, ~OpenBackup, scr'.step # "closed"
    PROVE  Resting' \/ Reading'
<1>0. /\ scr \in Screens /\ opens \in Numbers /\ scr.step = "working"
      /\ command \in [Slots -> Commands] /\ inbox \in Seq(Messages)
      /\ \A r \in Runs : run[r].pc = "idle"
      /\ \A n \in Numbers : ~ask[n]
  BY DEF TypeOK, Reading
<1>1. Keyboard \/ ProcessEnds => scr'.step = "closed"
  BY <1>0
  DEF Keyboard, Leave, ChooseMode, TypePath, ConfirmExport, ConfirmPlan, AnswerHardware,
      RefuseConfirm, StartRestore, AnswerKeep, ProcessEnds, Closed, NewScreen
<1>2. /\ ~\E r \in Runs : Goroutine(r)
      /\ ~\E n \in Numbers : WaiterWakes(n)
      /\ ~Clock /\ ~Cockpit
  BY <1>0, NoRunMoves, NoTimePasses DEF WaiterWakes, WaiterReady, Cockpit
<1>3. ASSUME NEW c \in Slots, CommandEnds(c)
      PROVE  Reading'
  <2>1. /\ inbox = << >> /\ command[c].from = opens
        /\ \A d \in Slots \ {c} : command[d] = Idle
    BY <1>3, NoCommandEnds DEF Reading, CommandEnds, Idle
  <2>2. PICK kind \in {"collected", "opened", "wrote"}, plan \in Plans,
             result \in {"none", "failed"} : Sends(Message(kind, opens, plan, result))
    BY <1>3, <2>1, ScreenValues DEF CommandEnds
  <2>3. Message(kind, opens, plan, result) \in Messages
    BY <1>0, <2>2 DEF Message, Messages, Outcomes
  <2>4. inbox' = <<Message(kind, opens, plan, result)>>
    BY <2>1, <2>2 DEF Sends
  <2>5. /\ \A d \in Slots : command'[d] = Idle
        /\ UNCHANGED <<run, ruleset, reported, ask, answer, waiters, scr, opens>>
    BY <1>0, <1>3, <2>1 DEF CommandEnds, runVars, channelVars
  <2>6. \E message \in Messages :
           /\ inbox' = <<message>>
           /\ message.kind \in {"collected", "opened", "wrote"}
           /\ message.from = opens'
           /\ message.result \in {"none", "failed"}
    BY <2>2, <2>3, <2>4, <2>5 DEF Message
  <2> QED
    BY <2>5, <2>6 DEF Reading
<1>4. CASE Deliver
  <2>1. PICK message \in Messages :
          /\ inbox = <<message>>
          /\ message.kind \in {"collected", "opened", "wrote"}
          /\ message.result \in {"none", "failed"}
    BY <1>4 DEF Reading, Deliver
  <2>2. \A c \in Slots : command[c] = Idle
    BY <1>4 DEF Reading, Deliver
  <2>3. scr' = Handled(message) /\ inbox' = << >>
    BY <1>0, <1>4, <2>1 DEF Deliver
  <2>4. /\ scr'.step \in {"exportPlan", "restorePlan", "done"}
        /\ scr'.result \in {"none", "failed"}
        /\ scr'.step # "done" => scr'.result = "none"
    <3>1. StepAfter[message.kind] \in {"exportPlan", "restorePlan", "done"}
      BY <2>1 DEF StepAfter
    <3>2. scr.result = "none"
      BY DEF Reading
    <3> QED
      BY <1>0, <2>1, <2>3, <3>1, <3>2 DEF Handled, Screens
  <2>5. UNCHANGED <<run, ruleset, reported, ask, answer, waiters, command>>
    BY <1>4 DEF Deliver, runVars, channelVars
  <2> QED
    BY <2>2, <2>3, <2>4, <2>5 DEF Resting, Quiet, Reading
<1> QED
  BY <1>1, <1>2, <1>3, <1>4 DEF Next

(* A verdict queues up behind a question.                                  *)
LEMMA QueuesBehind ==
    ASSUME NEW S, NEW first \in S, NEW second \in S
    PROVE  Append(<<first>>, second) = <<first, second>>
<1>1. <<first>> \in Seq(S) /\ Len(<<first>>) = 1 /\ <<first>>[1] = first
  OBVIOUS
<1>2. Append(<<first>>, second) \in Seq(S) /\ Len(Append(<<first>>, second)) = 2
  BY <1>1
<1>3. /\ Append(<<first>>, second)[1] = first
      /\ Append(<<first>>, second)[2] = second
  BY <1>1
<1>4. /\ <<first, second>> \in Seq(S) /\ Len(<<first, second>>) = 2
      /\ <<first, second>>[1] = first /\ <<first, second>>[2] = second
  OBVIOUS
<1>5. \A i \in 1 .. 2 : Append(<<first>>, second)[i] = <<first, second>>[i]
  <2>1. \A i \in 1 .. 2 : i = 1 \/ i = 2
    OBVIOUS
  <2> QED
    BY <1>3, <1>4, <2>1
<1>6. /\ Len(Append(<<first>>, second)) = Len(<<first, second>>)
      /\ 1 .. Len(Append(<<first>>, second)) = 1 .. 2
  BY <1>2, <1>4
<1> QED
  BY <1>2, <1>4, <1>5, <1>6, SeqEqual, Zenon

(* A step of the one restore under way that leaves the screen and what it  *)
(* has to say alone.                                                       *)
LEMMA StillRestoring ==
    ASSUME TypeOK, opens = 1, NEW r \in Runs, Restoring(r),
           UNCHANGED <<opens, command, owner, scr>>,
           run' \in [Runs -> RunStates],
           \A s \in Runs \ {r} : run'[s].pc = run[s].pc,
           run'[r].artifact = run[r].artifact,
           \A n \in Numbers \ {opens} : ~ask'[n],
           Hears(r)'
    PROVE  Restoring(r)'
BY DEF Restoring

(* A screen that waits for the restore it has started.                     *)
LEMMA RestoringStep ==
    ASSUME TypeOK, opens = 1, KeepTimeout > 0, NEW r \in Runs, Restoring(r),
           Next, ~OpenBackup, scr'.step # "closed"
    PROVE  Restoring(r)'
<1>0. /\ scr \in Screens /\ opens \in Numbers /\ run[r] \in RunStates
      /\ run \in [Runs -> RunStates] /\ EngineTypeOK
      /\ ask \in [Numbers -> BOOLEAN] /\ inbox \in Seq(Messages)
      /\ answer \in [Numbers -> {"none", "keep", "drop"}]
      /\ waiters \in [Numbers -> Nat]
      /\ owner[r] = opens /\ Hears(r)
  BY RunTyped DEF TypeOK, Restoring
<1>1. /\ scr.step \in {"working", "keep", "done"}
      /\ scr.step = "keep" => /\ run[r].pc \in {"keep", "rollback", "ended"}
                              /\ ~ask[opens]
  BY <1>0 DEF Hears
<1>2. Leave \/ ProcessEnds => scr'.step = "closed"
  BY DEF Leave, ProcessEnds, Closed, NewScreen
<1>3. ~Cockpit /\ ~\E c \in Slots : CommandEnds(c)
  BY <1>1, NoCommandEnds DEF Cockpit, Restoring
<1>4. \A s \in Runs : Goroutine(s) => s = r
  BY NoRunMoves DEF Restoring
<1>5. \A n \in Numbers : WaiterWakes(n) => n = opens
  BY DEF WaiterWakes, WaiterReady, Restoring
<1>6. CASE Keyboard
  <2>1. AnswerKeep
    BY <1>1, <1>2, <1>6
    DEF Keyboard, ChooseMode, TypePath, ConfirmExport, ConfirmPlan, AnswerHardware,
        RefuseConfirm, StartRestore
  <2>2. /\ scr.step = "keep" /\ Goes("working")
        /\ UNCHANGED <<run, owner, reported, ask, opens, command, inbox>>
    BY <2>1 DEF AnswerKeep, runVars
  <2>3. /\ scr'.step = "working" /\ scr'.result = scr.result /\ scr'.plan = scr.plan
    BY <1>0, <2>2 DEF Goes, Screens
  <2>4. Hears(r)'
    BY <1>0, <2>2, <2>3 DEF Hears, Verdict, Question, Message
  <2> QED
    BY <2>2, <2>3, <2>4 DEF Restoring
<1>7. CASE EngineMoves(r)
  <2>1. /\ UNCHANGED <<owner, reported, answer, waiters, scr, opens, command, inbox>>
        /\ ask' = [ask EXCEPT ![owner[r]] = @ \/ run'[r].pc = "keep"]
        /\ EngineStep(r)
    BY <1>7 DEF EngineMoves
  <2>2. /\ run' \in [Runs -> RunStates]
        /\ \A s \in Runs \ {r} : run'[s] = run[s]
    BY <1>0, <2>1, EngineEffects
    DEF LoopsOn, FailsEarly, WritesOver, ReloadsOver, SnapshotTaken, RulesetTried,
        RolledBack, RollbackFails, Becomes
  <2>3. /\ run'[r].artifact = run[r].artifact
        /\ \/ /\ run[r].pc \in {"write", "reload", "snapshot", "apply"}
              /\ run'[r].pc \in {"write", "reload", "snapshot", "apply", "ended"}
           \/ /\ run[r].pc = "apply" /\ run'[r].pc = "keep"
              /\ run'[r].window = KeepTimeout
           \/ /\ run[r].pc = "rollback" /\ run'[r].pc = "ended"
    <3>1. CASE LoopsOn(r)
      <4>1. PICK todo, bad : Becomes(r, [run[r] EXCEPT !.todo = todo, !.badReload = bad])
        BY <3>1 DEF LoopsOn
      <4>2. run'[r].pc = run[r].pc /\ run'[r].artifact = run[r].artifact
        BY <1>0, <4>1 DEF Becomes, RunStates
      <4> QED
        BY <3>1, <4>2 DEF LoopsOn
    <3>2. CASE FailsEarly(r)
      BY <1>0, <3>2 DEF FailsEarly, Becomes, RunStates
    <3>3. CASE WritesOver(r) \/ SnapshotTaken(r)
      BY <1>0, <3>3 DEF WritesOver, SnapshotTaken, Becomes, RunStates
    <3>4. CASE ReloadsOver(r)
      BY <1>0, <3>4 DEF ReloadsOver, Becomes, RunStates
    <3>5. CASE RulesetTried(r)
      BY <1>0, <3>5 DEF RulesetTried, Becomes, RunStates
    <3>6. CASE RolledBack(r) \/ RollbackFails(r)
      BY <1>0, <3>6 DEF RolledBack, RollbackFails, Becomes, RunStates
    <3> QED
      BY <1>0, <2>1, <3>1, <3>2, <3>3, <3>4, <3>5, <3>6, EngineEffects
  <2>4. /\ \A n \in Numbers \ {opens} : ~ask'[n]
        /\ ask'[opens] <=> ask[opens] \/ run'[r].pc = "keep"
    BY <1>0, <2>1 DEF Restoring
  <2>5. Hears(r)'
    <3>1. CASE run[r].pc \in {"write", "reload", "snapshot", "apply"}
      <4>1. /\ r \notin reported /\ inbox = << >> /\ scr.step = "working"
            /\ ~ask[opens] /\ waiters[opens] = 1 /\ answer[opens] = "none"
        BY <1>0, <3>1 DEF Hears
      <4>2. CASE run'[r].pc \in {"write", "reload", "snapshot", "apply"}
        BY <2>1, <2>4, <4>1, <4>2 DEF Hears
      <4>3. CASE run'[r].pc = "ended"
        BY <2>1, <2>4, <4>1, <4>3 DEF Hears
      <4>4. CASE run'[r].pc = "keep" /\ run'[r].window = KeepTimeout
        BY <2>1, <2>4, <4>1, <4>4 DEF Hears
      <4> QED
        BY <2>3, <3>1, <4>2, <4>3, <4>4
    <3>2. CASE run[r].pc = "rollback" /\ run'[r].pc = "ended"
      <4>1. Question' = Question
        BY <2>1 DEF Question
      <4> QED
        BY <1>0, <2>1, <2>4, <3>2, <4>1 DEF Hears
    <3> QED
      BY <2>3, <3>1, <3>2
  <2> QED
    BY <2>1, <2>2, <2>3, <2>4, <2>5, StillRestoring
<1>8. CASE TakeAnswer(r) \/ KeepTimesOut(r)
  <2>1. /\ UNCHANGED <<owner, reported, ask, scr, opens, command, inbox>>
        /\ run[r].pc = "keep" /\ (Commit(r) \/ NotKept(r))
        /\ answer[opens] # "none" \/ run[r].window = 0
    BY <1>0, <1>8 DEF TakeAnswer, KeepTimesOut, Commit, NotKept, channelVars
  <2>2. /\ run' \in [Runs -> RunStates]
        /\ \A s \in Runs \ {r} : run'[s] = run[s]
        /\ run'[r].artifact = run[r].artifact
        /\ run'[r].pc \in {"rollback", "ended"}
    <3>1. \/ Becomes(r, [run[r] EXCEPT !.pc = "ended", !.awaiting = FALSE,
                                         !.outcome = "kept"])
          \/ Becomes(r, [run[r] EXCEPT !.pc = "rollback", !.todo = {}])
      BY <1>0, <2>1, AnswersTyped
    <3> QED
      BY <1>0, <3>1 DEF Becomes, RunStates
  <2>3. ~ask[opens] /\ r \notin reported
        /\ \/ inbox = <<Question>> /\ scr.step = "working"
           \/ inbox = << >> /\ scr.step \in {"keep", "working"}
    BY <1>0, <2>1 DEF Hears
  <2>4. Hears(r)'
    BY <2>1, <2>2, <2>3 DEF Hears, Question
  <2> QED
    BY <2>1, <2>2, <2>4, StillRestoring DEF Restoring
<1>9. CASE Reports(r)
  <2>1. /\ UNCHANGED <<run, owner, ask, scr, opens, command>>
        /\ run[r].pc = "ended" /\ r \notin reported
        /\ reported' = reported \cup {r}
        /\ inbox' = Append(inbox, Verdict(r))
    BY <1>0, <1>9 DEF Reports, Sends, Verdict, channelVars
  <2>2. ~ask[opens]
        /\ \/ inbox = <<Question>> /\ scr.step = "working"
           \/ inbox = << >> /\ scr.step \in {"keep", "working"}
    BY <1>0, <2>1 DEF Hears
  <2>3. Append(<<Question>>, Verdict(r)) = <<Question, Verdict(r)>>
    <3>1. Question \in Messages /\ Verdict(r) \in Messages
      BY <1>0, ScreenValues DEF Question, Verdict, Message, Messages, RunStates, Outcomes
    <3> QED
      BY <3>1, QueuesBehind
  <2>4. Verdict(r)' = Verdict(r) /\ Question' = Question
    BY <2>1 DEF Verdict, Question
  <2>5. \/ inbox' = <<Question, Verdict(r)>> /\ scr.step = "working"
        \/ inbox' = <<Verdict(r)>> /\ scr.step \in {"keep", "working"}
    <3>1. CASE inbox = <<Question>> /\ scr.step = "working"
      BY <2>1, <2>3, <3>1, Zenon
    <3>2. CASE inbox = << >> /\ scr.step \in {"keep", "working"}
      <4>1. inbox' = <<Verdict(r)>>
        BY <2>1, <3>2
      <4> QED
        BY <3>2, <4>1
    <3> QED
      BY <2>2, <3>1, <3>2
  <2>6. Hears(r)'
    BY <2>1, <2>2, <2>4, <2>5 DEF Hears
  <2> QED
    BY <1>0, <2>1, <2>6, StillRestoring DEF Restoring
<1>10. CASE WaiterWakes(opens)
  <2>1. /\ UNCHANGED <<run, owner, reported, scr, opens, command>>
        /\ ask[opens] /\ ask' = [ask EXCEPT ![opens] = FALSE]
        /\ inbox' = Append(inbox, Question)
    BY <1>10 DEF WaiterWakes, WaiterReady, runVars, Sends, Question
  <2>2. /\ run[r].pc = "keep" /\ r \notin reported
        /\ inbox = << >> /\ scr.step = "working"
    BY <1>0, <2>1 DEF Hears
  <2>3. inbox' = <<Question>> /\ Question' = Question
    BY <2>1, <2>2 DEF Question
  <2>4. Hears(r)'
    BY <1>0, <2>1, <2>2, <2>3 DEF Hears
  <2> QED
    BY <1>0, <2>1, <2>4, StillRestoring DEF Restoring
<1>11. CASE Clock
  <2>1. /\ UNCHANGED <<owner, reported, ask, answer, waiters, scr, opens, command, inbox>>
        /\ ~WaiterReady(opens)
    BY <1>0, <1>11 DEF Clock, channelVars
  <2>2. /\ run' \in [Runs -> RunStates]
        /\ \A s \in Runs : \E ctx, window :
             run'[s] = [run[s] EXCEPT !.ctx = ctx, !.window = window]
    BY <1>0, <1>11, TickTyped DEF Clock, EngineTypeOK
  <2>3. ASSUME NEW s \in Runs
        PROVE  /\ run'[s].pc = run[s].pc /\ run'[s].artifact = run[s].artifact
               /\ run'[s].outcome = run[s].outcome
    <3>1. PICK ctx, window : run'[s] = [run[s] EXCEPT !.ctx = ctx, !.window = window]
      BY <2>2
    <3> QED
      BY <1>0, <3>1 DEF RunStates
  <2>4. ~(ask[opens] /\ waiters[opens] = 1)
    BY <2>1 DEF WaiterReady
  <2>5. Verdict(r)' = Verdict(r) /\ Question' = Question
    BY <2>1, <2>3 DEF Verdict, Question
  <2>6. Hears(r)'
    BY <1>0, <2>1, <2>3, <2>4, <2>5 DEF Hears
  <2> QED
    BY <2>1, <2>2, <2>3, <2>6, StillRestoring DEF Restoring
<1>12. CASE Deliver
  <2>1. /\ UNCHANGED <<run, owner, reported, ask, answer, waiters, opens, command>>
        /\ inbox # << >> /\ scr' = Handled(Head(inbox)) /\ inbox' = Tail(inbox)
    BY <1>1, <1>12 DEF Deliver, runVars, channelVars
  <2>2. Verdict(r)' = Verdict(r) /\ Question' = Question
    BY <2>1 DEF Verdict, Question
  <2>3. ~ask[opens] /\ scr.step # "done" /\ scr.result = "none"
        /\ run[r].pc \in {"keep", "rollback", "ended"}
    BY <1>0, <2>1 DEF Hears, Restoring
  <2>4. ASSUME Head(inbox) = Question
        PROVE  /\ scr'.step = "keep" /\ scr'.result = "none"
               /\ scr'.plan = scr.plan
    BY <1>0, <2>1, <2>3, <2>4 DEF Handled, Question, Message, StepAfter, Screens
  <2>5. ASSUME Head(inbox) = Verdict(r)
        PROVE  /\ scr'.step = "done" /\ scr'.result = run[r].outcome
               /\ scr'.plan = scr.plan
    BY <1>0, <2>1, <2>3, <2>5 DEF Handled, Verdict, Message, StepAfter, Screens
  <2>6. CASE inbox = <<Question>> /\ r \notin reported
    <3>1. Head(inbox) = Question /\ inbox' = << >>
      BY <2>1, <2>6
    <3> QED
      BY <2>1, <2>3, <2>4, <2>6, <3>1 DEF Restoring, Hears
  <2>7. CASE inbox = <<Question, Verdict(r)>> /\ r \in reported /\ run[r].pc = "ended"
    <3>1. Head(inbox) = Question /\ inbox' = <<Verdict(r)>>
      BY <2>1, <2>7
    <3> QED
      BY <2>1, <2>2, <2>3, <2>4, <2>7, <3>1 DEF Restoring, Hears
  <2>8. CASE inbox = <<Verdict(r)>> /\ r \in reported /\ run[r].pc = "ended"
    <3>1. Head(inbox) = Verdict(r) /\ inbox' = << >>
      BY <2>1, <2>8
    <3> QED
      BY <2>1, <2>3, <2>5, <2>8, <3>1 DEF Restoring, Hears
  <2> QED
    BY <1>0, <2>1, <2>6, <2>7, <2>8 DEF Hears
<1> QED
  BY <1>2, <1>3, <1>4, <1>5, <1>6, <1>7, <1>8, <1>9, <1>10, <1>11, <1>12
  DEF Next, Goroutine

LEMMA FirstInit == Init => FirstInv
BY ScreenAssumption
DEF Init, EngineInit, NotStarted, FirstInv, Quiet, Closed, NewScreen

LEMMA FirstStep ==
    ASSUME TypeOK, KeepTimeout > 0, FirstInv, [Next]_vars
    PROVE  FirstInv'
<1>0. CASE UNCHANGED vars
  BY <1>0
  DEF vars, FirstInv, Quiet, Resting, Reading, Restoring, Hears, Verdict, Question
<1>1. opens' = opens \/ OpenBackup
  BY DEF Next, vars, Keyboard, Leave, ChooseMode, TypePath, ConfirmExport, ConfirmPlan,
         AnswerHardware, RefuseConfirm, StartRestore, AnswerKeep, Start, OnlyScreen,
         Cockpit, CommandEnds, Goroutine, EngineMoves, TakeAnswer, KeepTimesOut,
         Reports, WaiterWakes, Clock, Deliver, ProcessEnds
<1>2. opens \in Nat
  BY ScreenAssumption DEF TypeOK, Numbers
<1>3. CASE OpenBackup
  <2>1. /\ opens' = opens + 1 /\ scr' = NewScreen
        /\ UNCHANGED <<run, ruleset, reported, ask, answer, waiters, command, inbox>>
    BY <1>3 DEF OpenBackup, runVars, channelVars
  <2>2. ASSUME opens' = 1
        PROVE  Resting'
    <3>1. Quiet
      BY <1>2, <2>1, <2>2 DEF FirstInv
    <3> QED
      BY <2>1, <3>1 DEF Resting, Quiet, NewScreen
  <2> QED
    BY <1>2, <2>1, <2>2 DEF FirstInv
<1>4. CASE Next /\ ~OpenBackup /\ opens = 0
  <2>1. Quiet /\ scr.step = "closed"
    BY <1>4 DEF FirstInv
  <2>2. ~Keyboard /\ ~ProcessEnds
    BY <1>4, <2>1
    DEF Keyboard, Leave, ChooseMode, TypePath, ConfirmExport, ConfirmPlan,
        AnswerHardware, RefuseConfirm, StartRestore, AnswerKeep, ProcessEnds, Active, Quiet
  <2> QED
    BY <1>0, <1>4, <2>1, <2>2, QuietStep
<1>5. CASE Next /\ ~OpenBackup /\ opens = 1
  <2>1. ASSUME scr'.step # "closed"
        PROVE  scr.step # "closed"
    <3>1. ASSUME scr.step = "closed"
          PROVE  FALSE
      <4>1. ~Keyboard
        BY <1>5, <3>1
        DEF Keyboard, Leave, ChooseMode, TypePath, ConfirmExport, ConfirmPlan,
            AnswerHardware, RefuseConfirm, StartRestore, AnswerKeep
      <4>2. scr' = scr \/ scr' = Closed
        BY <1>5, <3>1, <4>1
        DEF Next, vars, Cockpit, CommandEnds, Goroutine, EngineMoves, TakeAnswer,
            KeepTimesOut, Reports, WaiterWakes, Clock, Deliver, ProcessEnds
      <4> QED
        BY <2>1, <3>1, <4>2 DEF Closed, NewScreen
    <3> QED
      BY <3>1
  <2>2. ASSUME scr'.step # "closed"
        PROVE  Resting' \/ Reading' \/ \E r \in Runs : Restoring(r)'
    BY <1>5, <2>1, <2>2, RestingStep, ReadingStep, RestoringStep DEF FirstInv
  <2> QED
    BY <1>1, <1>5, <2>2 DEF FirstInv
<1>6. CASE ~OpenBackup /\ opens \notin {0, 1}
  BY <1>1, <1>6 DEF FirstInv
<1> QED
  BY <1>0, <1>3, <1>4, <1>5, <1>6

LEMMA FirstInvariant ==
    ASSUME KeepTimeout > 0
    PROVE  Spec => [](TypeOK /\ SingleInv /\ FirstInv)
<1>1. Init => TypeOK /\ SingleInv /\ FirstInv
  BY ScreenInitTyped, SingleInit, FirstInit
<1>2. TypeOK /\ SingleInv /\ FirstInv /\ [Next]_vars
        => (TypeOK /\ SingleInv /\ FirstInv)'
  BY StepTyped, SingleStep, FirstStep
<1> QED
  BY <1>1, <1>2, PTL DEF Spec

(* While it is the only one that was opened, a screen that works waits for *)
(* something that is in flight, and one that asks to keep a ruleset has a  *)
(* run that made it live: no message is lost or overtaken on the way back. *)
THEOREM FirstScreenHasJob ==
    ASSUME KeepTimeout > 0
    PROVE  Spec => []ScreenHasJob
<1>1. ASSUME TypeOK, FirstInv, opens <= 1
      PROVE  /\ scr.step = "working" => InFlight(opens)
             /\ scr.step = "keep" => \E r \in Runs :
                  owner[r] = opens /\ run[r].pc \in {"keep", "rollback", "ended"}
  <2>1. opens \in {0, 1}
    BY <1>1, ScreenAssumption DEF TypeOK, Numbers
  <2>2. CASE scr.step = "closed"
    BY <2>2
  <2>3. CASE Resting
    BY <2>3 DEF Resting
  <2>4. CASE Reading
    <3>1. scr.step = "working"
      BY <2>4 DEF Reading
    <3>2. InFlight(opens)
      <4>1. CASE \E message \in Messages : inbox = <<message>> /\ message.from = opens
        <5>1. 1 \in DOMAIN inbox /\ inbox[1].from = opens
          BY <4>1
        <5> QED
          BY <5>1 DEF InFlight
      <4> QED
        BY <2>4, <4>1 DEF Reading, InFlight
    <3> QED
      BY <3>1, <3>2
  <2>5. ASSUME NEW r \in Runs, Restoring(r)
        PROVE  /\ scr.step = "working" => InFlight(opens)
               /\ scr.step = "keep" => \E s \in Runs :
                    owner[s] = opens /\ run[s].pc \in {"keep", "rollback", "ended"}
    <3>1. owner[r] = opens /\ Hears(r)
      BY <2>5 DEF Restoring
    <3>2. ASSUME scr.step = "working"
          PROVE  InFlight(opens)
      <4>1. CASE r \notin reported
        BY <3>1, <4>1 DEF Hears, InFlight
      <4>2. CASE r \in reported
        <5>1. inbox = <<Question, Verdict(r)>> \/ inbox = <<Verdict(r)>>
          BY <3>1, <3>2, <4>2 DEF Hears
        <5>2. 1 \in DOMAIN inbox /\ inbox[1].from = opens
          BY <5>1 DEF Question, Verdict, Message
        <5> QED
          BY <5>2 DEF InFlight
      <4> QED
        BY <4>1, <4>2
    <3>3. scr.step = "keep" => run[r].pc \in {"keep", "rollback", "ended"}
      BY <3>1 DEF Hears
    <3> QED
      BY <3>1, <3>2, <3>3
  <2> QED
    BY <1>1, <2>1, <2>2, <2>3, <2>4, <2>5 DEF FirstInv
<1>2. TypeOK /\ FirstInv => ScreenHasJob
  BY <1>1 DEF ScreenHasJob, FirstScreen
<1> QED
  BY <1>2, FirstInvariant, PTL

(* The result that screen ends on tells where the ruleset is: the answer,  *)
(* the time-out and a failing rollback may meet in any order.              *)
THEOREM FirstResultIsTrue ==
    ASSUME KeepTimeout > 0
    PROVE  Spec => []DoneTellsRuleset
<1>1. ASSUME TypeOK, SingleInv, FirstInv, opens <= 1, scr.step = "done"
      PROVE  /\ scr.result = "kept" => ruleset = scr.plan.target
             /\ scr.result \in {"none", "failed", "rolledback"} => ruleset = Before
  <2>1. opens = 1
    BY <1>1, ScreenAssumption DEF TypeOK, Numbers, FirstInv
  <2>2. CASE Resting
    BY <2>2 DEF Resting, Quiet
  <2>3. ~Reading
    BY <1>1 DEF Reading
  <2>4. ASSUME NEW r \in Runs, Restoring(r)
        PROVE  /\ scr.result = "kept" => ruleset = scr.plan.target
               /\ scr.result \in {"none", "failed", "rolledback"} => ruleset = Before
    <3>1. /\ run[r].pc = "ended" /\ scr.result = run[r].outcome
          /\ run[r].artifact = scr.plan.target
      BY <1>1, <2>4 DEF Restoring, Hears
    <3>2. OneRestore
      BY <2>4 DEF OneRestore, Restoring
    <3>3. RunStands(r)
      BY <1>1, <3>1, <3>2 DEF SingleInv
    <3> QED
      BY <3>1, <3>3 DEF RunStands
  <2> QED
    BY <1>1, <2>1, <2>2, <2>3, <2>4 DEF FirstInv
<1>2. TypeOK /\ SingleInv /\ FirstInv => DoneTellsRuleset
  BY <1>1 DEF DoneTellsRuleset, FirstScreen
<1> QED
  BY <1>2, FirstInvariant, PTL

-----------------------------------------------------------------------------
(***************************************************************************)
(* The contract of the ruleset (the comments over DefaultKeepTimeout and   *)
(* KeepSession in internal/backup/staging.go) as the screen keeps it: the  *)
(* session of a run, and what it would put back, are what CommitConfirmed  *)
(* calls the fallback.                                                     *)
(***************************************************************************)
NoSnapshot == CHOOSE nothing : nothing \notin Versions

FallbackOf(runs) ==
    IF \E r \in Runs : runs[r].awaiting
    THEN runs[CHOOSE r \in Runs : runs[r].awaiting].snapshot
    ELSE NoSnapshot

Fallback == FallbackOf(run)

Guard == INSTANCE CommitConfirmed
    WITH Values <- Versions, NoFallback <- NoSnapshot,
         current <- ruleset, fallback <- Fallback

(* A session awaits its answer from the moment its ruleset is live; one    *)
(* whose run has ended is stuck, or died.                                  *)
AwaitInv ==
    \A r \in Runs :
        /\ run[r].awaiting => run[r].pc \in {"keep", "rollback", "ended"}
        /\ run[r].pc \in {"keep", "rollback"} => run[r].awaiting

(* The three steps of a run that end in another ruleset or another         *)
(* fallback, and what all the others are to it.                            *)
TriesIt(r) ==
    /\ run[r].pc = "apply" /\ ruleset' = run[r].artifact
    /\ run'[r].pc = "keep" /\ run'[r].awaiting
    /\ run'[r].snapshot = run[r].snapshot

KeepsIt(r) ==
    /\ run[r].pc = "keep" /\ ruleset' = ruleset
    /\ run'[r].pc = "ended" /\ ~run'[r].awaiting

TakesItBack(r) ==
    /\ run[r].pc = "rollback" /\ ruleset' = run[r].snapshot
    /\ run'[r].pc = "ended" /\ ~run'[r].awaiting

Stays(r) ==
    /\ run'[r].awaiting = run[r].awaiting
    /\ run[r].awaiting => run'[r].snapshot = run[r].snapshot
    /\ run[r].awaiting => run'[r].pc \in {"keep", "rollback", "ended"}
    /\ run'[r].pc \in {"keep", "rollback"} => run[r].pc \in {"keep", "rollback"}
    /\ run[r].pc # "idle" => run'[r].pc # "idle"

Guarded ==
    \/ ruleset' = ruleset /\ \A r \in Runs : Stays(r)
    \/ \E r \in Runs : /\ TriesIt(r) \/ KeepsIt(r) \/ TakesItBack(r)
                       /\ \A other \in Runs \ {r} : run'[other] = run[other]

(* A run that is left alone stays, and so do all of them when one does.    *)
LEMMA LeftAlone ==
    ASSUME AwaitInv, NEW r \in Runs, run'[r] = run[r]
    PROVE  Stays(r)
BY DEF AwaitInv, Stays

LEMMA OneStays ==
    ASSUME AwaitInv, NEW r \in Runs, Stays(r), ruleset' = ruleset,
           \A other \in Runs \ {r} : run'[other] = run[other]
    PROVE  Guarded
BY LeftAlone DEF Guarded

(* The engine tries the ruleset, takes it back, or leaves it.              *)
LEMMA EngineGuarded ==
    ASSUME TypeOK, AwaitInv, NEW r \in Runs, EngineStep(r)
    PROVE  Guarded
<1>1. EngineTypeOK /\ run[r] \in RunStates
  BY RunTyped DEF TypeOK
<1>2. CASE LoopsOn(r)
  <2>1. PICK todo, bad : Becomes(r, [run[r] EXCEPT !.todo = todo, !.badReload = bad])
    BY <1>2 DEF LoopsOn
  <2>2. /\ run'[r].pc = run[r].pc /\ run'[r].awaiting = run[r].awaiting
        /\ run'[r].snapshot = run[r].snapshot
        /\ \A other \in Runs \ {r} : run'[other] = run[other]
    BY <1>1, <2>1 DEF Becomes, RunStates
  <2>3. Stays(r)
    BY <2>2 DEF Stays, AwaitInv
  <2> QED
    BY <1>2, <2>2, <2>3, OneStays DEF LoopsOn
<1>3. CASE FailsEarly(r) \/ WritesOver(r) \/ ReloadsOver(r) \/ SnapshotTaken(r)
  <2>1. /\ run[r].pc \in {"write", "reload", "snapshot", "apply"} /\ ruleset' = ruleset
        /\ run'[r].pc \in {"ended", "reload", "snapshot", "apply"}
        /\ run'[r].awaiting = run[r].awaiting
        /\ \A other \in Runs \ {r} : run'[other] = run[other]
    <3>1. CASE FailsEarly(r) \/ WritesOver(r)
      BY <1>1, <3>1 DEF FailsEarly, WritesOver, Becomes, RunStates, machineVars
    <3>2. CASE ReloadsOver(r)
      <4>1. run[r].pc = "reload" /\ ruleset' = ruleset
        BY <3>2 DEF ReloadsOver, machineVars
      <4>2. CASE Becomes(r, [run[r] EXCEPT !.pc = "ended", !.outcome = "restored"])
        BY <1>1, <4>1, <4>2 DEF Becomes, RunStates
      <4>3. CASE Becomes(r, [run[r] EXCEPT !.pc = "snapshot", !.todo = {}])
        BY <1>1, <4>1, <4>3 DEF Becomes, RunStates
      <4> QED
        BY <3>2, <4>2, <4>3 DEF ReloadsOver
    <3>3. CASE SnapshotTaken(r)
      BY <1>1, <3>3 DEF SnapshotTaken, Becomes, RunStates, machineVars
    <3> QED
      BY <1>3, <3>1, <3>2, <3>3
  <2>2. Stays(r)
    BY <2>1 DEF Stays, AwaitInv
  <2> QED
    BY <2>1, <2>2, OneStays
<1>4. CASE RulesetTried(r)
  <2>1. TriesIt(r) /\ \A other \in Runs \ {r} : run'[other] = run[other]
    BY <1>1, <1>4 DEF RulesetTried, Becomes, RunStates, TriesIt
  <2> QED
    BY <2>1 DEF Guarded
<1>5. CASE RolledBack(r)
  <2>1. TakesItBack(r) /\ \A other \in Runs \ {r} : run'[other] = run[other]
    BY <1>1, <1>5 DEF RolledBack, Becomes, RunStates, TakesItBack
  <2> QED
    BY <2>1 DEF Guarded
<1>6. CASE RollbackFails(r)
  <2>1. /\ run[r].pc = "rollback" /\ ruleset' = ruleset /\ run'[r].pc = "ended"
        /\ run'[r].awaiting = run[r].awaiting /\ run'[r].snapshot = run[r].snapshot
        /\ \A other \in Runs \ {r} : run'[other] = run[other]
    BY <1>1, <1>6 DEF RollbackFails, Becomes, RunStates, machineVars
  <2>2. Stays(r)
    BY <2>1 DEF Stays
  <2> QED
    BY <2>1, <2>2, OneStays
<1> QED
  BY <1>1, <1>2, <1>3, <1>4, <1>5, <1>6, EngineEffects

(* And so does every step of the screen, of whichever run it is.           *)
LEMMA StepGuarded ==
    ASSUME TypeOK, AwaitInv, [Next]_vars
    PROVE  Guarded
<1>1. ASSUME UNCHANGED <<run, ruleset>>
      PROVE  Guarded
  BY <1>1, LeftAlone DEF Guarded
<1>2. CASE Keyboard
  <2>1. CASE StartRestore
    <3>1. PICK r \in Runs :
            /\ run[r].pc = "idle"
            /\ run' = [run EXCEPT ![r] =
                 [NotStarted EXCEPT !.pc = "write", !.artifact = scr.plan.target,
                                    !.carried = scr.plan.carried,
                                    !.todo = scr.plan.carried \cap Files,
                                    !.ctx = CtxTimeout]]
      BY <2>1 DEF StartRestore
    <3>2. /\ run'[r].pc = "write" /\ ~run'[r].awaiting /\ run'[r].awaiting \in BOOLEAN
          /\ \A other \in Runs \ {r} : run'[other] = run[other]
      BY <3>1 DEF NotStarted, TypeOK, EngineTypeOK
    <3>3. ~run[r].awaiting /\ run[r].awaiting \in BOOLEAN
      BY <3>1, RunTyped DEF AwaitInv, TypeOK
    <3>4. Stays(r) /\ ruleset' = ruleset
      BY <2>1, <3>1, <3>2, <3>3 DEF Stays, StartRestore, machineVars
    <3> QED
      BY <3>2, <3>4, OneStays
  <2>2. CASE ~StartRestore
    BY <1>1, <1>2, <2>2
    DEF Keyboard, OpenBackup, Leave, ChooseMode, TypePath, ConfirmExport, Start,
        ConfirmPlan, AnswerHardware, RefuseConfirm, AnswerKeep, OnlyScreen, runVars
  <2> QED
    BY <2>1, <2>2
<1>3. ASSUME NEW r \in Runs, TakeAnswer(r) \/ KeepTimesOut(r)
      PROVE  Guarded
  <2>1. /\ EngineTypeOK /\ run[r] \in RunStates
        /\ Commit(r) \/ NotKept(r)
    BY <1>3, RunTyped DEF TakeAnswer, KeepTimesOut, TypeOK
  <2>2. CASE Commit(r)
    <3>1. Becomes(r, [run[r] EXCEPT !.pc = "ended", !.awaiting = FALSE,
                                    !.outcome = "kept"])
      BY <2>1, <2>2, AnswersTyped
    <3>2. KeepsIt(r) /\ \A other \in Runs \ {r} : run'[other] = run[other]
      BY <2>1, <2>2, <3>1 DEF Becomes, RunStates, Commit, machineVars, KeepsIt
    <3> QED
      BY <3>2 DEF Guarded
  <2>3. CASE NotKept(r)
    <3>1. Becomes(r, [run[r] EXCEPT !.pc = "rollback", !.todo = {}])
      BY <2>1, <2>3, AnswersTyped
    <3>2. /\ run[r].pc = "keep" /\ run'[r].pc = "rollback" /\ ruleset' = ruleset
          /\ run'[r].awaiting = run[r].awaiting /\ run'[r].snapshot = run[r].snapshot
          /\ \A other \in Runs \ {r} : run'[other] = run[other]
      BY <2>1, <2>3, <3>1 DEF Becomes, RunStates, NotKept, machineVars
    <3>3. Stays(r)
      BY <3>2 DEF Stays
    <3> QED
      BY <3>2, <3>3, OneStays
  <2> QED
    BY <2>1, <2>2, <2>3
<1>4. CASE Clock
  <2>1. ruleset' = ruleset
    BY <1>4 DEF Clock, Tick, machineVars
  <2>2. ASSUME NEW r \in Runs
        PROVE  Stays(r)
    <3>1. PICK ctx, window : run'[r] = [run[r] EXCEPT !.ctx = ctx, !.window = window]
      BY <1>4, TickTyped DEF Clock, TypeOK
    <3>2. /\ run'[r].pc = run[r].pc /\ run'[r].awaiting = run[r].awaiting
          /\ run'[r].snapshot = run[r].snapshot
      BY <3>1, RunTyped DEF TypeOK, RunStates
    <3> QED
      BY <3>2 DEF Stays, AwaitInv
  <2> QED
    BY <2>1, <2>2 DEF Guarded
<1>5. CASE ProcessEnds
  <2>1. ruleset' = ruleset
    BY <1>5 DEF ProcessEnds, machineVars
  <2>2. ASSUME NEW r \in Runs
        PROVE  Stays(r)
    <3>1. \/ /\ Active(r) /\ run'[r].pc = "ended"
             /\ run'[r].awaiting = run[r].awaiting
             /\ run'[r].snapshot = run[r].snapshot
          \/ run'[r] = run[r]
      BY <1>5, RunTyped DEF ProcessEnds, TypeOK, RunStates
    <3> QED
      BY <3>1, LeftAlone DEF Stays
  <2> QED
    BY <2>1, <2>2 DEF Guarded
<1>6. ASSUME NEW c \in Slots, CommandEnds(c)
      PROVE  Guarded
  BY <1>1, <1>6 DEF CommandEnds, runVars
<1>7. ASSUME NEW r \in Runs, EngineMoves(r) \/ Reports(r)
      PROVE  Guarded
  BY <1>1, <1>7, EngineGuarded DEF EngineMoves, Reports, machineVars
<1>8. ASSUME NEW n \in Numbers, WaiterWakes(n)
      PROVE  Guarded
  BY <1>1, <1>8 DEF WaiterWakes, runVars
<1>9. CASE Deliver \/ Cockpit \/ UNCHANGED vars
  BY <1>1, <1>9 DEF Deliver, Cockpit, runVars, vars
<1> QED
  BY <1>2, <1>3, <1>4, <1>5, <1>6, <1>7, <1>8, <1>9 DEF Next, Goroutine

LEMMA AwaitStep ==
    ASSUME TypeOK, AwaitInv, [Next]_vars
    PROVE  AwaitInv'
<1>1. Guarded
  BY StepGuarded
<1>2. ASSUME \A r \in Runs : Stays(r)
      PROVE  AwaitInv'
  BY <1>2 DEF Stays, AwaitInv
<1>3. ASSUME NEW r \in Runs, TriesIt(r) \/ KeepsIt(r) \/ TakesItBack(r),
             \A other \in Runs \ {r} : run'[other] = run[other]
      PROVE  AwaitInv'
  BY <1>3 DEF TriesIt, KeepsIt, TakesItBack, AwaitInv
<1> QED
  BY <1>1, <1>2, <1>3 DEF Guarded

LEMMA AwaitInvariant == Spec => [](TypeOK /\ SingleInv /\ AwaitInv)
<1>1. Init => TypeOK /\ SingleInv /\ AwaitInv
  BY ScreenInitTyped, SingleInit DEF Init, EngineInit, NotStarted, AwaitInv
<1>2. TypeOK /\ SingleInv /\ AwaitInv /\ [Next]_vars
        => (TypeOK /\ SingleInv /\ AwaitInv)'
  BY StepTyped, SingleStep, AwaitStep
<1> QED
  BY <1>1, <1>2, PTL DEF Spec

(* The snapshot of the one session there is, if it awaits its answer.      *)
LEMMA FallbackIs ==
    ASSUME NEW runs, NEW r \in Runs,
           \A other \in Runs \ {r} : ~runs[other].awaiting
    PROVE  FallbackOf(runs) = IF runs[r].awaiting THEN runs[r].snapshot ELSE NoSnapshot
<1>1. ASSUME runs[r].awaiting
      PROVE  (CHOOSE s \in Runs : runs[s].awaiting) = r
  <2> DEFINE chosen == CHOOSE s \in Runs : runs[s].awaiting
  <2>1. chosen \in Runs /\ runs[chosen].awaiting
    BY <1>1
  <2> QED
    BY <2>1
<1> QED
  BY <1>1 DEF FallbackOf

LEMMA NoSnapshotIsNone == NoSnapshot \notin Versions
BY NoSetContainsEverything DEF NoSnapshot

(* No session awaits an answer, before and after.                          *)
LEMMA NoFallbacks ==
    ASSUME \A r \in Runs : ~run[r].awaiting /\ ~run'[r].awaiting
    PROVE  Fallback' = Fallback
BY DEF Fallback, FallbackOf

(* With one restore the steps that end in another ruleset or fallback are  *)
(* the contract's.                                                         *)
LEMMA SingleGuarded ==
    ASSUME TypeOK, SingleInv, AwaitInv, Guarded, OneRestore'
    PROVE  [Guard!Next]_<<ruleset, Fallback>>
<1>1. ASSUME NEW r \in Runs,
             \A other \in Runs \ {r} : ~run[other].awaiting /\ ~run'[other].awaiting
      PROVE  /\ Fallback = IF run[r].awaiting THEN run[r].snapshot ELSE NoSnapshot
             /\ Fallback' = IF run'[r].awaiting THEN run'[r].snapshot ELSE NoSnapshot
  BY <1>1, FallbackIs DEF Fallback
<1>2. CASE ruleset' = ruleset /\ \A r \in Runs : Stays(r)
  <2>1. CASE \A r \in Runs : ~run[r].awaiting
    BY <1>2, <2>1, NoFallbacks DEF Stays
  <2>2. ASSUME NEW r \in Runs, run[r].awaiting
        PROVE  Fallback' = Fallback
    <3>1. /\ run'[r].awaiting /\ run'[r].snapshot = run[r].snapshot
          /\ run'[r].pc # "idle"
      BY <1>2, <2>2 DEF Stays
    <3>2. \A other \in Runs \ {r} : run'[other].pc = "idle"
      BY <3>1 DEF OneRestore
    <3>3. \A other \in Runs \ {r} : run[other].pc = "idle"
      BY <1>2, <3>2 DEF Stays
    <3>4. \A other \in Runs \ {r} : ~run[other].awaiting /\ ~run'[other].awaiting
      BY <1>2, <3>3 DEF Stays, AwaitInv
    <3> QED
      BY <1>1, <2>2, <3>1, <3>4
  <2> QED
    BY <1>2, <2>1, <2>2
<1>3. ASSUME NEW r \in Runs, TriesIt(r) \/ KeepsIt(r) \/ TakesItBack(r),
             \A other \in Runs \ {r} : run'[other] = run[other]
      PROVE  Guard!Next
  <2>1. run[r].pc # "idle" /\ run'[r].pc # "idle"
    BY <1>3 DEF TriesIt, KeepsIt, TakesItBack
  <2>2. \A other \in Runs \ {r} : run'[other].pc = "idle"
    BY <2>1 DEF OneRestore
  <2>3. \A other \in Runs \ {r} : ~run[other].awaiting /\ ~run'[other].awaiting
    BY <1>3, <2>2 DEF AwaitInv
  <2>4. /\ Fallback = IF run[r].awaiting THEN run[r].snapshot ELSE NoSnapshot
        /\ Fallback' = IF run'[r].awaiting THEN run'[r].snapshot ELSE NoSnapshot
    BY <1>1, <2>3
  <2>5. OneRestore
    BY <1>3, <2>2 DEF OneRestore
  <2>6. RunStands(r)
    BY <2>1, <2>5 DEF SingleInv
  <2>7. run[r].snapshot \in Versions /\ run[r].artifact \in Versions
    BY RunTyped DEF TypeOK
  <2>8. CASE TriesIt(r)
    <3>1. ~run[r].awaiting /\ run[r].snapshot = ruleset
      BY <2>6, <2>8 DEF TriesIt, AwaitInv, RunStands
    <3>2. Guard!Try
      BY <2>4, <2>7, <2>8, <3>1 DEF TriesIt, Guard!Try
    <3> QED
      BY <3>2 DEF Guard!Next
  <2>9. CASE KeepsIt(r)
    <3>1. run[r].awaiting
      BY <2>9 DEF KeepsIt, AwaitInv
    <3>2. Guard!Keep
      BY <2>4, <2>7, <2>9, <3>1, NoSnapshotIsNone DEF KeepsIt, Guard!Keep
    <3> QED
      BY <3>2 DEF Guard!Next
  <2>10. CASE TakesItBack(r)
    <3>1. run[r].awaiting
      BY <2>10 DEF TakesItBack, AwaitInv
    <3>2. Guard!Revert
      BY <2>4, <2>7, <2>10, <3>1, NoSnapshotIsNone DEF TakesItBack, Guard!Revert
    <3> QED
      BY <3>2 DEF Guard!Next
  <2> QED
    BY <1>3, <2>8, <2>9, <2>10
<1> QED
  BY <1>2, <1>3 DEF Guarded

(* One restore, started by any of the screens, implements the contract     *)
(* step by step, whoever answers its question and whichever screen is open *)
(* when it is answered: the ruleset is only ever tried over a snapshot of  *)
(* the one it replaces, and goes back to that or stays.  Of two restores   *)
(* it does not hold: the second may snapshot what the first is only trying *)
(* (applyNftables, KeepSession).                                           *)
THEOREM OneRestoreIsCommitConfirmed ==
    Spec => /\ Guard!Init
            /\ [][OneRestore' => [Guard!Next]_<<ruleset, Fallback>>]_vars
<1>1. Init => Guard!Init
  <2> SUFFICES ASSUME Init PROVE Guard!Init
    OBVIOUS
  <2>1. ruleset = Before /\ \A r \in Runs : ~run[r].awaiting
    BY DEF Init, EngineInit, NotStarted
  <2>2. Fallback = NoSnapshot
    BY <2>1 DEF Fallback, FallbackOf
  <2> QED
    BY <2>1, <2>2 DEF Guard!Init, Versions
<1>2. TypeOK /\ SingleInv /\ AwaitInv /\ [Next]_vars
        => [OneRestore' => [Guard!Next]_<<ruleset, Fallback>>]_vars
  BY StepGuarded, SingleGuarded
<1> QED
  BY <1>1, <1>2, AwaitInvariant, PTL DEF Spec
=============================================================================
