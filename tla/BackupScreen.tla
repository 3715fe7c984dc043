----------------------------- MODULE BackupScreen -----------------------------
(***************************************************************************)
(* The cockpit's backup screen (cmd/tui-router/backupscreen.go) over the   *)
(* restore engine, with the part of the app that opens it, feeds it        *)
(* messages and closes it.  The screen runs its reads, its writes and the  *)
(* engine in goroutines, whose messages come back through the one message  *)
(* queue of the program and go to the screen that is open by then.  The    *)
(* keep question crosses from the engine to the screen over two channels   *)
(* of capacity one, which belong to the screen the engine was started by.  *)
(* ctrl+c closes a screen and stops nothing.                               *)
(***************************************************************************)
EXTENDS RestoreEngine, Sequences

CONSTANTS
    MaxOpens,  \* how many times the screen is opened
    Slots,     \* the reads and writes that may be in flight at once
    Carries    \* the sets of parts an artifact may carry

ASSUME ScreenAssumption ==
    /\ MaxOpens \in Nat
    /\ Carries \subseteq SUBSET Parts

VARIABLES
    scr,       \* the open screen
    opens,     \* the screens opened so far, also the number of the last one
    command,   \* the reads and writes in flight
    inbox,     \* the messages on their way to the event loop, in order
    ask,       \* per screen: its ask channel holds a signal
    answer,    \* per screen: what its answer channel holds
    waiters,   \* per screen: its goroutines that wait for a signal
    owner,     \* per run: the screen that started it
    reported,  \* the runs whose message has been sent
    confirmed  \* history: the runs at their keep question when k was pressed

channelVars == <<ask, answer, waiters>>
runVars == <<disk, running, ruleset, run, owner, reported>>
vars == <<disk, running, ruleset, run, scr, opens, command, inbox, ask,
          answer, waiters, owner, reported, confirmed>>

Numbers == 0 .. MaxOpens
ScreenSteps == {"closed", "menu", "path", "working", "exportPlan",
                "restorePlan", "hardware", "confirm", "keep", "done"}

(* What backupOpenedMsg brings: the artifact, what it carries, whether it  *)
(* differs from the machine, and the hardware warning.                     *)
Plans == [target : Versions, carried : SUBSET Parts,
          changes : BOOLEAN, warned : BOOLEAN]

NoPlan == [target |-> Before, carried |-> {}, changes |-> FALSE,
           warned |-> FALSE]

Screens == [step : ScreenSteps, mode : {"export", "restore"},
            plan : Plans, result : Outcomes]

(* from is history: the screen whose command it is, or whose message.      *)
Commands == [kind : {"none", "collect", "open", "write"}, from : Numbers]
Idle == [kind |-> "none", from |-> 0]

Messages == [kind : {"collected", "opened", "wrote", "ask", "applied"},
             from : Numbers, plan : Plans, result : Outcomes]

TypeOK ==
    /\ EngineTypeOK
    /\ scr \in Screens
    /\ opens \in Numbers
    /\ command \in [Slots -> Commands]
    /\ inbox \in Seq(Messages)
    /\ ask \in [Numbers -> BOOLEAN]
    /\ answer \in [Numbers -> {"none", "keep", "drop"}]
    /\ waiters \in [Numbers -> Nat]
    /\ owner \in [Runs -> Numbers]
    /\ reported \in SUBSET Runs
    /\ confirmed \in SUBSET Runs

NewScreen == [step |-> "menu", mode |-> "export", plan |-> NoPlan,
              result |-> "none"]

Closed == [NewScreen EXCEPT !.step = "closed"]

Init ==
    /\ EngineInit
    /\ scr = Closed
    /\ opens = 0
    /\ command = [c \in Slots |-> Idle]
    /\ inbox = << >>
    /\ ask = [n \in Numbers |-> FALSE]
    /\ answer = [n \in Numbers |-> "none"]
    /\ waiters = [n \in Numbers |-> 0]
    /\ owner = [r \in Runs |-> 0]
    /\ reported = {}
    /\ confirmed = {}

-----------------------------------------------------------------------------
(* The keyboard.  While the screen works, no key but ctrl+c does anything. *)
Goes(step) == scr' = [scr EXCEPT !.step = step]

Fails == scr' = [scr EXCEPT !.step = "done", !.result = "failed"]

OnlyScreen ==
    UNCHANGED <<runVars, channelVars, opens, command, inbox, confirmed>>

OpenBackup ==
    /\ scr.step = "closed"
    /\ opens < MaxOpens
    /\ opens' = opens + 1
    /\ scr' = NewScreen
    /\ UNCHANGED <<runVars, channelVars, command, inbox, confirmed>>

(* ctrl+c at any step, esc and n where a step offers them, any key on the  *)
(* result.                                                                 *)
Leave ==
    /\ scr.step # "closed"
    /\ scr' = Closed
    /\ OnlyScreen

ChooseMode ==
    /\ scr.step = "menu"
    /\ \E mode \in {"export", "restore"} :
         scr' = [scr EXCEPT !.step = "path", !.mode = mode]
    /\ OnlyScreen

(* A read or a write starts in a goroutine of its own.                     *)
Start(kind) ==
    /\ \E c \in Slots :
         /\ command[c] = Idle
         /\ command' = [command EXCEPT ![c] = [kind |-> kind, from |-> opens]]
    /\ Goes("working")
    /\ UNCHANGED <<runVars, channelVars, opens, inbox, confirmed>>

(* startPath: the first read of the flow.                                  *)
TypePath ==
    /\ scr.step = "path"
    /\ Start(IF scr.mode = "export" THEN "collect" ELSE "open")

ConfirmExport == scr.step = "exportPlan" /\ Start("write")

(* keyRestorePlan: the hardware question comes first when there is one.    *)
ConfirmPlan ==
    /\ scr.step = "restorePlan"
    /\ Goes(CASE ~scr.plan.changes -> "done"
              [] scr.plan.changes /\ scr.plan.warned -> "hardware"
              [] OTHER -> "confirm")
    /\ OnlyScreen

AnswerHardware ==
    /\ scr.step = "hardware"
    /\ Goes("confirm") \/ Fails
    /\ OnlyScreen

RefuseConfirm ==
    /\ scr.step = "confirm"
    /\ Fails
    /\ OnlyScreen

(* Mutation: the ruleset is written with the files.                        *)
StartRestoreWithRuleset ==
    /\ scr.step = "confirm"
    /\ \E r \in Runs :
         /\ run[r].pc = "idle"
         /\ run' = [run EXCEPT ![r] =
              [NotStarted EXCEPT !.pc = "write", !.artifact = scr.plan.target,
                                 !.carried = scr.plan.carried,
                                 !.todo = scr.plan.carried,
                                 !.ctx = CtxTimeout]]
         /\ owner' = [owner EXCEPT ![r] = opens]
    /\ waiters' = [waiters EXCEPT ![opens] = @ + 1]
    /\ Goes("working")
    /\ UNCHANGED <<machineVars, ask, answer, reported, opens, command, inbox,
                   confirmed>>

(* "yes": the engine starts, and a goroutine that waits for its question.  *)
StartRestore ==
    /\ scr.step = "confirm"
    /\ \E r \in Runs :
         /\ run[r].pc = "idle"
         /\ run' = [run EXCEPT ![r] =
              [NotStarted EXCEPT !.pc = "write", !.artifact = scr.plan.target,
                                 !.carried = scr.plan.carried,
                                 !.todo = scr.plan.carried \cap Files,
                                 !.ctx = CtxTimeout]]
         /\ owner' = [owner EXCEPT ![r] = opens]
    /\ waiters' = [waiters EXCEPT ![opens] = @ + 1]
    /\ Goes("working")
    /\ UNCHANGED <<machineVars, ask, answer, reported, opens, command, inbox,
                   confirmed>>

Asking == {r \in Runs : run[r].pc = "keep"}

(* Mutation: every key keeps.                                              *)
AnswerKeepAnyKey ==
    /\ scr.step = "keep"
    /\ \E key \in {"keep", "drop"} :
         /\ answer' = [answer EXCEPT ![opens] = IF @ = "none" THEN "keep" ELSE @]
         /\ confirmed' = IF key = "keep" THEN confirmed \cup Asking ELSE confirmed
    /\ Goes("working")
    /\ UNCHANGED <<runVars, ask, waiters, opens, command, inbox>>

(* keyKeep: k, or any other key.  The channel takes one answer, and a      *)
(* second one is dropped while it holds the first.                         *)
AnswerKeep ==
    /\ scr.step = "keep"
    /\ \E key \in {"keep", "drop"} :
         /\ answer' = [answer EXCEPT ![opens] = IF @ = "none" THEN key ELSE @]
         /\ confirmed' = IF key = "keep" THEN confirmed \cup Asking ELSE confirmed
    /\ Goes("working")
    /\ UNCHANGED <<runVars, ask, waiters, opens, command, inbox>>

Keyboard ==
    \/ OpenBackup
    \/ Leave
    \/ ChooseMode
    \/ TypePath
    \/ ConfirmExport
    \/ ConfirmPlan
    \/ AnswerHardware
    \/ RefuseConfirm
    \/ StartRestore
    \/ AnswerKeep

-----------------------------------------------------------------------------
Message(kind, from, plan, result) ==
    [kind |-> kind, from |-> from, plan |-> plan, result |-> result]

Sends(message) == inbox' = Append(inbox, message)

(* openCmd reads the machine when it runs, so that is what its plan is     *)
(* about.  Nothing is warned about when no roles are carried.              *)
PlansNow ==
    {plan \in [target : Artifacts, carried : Carries,
               changes : BOOLEAN, warned : BOOLEAN] :
        /\ \E read \in BOOLEAN :
             /\ read \/ "command" \in Faults
             /\ plan.changes = HasChanges(plan.target, plan.carried, read)
        /\ plan.warned => "roles" \in plan.carried}

(* A read or a write ends, in its message or in its error; the read of an  *)
(* export has none.                                                        *)
CommandEnds(c) ==
    LET from == command[c].from IN
    /\ \/ /\ command[c].kind = "collect"
          /\ Sends(Message("collected", from, NoPlan, "none"))
       \/ /\ command[c].kind = "open"
          /\ \/ \E plan \in PlansNow : Sends(Message("opened", from, plan, "none"))
             \/ Sends(Message("opened", from, NoPlan, "failed"))
       \/ /\ command[c].kind = "write"
          /\ \E result \in {"none", "failed"} :
               Sends(Message("wrote", from, NoPlan, result))
    /\ command' = [command EXCEPT ![c] = Idle]
    /\ UNCHANGED <<runVars, channelVars, scr, opens, confirmed>>

(* Mutation: the question is asked before the ruleset is applied.          *)
EngineAsksEarly(r) ==
    /\ EngineStep(r)
    /\ ask' = [ask EXCEPT ![owner[r]] = @ \/ run'[r].pc = "apply"]
    /\ UNCHANGED <<owner, reported, answer, waiters, scr, opens, command,
                   inbox, confirmed>>

(* The engine moves, and signals ask the moment its keep callback runs.    *)
EngineMoves(r) ==
    /\ EngineStep(r)
    /\ ask' = [ask EXCEPT ![owner[r]] = @ \/ run'[r].pc = "keep"]
    /\ UNCHANGED <<owner, reported, answer, waiters, scr, opens, command,
                   inbox, confirmed>>

(* waitForKeepAsk.                                                         *)
WaiterReady(n) == ask[n] /\ waiters[n] > 0

WaiterWakes(n) ==
    /\ WaiterReady(n)
    /\ ask' = [ask EXCEPT ![n] = FALSE]
    /\ waiters' = [waiters EXCEPT ![n] = @ - 1]
    /\ Sends(Message("ask", n, NoPlan, "none"))
    /\ UNCHANGED <<runVars, answer, scr, opens, command, confirmed>>

(* The keep callback takes the answer, or its 60 seconds end.              *)
TakeAnswer(r) ==
    /\ answer[owner[r]] # "none"
    /\ IF answer[owner[r]] = "keep" THEN Commit(r) ELSE NotKept(r)
    /\ answer' = [answer EXCEPT ![owner[r]] = "none"]
    /\ UNCHANGED <<owner, reported, ask, waiters, scr, opens, command, inbox,
                   confirmed>>

(* Mutation: the window only closes while the screen is open.              *)
KeepTimesOutOnScreen(r) ==
    /\ run[r].window = 0
    /\ scr.step = "keep"
    /\ NotKept(r)
    /\ UNCHANGED <<owner, reported, channelVars, scr, opens, command, inbox,
                   confirmed>>

KeepTimesOut(r) ==
    /\ run[r].window = 0
    /\ NotKept(r)
    /\ UNCHANGED <<owner, reported, channelVars, scr, opens, command, inbox,
                   confirmed>>

(* applyRestore returns, and its goroutine sends backupAppliedMsg.         *)
Reports(r) ==
    /\ run[r].pc = "ended"
    /\ r \notin reported
    /\ Sends(Message("applied", owner[r], NoPlan, run[r].outcome))
    /\ reported' = reported \cup {r}
    /\ UNCHANGED <<machineVars, run, owner, channelVars, scr, opens, command,
                   confirmed>>

Goroutine(r) ==
    EngineMoves(r) \/ TakeAnswer(r) \/ KeepTimesOut(r) \/ Reports(r)

(* A waiting goroutine wakes long before a tick is over.                   *)
Clock ==
    /\ \A n \in Numbers : ~WaiterReady(n)
    /\ Tick
    /\ UNCHANGED <<owner, reported, channelVars, scr, opens, command, inbox,
                   confirmed>>

-----------------------------------------------------------------------------
StepAfter == [collected |-> "exportPlan", opened |-> "restorePlan",
              wrote |-> "done", ask |-> "keep", applied |-> "done"]

(* Mutation: a failure leaves the screen working.                          *)
HandledForgotten(message) ==
    [scr EXCEPT !.step = IF message.result = "failed" THEN @
                         ELSE StepAfter[message.kind],
                !.plan = IF message.kind = "opened" THEN message.plan ELSE @]

(* Mutation: the error of a restore is not shown.                          *)
HandledHopeful(message) ==
    [scr EXCEPT !.step = IF message.result = "failed" THEN "done"
                         ELSE StepAfter[message.kind],
                !.plan = IF message.kind = "opened" THEN message.plan ELSE @,
                !.result = IF message.kind = "applied" THEN "kept" ELSE @]

(* The screen's message handlers, which do not look at the step it is on.  *)
Handled(message) ==
    [scr EXCEPT !.step = IF message.result = "failed" THEN "done"
                         ELSE StepAfter[message.kind],
                !.plan = IF message.kind = "opened" /\ message.result = "none"
                         THEN message.plan ELSE @,
                !.result = IF message.result = "none" THEN @
                           ELSE message.result]

(* The event loop takes the next message, for the screen that is open.     *)
Deliver ==
    /\ inbox # << >>
    /\ scr' = IF scr.step = "closed" THEN scr ELSE Handled(Head(inbox))
    /\ inbox' = Tail(inbox)
    /\ UNCHANGED <<runVars, channelVars, opens, command, confirmed>>

(* The process ends (a hangup, a kill, or q in the cockpit), and with it   *)
(* the screen, its goroutines and the engine's runs.                       *)
ProcessEnds ==
    /\ "process" \in Faults
    /\ scr.step # "closed" \/ \E r \in Runs : Active(r)
    /\ run' = [r \in Runs |->
                 IF Active(r)
                 THEN [run[r] EXCEPT !.pc = "ended", !.outcome = "gone"]
                 ELSE run[r]]
    /\ reported' = {r \in Runs : run[r].pc # "idle"}
    /\ scr' = Closed
    /\ command' = [c \in Slots |-> Idle]
    /\ inbox' = << >>
    /\ ask' = [n \in Numbers |-> FALSE]
    /\ answer' = [n \in Numbers |-> "none"]
    /\ waiters' = [n \in Numbers |-> 0]
    /\ UNCHANGED <<machineVars, owner, opens, confirmed>>

(* With no screen open the cockpit does other things.                      *)
Cockpit == scr.step = "closed" /\ UNCHANGED vars

Next ==
    \/ Keyboard
    \/ Cockpit
    \/ \E c \in Slots : CommandEnds(c)
    \/ \E r \in Runs : Goroutine(r)
    \/ \E n \in Numbers : WaiterWakes(n)
    \/ Clock
    \/ Deliver
    \/ ProcessEnds

Spec == Init /\ [][Next]_vars

(* Go runs every goroutine, the event loop takes every message and time    *)
(* passes.  Nothing is assumed of the operator.                            *)
FairSpec ==
    /\ Spec
    /\ \A c \in Slots : WF_vars(CommandEnds(c))
    /\ \A r \in Runs : WF_vars(Goroutine(r))
    /\ \A n \in Numbers : WF_vars(WaiterWakes(n))
    /\ WF_vars(Clock)
    /\ WF_vars(Deliver)

-----------------------------------------------------------------------------
(* As long as one restore has been started, by whichever screen, its       *)
(* ruleset is kept only when k was pressed while its keep question was     *)
(* open: never before it was asked, after it timed out or by another key.  *)
(* With a second restore that fails: a k drawn by a stale question stays   *)
(* in the channel of its screen (keyKeep), and the next restore started    *)
(* from that screen takes it for the answer to its own.                    *)
OneRestore == \A r, s \in Runs : run[r].pc # "idle" /\ run[s].pc # "idle" => r = s

KeptMeansConfirmed ==
    OneRestore => \A r \in Runs : run[r].outcome = "kept" => r \in confirmed

(* When no run is left and none of them was kept, or ended with a rollback *)
(* that failed or a process that died, the ruleset is the one the first of *)
(* them found: whatever was not confirmed has been taken back.             *)
UnconfirmedIsRolledBack ==
    (\A r \in Runs : /\ ~Active(r)
                     /\ run[r].outcome \notin {"kept", "stuck", "gone"})
      => ruleset = Before

(* While no screen was opened before it, so that every message is its own, *)
(* a screen that works has a read, a write or an apply in flight or its    *)
(* message on the way, and one that asks to keep a ruleset has a run that  *)
(* made it live (bsWorking, waitForKeepAsk).                               *)
FirstScreen == opens <= 1

InFlight(n) ==
    \/ \E c \in Slots : command[c].kind # "none" /\ command[c].from = n
    \/ \E i \in DOMAIN inbox : inbox[i].from = n
    \/ \E r \in Runs : owner[r] = n /\ run[r].pc # "idle" /\ r \notin reported

ScreenHasJob ==
    FirstScreen =>
        /\ scr.step = "working" => InFlight(opens)
        /\ scr.step = "keep" => \E r \in Runs :
             owner[r] = opens /\ run[r].pc \in {"keep", "rollback", "ended"}

(* The result such a screen shows tells what happened to the ruleset,      *)
(* however the question, the answer and the time-out met.                  *)
DoneTellsRuleset ==
    FirstScreen /\ scr.step = "done" =>
        /\ scr.result = "kept" => ruleset = scr.plan.target
        /\ scr.result \in {"none", "failed", "rolledback"} => ruleset = Before

(* A screen that works gets an answer.                                     *)
ScreenAnswers == scr.step = "working" ~> scr.step # "working"

(* Every restore ends, also when its screen was closed and its question    *)
(* was put to another one.                                                 *)
RestoresEnd == \A r \in Runs : run[r].pc = "write" ~> run[r].pc = "ended"
=============================================================================
