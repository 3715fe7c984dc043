-------------------------------- MODULE Cockpit --------------------------------
(***************************************************************************)
(* The cockpit's event loop (cmd/tui-router/app.go): the refresh tick, the *)
(* loads that read the machine in goroutines, the screens that take over   *)
(* the messages, the hand-off of the terminal to another tool, and the     *)
(* power dialog.  What the wizard and the backup screen do is in           *)
(* RolesWizard and BackupScreen; here they are open or closed.             *)
(***************************************************************************)
EXTENDS NetworkdDHCP

CONSTANTS
    Machines,   \* the states the machine may be in
    Files,      \* per such state, its files, packages and services
    NoSnapshot, \* app.cur before the first load arrives
    Slots       \* the loads that may be in flight at once

ASSUME CockpitAssumption == NoSnapshot \notin Machines
ASSUME FilesAssumption == \A m \in Machines : HasFiles(Files[m])

VARIABLES
    machine,    \* what it is now
    screen,     \* what has the keyboard
    busy,       \* app.busy: a hand-off or a power command is running
    process,    \* that hand-off or command
    loading,    \* app.loading
    cur,        \* app.cur, the last snapshot that arrived
    load,       \* the loads in flight, and what they have read
    tick        \* the refresh tick: its timer runs, or its message is sent

loopVars == <<screen, busy, process, loading, cur>>
vars == <<machine, screen, busy, process, loading, cur, load, tick>>

CockpitScreens == {"cockpit", "help", "power"}
OwningScreens == {"wizard", "backup"}
Screens == CockpitScreens \cup OwningScreens \cup {"gone"}

(* handed is a command on its way to the loop, running a tool that has the *)
(* terminal, exited and powered a message on its way back.                 *)
Processes == {"none", "handed", "running", "exited", "powering", "powered"}

(* A snapshot is named by the state of the machine it was read in          *)
(* (Real.Read, which returns no error: what fails degrades).               *)
Snapshots == Machines \cup {NoSnapshot}

Load(pc, snap) == [pc |-> pc, snap |-> snap]
Idle == Load("idle", NoSnapshot)
Started == Load("started", NoSnapshot)
Loads == {Idle, Started} \cup {Load("sent", m) : m \in Machines}

TypeOK ==
    /\ machine \in Machines
    /\ screen \in Screens
    /\ busy \in BOOLEAN
    /\ process \in Processes
    /\ loading \in BOOLEAN
    /\ cur \in Snapshots
    /\ load \in [Slots -> Loads]
    /\ tick \in {"running", "sent"}

(* newApp and Init: a load and the tick are started.                       *)
Init ==
    /\ machine \in Machines
    /\ screen = "cockpit"
    /\ busy = FALSE
    /\ process = "none"
    /\ loading = TRUE
    /\ cur = NoSnapshot
    /\ \E first \in Slots :
         load = [s \in Slots |-> IF s = first THEN Started ELSE Idle]
    /\ tick = "running"

-----------------------------------------------------------------------------
Alive == screen # "gone"

(* While a tool has the terminal, the loop waits for it.                   *)
LoopRuns == Alive /\ process # "running"

(* A load in a goroutine of its own.  Bound: one per slot.                 *)
StartsLoad == \E s \in Slots : load[s] = Idle /\ load' = [load EXCEPT ![s] = Started]

(* Mutation: a read that failed is sent as a snapshot of nothing.          *)
LoadReadsNothing(s) ==
    /\ Alive
    /\ load[s].pc = "started"
    /\ \E snap \in Snapshots \ (Machines \ {machine}) :
         load' = [load EXCEPT ![s] = Load("sent", snap)]
    /\ UNCHANGED <<machine, loopVars, tick>>

LoadReads(s) ==
    /\ Alive
    /\ load[s].pc = "started"
    /\ load' = [load EXCEPT ![s] = Load("sent", machine)]
    /\ UNCHANGED <<machine, loopVars, tick>>

(* loadedMsg: a screen that owns the messages drops it.                    *)
LoadArrives(s) ==
    /\ LoopRuns
    /\ load[s].pc = "sent"
    /\ load' = [load EXCEPT ![s] = Idle]
    /\ IF screen \in OwningScreens
       THEN UNCHANGED <<loading, cur>>
       ELSE loading' = FALSE /\ cur' = load[s].snap
    /\ UNCHANGED <<machine, screen, busy, process, tick>>

TickFires ==
    /\ Alive
    /\ tick = "running"
    /\ tick' = "sent"
    /\ UNCHANGED <<machine, loopVars, load>>

(* Mutation: the refresh pauses under the help and the power dialog too.   *)
TickArrivesInCockpit ==
    /\ LoopRuns
    /\ tick = "sent"
    /\ tick' = "running"
    /\ IF screen # "cockpit" \/ busy THEN UNCHANGED load ELSE StartsLoad
    /\ UNCHANGED <<machine, loopVars>>

(* tickMsg: the next tick is always asked for.  While a screen owns the    *)
(* messages or a command runs, nothing is read.                            *)
TickArrives ==
    /\ LoopRuns
    /\ tick = "sent"
    /\ tick' = "running"
    /\ IF screen \in OwningScreens \/ busy THEN UNCHANGED load ELSE StartsLoad
    /\ UNCHANGED <<machine, loopVars>>

-----------------------------------------------------------------------------
(* handleKey: a busy cockpit answers to ctrl+c alone.                      *)
Answers(on) == LoopRuns /\ screen = on /\ ~busy

Refresh ==
    /\ Answers("cockpit")
    /\ loading' = TRUE
    /\ StartsLoad
    /\ UNCHANGED <<machine, screen, busy, process, cur, tick>>

(* Mutation: the keys that open a screen work while a command runs.        *)
OpenScreenBusy ==
    /\ LoopRuns /\ screen = "cockpit"
    /\ screen' \in {"help", "power", "backup"} \cup
                   (IF cur # NoSnapshot /\ Files[cur].profile THEN {"wizard"} ELSE {})
    /\ UNCHANGED <<machine, busy, process, loading, cur, load, tick>>

(* ?, b, B, P and w, which opens a wizard on a snapshot of a router only.  *)
OpenScreen ==
    /\ Answers("cockpit")
    /\ screen' \in {"help", "power", "backup"} \cup
                   (IF cur # NoSnapshot /\ Files[cur].profile THEN {"wizard"} ELSE {})
    /\ UNCHANGED <<machine, busy, process, loading, cur, load, tick>>

CloseHelp ==
    /\ Answers("help")
    /\ screen' = "cockpit"
    /\ UNCHANGED <<machine, busy, process, loading, cur, load, tick>>

(* Mutation: the snapshot is asked for and not read.                       *)
CloseScreenUnread ==
    /\ LoopRuns
    /\ screen \in OwningScreens
    /\ screen' = "cockpit"
    /\ loading' = TRUE
    /\ UNCHANGED <<machine, busy, process, cur, load, tick>>

(* The wizard or the backup screen closes.                                 *)
CloseScreen ==
    /\ LoopRuns
    /\ screen \in OwningScreens
    /\ screen' = "cockpit"
    /\ loading' = TRUE
    /\ StartsLoad
    /\ UNCHANGED <<machine, busy, process, cur, tick>>

(* The power dialog is answered with its word, or with anything else.  It  *)
(* takes its keys before handleKey does.                                   *)
ConfirmPower ==
    /\ LoopRuns /\ screen = "power"
    /\ screen' = "cockpit"
    /\ busy' = TRUE
    /\ process' = "powering"
    /\ UNCHANGED <<machine, loading, cur, load, tick>>

CancelPower ==
    /\ LoopRuns /\ screen = "power"
    /\ screen' = "cockpit"
    /\ UNCHANGED <<machine, busy, process, loading, cur, load, tick>>

(* launch, on a card whose tool is installed.                              *)
Launch ==
    /\ Answers("cockpit")
    /\ cur # NoSnapshot
    /\ busy' = TRUE
    /\ process' = "handed"
    /\ UNCHANGED <<machine, screen, loading, cur, load, tick>>

(* q in the cockpit, ctrl+c also while it is busy.                         *)
Quit ==
    /\ LoopRuns
    /\ screen \in {"cockpit", "help"}
    /\ screen' = "gone"
    /\ UNCHANGED <<machine, busy, process, loading, cur, load, tick>>

-----------------------------------------------------------------------------
Becomes(now, next) ==
    /\ Alive
    /\ process = now
    /\ process' = next
    /\ UNCHANGED <<machine, screen, busy, loading, cur, load, tick>>

(* tea.Exec gives the tool the terminal, and sends what the tool ended in. *)
ToolStarts == LoopRuns /\ Becomes("handed", "running")
ToolExits == Becomes("running", "exited")

(* launchedMsg.  A tool that failed has nothing read again.                *)
Launched ==
    /\ LoopRuns
    /\ process = "exited"
    /\ process' = "none"
    /\ IF screen \in OwningScreens \cup {"power"}
       THEN UNCHANGED <<busy, loading, load>>
       ELSE /\ busy' = FALSE
            /\ \/ loading' = TRUE /\ StartsLoad
               \/ UNCHANGED <<loading, load>>
    /\ UNCHANGED <<machine, screen, cur, tick>>

(* runPower in its goroutine.                                              *)
PowerRuns == Becomes("powering", "powered")

(* powerDoneMsg: a power dialog lets it through.                           *)
PowerDone ==
    /\ LoopRuns
    /\ process = "powered"
    /\ process' = "none"
    /\ busy' = IF screen \in OwningScreens THEN busy ELSE FALSE
    /\ UNCHANGED <<machine, screen, loading, cur, load, tick>>

(* An operator, a screen, a tool or a package changes the machine.         *)
MachineChanges ==
    /\ machine' \in Machines
    /\ UNCHANGED <<loopVars, load, tick>>

Gone == screen = "gone" /\ UNCHANGED vars

Next ==
    \/ \E s \in Slots : LoadReads(s) \/ LoadArrives(s)
    \/ TickFires
    \/ TickArrives
    \/ Refresh
    \/ OpenScreen
    \/ CloseHelp
    \/ CloseScreen
    \/ ConfirmPower
    \/ CancelPower
    \/ Launch
    \/ ToolStarts
    \/ ToolExits
    \/ Launched
    \/ PowerRuns
    \/ PowerDone
    \/ Quit
    \/ MachineChanges
    \/ Gone

Spec == Init /\ [][Next]_vars

(* Timers fire, goroutines run, and the loop takes the messages it is      *)
(* sent.  Nothing is assumed of the operator, or of a tool.                *)
FairSpec ==
    /\ Spec
    /\ WF_vars(TickFires)
    /\ WF_vars(TickArrives)
    /\ \A s \in Slots : WF_vars(LoadReads(s)) /\ WF_vars(LoadArrives(s))
    /\ WF_vars(ToolStarts)
    /\ WF_vars(Launched)
    /\ WF_vars(PowerRuns)
    /\ WF_vars(PowerDone)

-----------------------------------------------------------------------------
(* A cockpit that ignores the keyboard has a command on its way whose      *)
(* message will reach it: no screen is open that would swallow it          *)
(* (app.busy, launchedMsg and powerDoneMsg).                               *)
BusyHasProcess == busy => process # "none" /\ screen \in {"cockpit", "gone"}

(* A cockpit that says it is loading has a load in flight, whatever the    *)
(* screens that were open have dropped (app.loading).                      *)
LoadingHasLoad ==
    loading /\ screen \in CockpitScreens => \E s \in Slots : load[s] # Idle

(* A pool that is shown is a run of addresses inside the subnet of its     *)
(* server, from the keys that were assigned last: the unit, then the       *)
(* drop-ins of /lib, and those of /etc at the end (networkdDropinFiles,    *)
(* NetworkdPoolRange).                                                     *)
PoolIsServed ==
    cur # NoSnapshot =>
        LET dhcp == ReadDHCP(Files[cur])
        IN  dhcp.pool # NoPool =>
              LiesInSubnet(dhcp.pool, ParseNetworkdUnit(Files[cur], dhcp.unit).address,
                           LastWord(Files[cur], dhcp.unit, "PoolOffset"),
                           LastWord(Files[cur], dhcp.unit, "PoolSize"))

(* A machine that stays as it is gets shown: in the end what the cockpit   *)
(* remembers is what the machine is, whichever screens were open and       *)
(* whatever loads they dropped (tickMsg, loadedMsg).                       *)
Settles(m) == screen \in CockpitScreens /\ ~busy /\ machine = m

RefreshConverges ==
    \A m \in Machines : <>[]Settles(m) => <>[](cur = m)
=============================================================================
