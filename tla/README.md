# A verification project for tui-router

tui-router is a terminal cockpit for a router: it shows the state of the links,
runs a wizard that assigns network roles to ports, and exports and restores a
backup of the whole configuration. Most of the program reads. The parts that
change the machine are few, run as root, and can lock the operator out of the
machine they are typing on; those parts, and the loop that drives them, are what
this project models, checks and proves about.

Paths below are relative to the repository (`cmd/...`, `internal/...`).

## 1. The system and its parts

| component | state it keeps | operations | status |
|---|---|---|---|
| roles wizard (`cmd/tui-router/wizard.go`) | step, waiting, previous and new content, result, cancel question | keys, and the four messages of its commands | modelled |
| role manager (`internal/router/roles_real.go`, `roles.go`) | roles.conf, roles.conf.prev, two staging files, the transient systemd timer and service | NicsPreview, WriteRoles, ApplyRoles, CancelRevert | modelled |
| cockpit loop (`cmd/tui-router/app.go`) | snapshot, open screen, busy and loading flags, loads in flight, the refresh tick | loads, key and message routing, tool launch, power | modelled |
| restore engine (`cmd/tui-router/backupcmd.go`, `internal/router/backup_real.go`) | the config files, the services that have read them, the live ruleset, the context, the keep window | applyRestore, runReloads, applyNftables | modelled |
| restore command (`cmd/tui-router/backupcmd.go`) | options, the operator's answers | runRestore | modelled |
| keep session (`internal/backup/staging.go`) | phase, payloads, timer | Arm, Commit, Rollback, fire | the phases the restore drives; no caller arms the timer's callback |
| backup screen (`cmd/tui-router/backupscreen.go`) | step, plan, result, two keep channels per screen | keys, messages, the engine and the reads in goroutines | modelled |
| restore preview (`internal/backup/preview.go`) | none | Diff, HasChanges | modelled, without accounts and the text |
| artifact (`internal/backup/assemble.go`, `open.go`, `sign.go`, `sanitize.go`, `wireguard.go`) | none | collect, Assemble, Open, strip of key material | modelled, without accounts and the byte formats |
| roles.conf functions (`internal/router/roles.go`, `backup.go`) | none | parse, validate, render, the line diff; the wizard's selection | modelled |
| probe caches (`internal/router/tailnet_real.go`, `updates_real.go`) | cached answer, time, mutex, each | get or probe | modelled |
| DHCP reading (`internal/router/networkd.go`, `real.go`) | none | units and drop-ins, pool range, leases | modelled |
| power actions, tool launch (`cmd/tui-router/power.go`, `internal/router/launch.go`) | the dialog, the process | confirm, run; hand the terminal over | modelled in the loop |
| the other snapshot readers, cards, views | none | parse and print | not modelled: they read and print |
| export command, check, report, compat, demo backend | none | one read, one print or one file | not modelled but for what an export packs: no state of their own |

How they interact. The cockpit is one Bubble Tea event loop. A screen handles a
key or a message to the end, and starts commands that run in goroutines of their
own and come back as messages. The app routes a message to whichever screen is
open when it arrives, not to the one that asked. The role manager and the engine
run external commands through an escalation tool, each bounded by a context. Two
things outlive the process: files, and the transient systemd unit that reverts a
roles assignment. Loads of a snapshot run beside each other and meet at the two
probe caches; an open wizard or backup screen swallows what they bring.

What is hard here:

* **Interleaving.** A command goroutine survives the screen that started it
  (ctrl+c closes a screen at any time), so its remaining commands and its message
  meet a later screen.
* **Time.** The 120-second revert, the 60-second context of a wizard command, the
  60-second context of a restore and its 60-second keep window all run at once.
* **Partial failure.** Every operation is a sequence of privileged commands, any
  of which can fail, and nothing undoes the earlier ones.
* **Crash.** The operator's own session may be cut by what is being applied.
* **Swallowed messages.** A screen takes every message of the loop, so what the
  cockpit waits for (a load, a tick, the end of a command) can be lost on it.
* **Stale state.** The previous assignment is read from the snapshot of the last
  load; the revert copy has one fixed path.

What makes each part correct:

* wizard and role manager: the mapping is never rewritten unless a revert to the
  previous assignment is armed; the revert never runs during an apply; it restores
  the file that was found; a cancel that is reported is a cancel that took; only a validated
  assignment is written; the keyboard comes back after every command; a session
  that is cut off gets its assignment back.
* restore: what the command reports is what it did; the ruleset is tried last;
  it is kept or goes back to exactly what it replaced; an error does not move it;
  silence rolls it back; the command ends.
* backup screen: a ruleset is kept only by an answer to its own question; what
  nobody confirmed goes back; the screen says what happened, and never waits for
  nothing.
* configuration files: a write keeps the assignments it does not know; a diff shows the
  whole change; an artifact that opens is the one that was exported; a restore that
  is repeated settles; a restore onto other ports is agreed to.

* cockpit: it is never deaf or loading for nothing; a machine that stays as it is
  ends up shown; the DHCP pool it shows is the one the unit and its drop-ins give.
* probe caches: one probe at a time and one in a period, and loads that queue for
  it still end.

`PROJECT.json` lists every hazard at its line, with the properties that watch it.

## 2. Modules

| module | models | used by |
|---|---|---|
| `RolesHost` | what is on the machine: roles.conf, its copy, the mapping that is live, the systemd units | `RoleManager` |
| `RoleManager` | the four calls, one action per command they run, as concurrent jobs | `RolesWizard` |
| `RolesWizard` | the wizard and the app around it | the wizard runs |
| `MCRolesWizard` | symmetry of job slots | `wizard_overlap` |
| `RolesWizardProofs` | theorems about `RolesWizard` | |
| `CommitConfirmed` | abstract: a value is tried, then kept or taken back | `RestoreCommand` |
| `RestoreEngine` | applyRestore, for any number of concurrent runs | `RestoreCommand`, `BackupScreen` |
| `RestoreEngineProofs` | lemmas about the engine's steps | the two modules of theorems over it |
| `RestoreCommand` | runRestore over one run of the engine | the restore runs |
| `RestoreCommandProofs` | theorems about `RestoreCommand` | |
| `BackupScreen` | the screen and the app around it, over any number of runs of the engine | `MCBackupScreen` |
| `BackupScreenProofs` | theorems about `BackupScreen` | |
| `MCBackupScreen` | the sets of parts an artifact carries in the runs | the backup runs |
| `RolesConf` | roles.conf as a text: parse, render, and what a restore makes of it | `Artifact` |
| `UnifiedDiff` | the line diff of the wizard | `RouterConfig` |
| `Artifact` | what an artifact holds, when it opens, and the preview | `RouterConfig` |
| `TextProofs` | lemmas about sequences of any length, and the theorem about the diff | `RouterConfigProofs`, `CockpitProofs` |
| `RouterConfig` | the life of the files: wizard, export, damage, another machine, restore | `MCRouterConfig` |
| `RouterConfigProofs` | theorems about `RouterConfig` | |
| `MCRouterConfig` | the machines of the run | `router_config` |
| `DhcpPool` | the pool arithmetic, over addresses of any width | `NetworkdDHCP` |
| `NetworkdDHCP` | the DHCP reading of a snapshot: units, drop-ins, leases, packages | `Cockpit` |
| `Cockpit` | the event loop: tick, loads, screens, hand-off, power | `MCCockpit` |
| `MCCockpit` | the machines of the run | `cockpit` |
| `CockpitProofs` | theorems about `Cockpit`, the DHCP reading and the pool | |
| `ProbeCaches` | the two caches under concurrent loads, with time | `MCProbeCaches` |
| `MCProbeCaches` | the timeouts and periods of the run | `probe_caches` |
| `ProbeCachesProofs` | theorems about `ProbeCaches` | |

### The wizard

`RolesHost` keeps four things. `conf` and `prevConf` are the two files, as the
content they hold: one of `Assignments` (what RenderRolesConf can produce, which
always has a WAN and a LAN) or `Empty` (absent). `live` is the content
omarchy-router-nics last applied. `unit` is the revert's timer and service: its
phase, the ticks left, and two history fields, the content the arming apply was
given as previous (`from`) and the mapping that was live (`was`). systemd is
external: it refuses a name that is loaded (`CanArm`), unloads a service that
succeeded, keeps one that failed, and reports "not loaded" to a stop that comes
too late, which the code treats as success. Nothing relates the three contents at the
start: roles.conf may have been edited by hand or written and not applied (`n` at the
second confirm), and the copy is an earlier session's. A copy that does not come to its
end, of an install or of the revert, leaves the old file, an empty one or the new one
(`CutShort`).

`RoleManager` runs a call as a *job*. Each command of the call is an action
(`Preview`, `Stage`, `Install`, `Arm`, `NicsApply`) with a branch that fails; a failure
ends the job. A failed apply may or may not have rewritten the mapping, a failed write or
install may have damaged its file. The one `systemctl stop` of a cancel is two actions,
`StopService` and `StopTimer`, since it stops the two units one after the other and the
timer runs on in between. The staging files have fixed names, so the install copies whatever
is in them. `Tick` takes a tick from every running job's context and from the
armed timer; a job with no time left has to end before time goes on, which is
the whole content of `wizardTimeout`.

`RolesWizard` has one action per key and per message. `Deliver` hands a job's
message to whichever wizard is open. `LoadReads` and `LoadArrives` are the
cockpit's loads, which overlap and finish out of order; a load that arrives while
the wizard is open is dropped, as in app.go. `Hangup` and `Reboot` end the process
or the machine.

### The restore

`RestoreEngine` keeps a version of every file (`disk`), what each service has
read (`running`), the `ruleset`, and the runs. The tables `Rank`, `Needs`, `Uses`
and `Serves` are the order of writing, and the reload plan: what calls for a
reload, the binary it needs and the service it makes read its file. `todo` is
what the current loop has left. A command whose context has ended is not run
and is an error, but for the reading of the machine, which returns none: a ruleset that
could not be read counts as an empty one (`HasChanges`). A file a failed tee was writing may be `Torn`; a `wg-quick down`
that fails is tolerated; accounts are best effort; a failed reload is remembered
and the remaining ones run. An error of `nft -f` is a transaction that was not
committed.

`RestoreCommand` adds what runRestore does around it: opening the artifact before
the context is made, reading and comparing, the hardware question, the apply
question, and the keep answer from the terminal or from `--keep`.

`CommitConfirmed` is the contract in the comments of staging.go: try a value with
the old one as the fallback; keep, or take exactly that one back. `RestoreCommand`
implements it with `current <- ruleset` and `fallback <- ` the snapshot while the
session is awaiting.

### The backup screen

`BackupScreen` has one action per key and one handler, `Handled`, for the
messages, which as in the code does not look at the step the screen is on. A read
or a write in flight is a `command`; a restore is a run of the engine, with the
screen that started it as `owner`. Messages queue in `inbox` in the order they were
sent, and `Deliver` gives each to the screen that is open by then. The keep
question crosses two channels of capacity one that belong to the screen that
started the run: `ask` holds at most one signal, which `WaiterWakes` turns into a
message, and `answer` at most one key, the second one dropped. `EngineMoves` is a
step of `RestoreEngine` that also signals `ask` when the keep callback begins;
`TakeAnswer` and `KeepTimesOut` are its two ends. `Leave` closes the screen and
stops nothing. `confirmed` is history: the runs at their question when `k` was
pressed.

### The files and the artifact

`RolesConf` keeps roles.conf as a sequence of lines, each a key with the fields of
its value. What the properties tell apart is kept: the plural and the singular
variables, repeated keys, MACs in upper case, fields that are no name, lines the
parser does not know, and lines a restore refuses. Quoting and the shapes of names
are not: a field is valid or it is not.

`Artifact` keeps any other text as lines of a word and what follows it (nothing,
white space, a carriage return, a control character), which is all that trimming,
sanitizing and normalizing look at. `KeyLines` are the words StripWireguard takes for a
key, the lines whose token before the `=` is PrivateKey or PresharedKey; any other word,
a commented-out key among them, stays. A hash is the text it is of, so two
texts never share one. `Assemble` builds the manifest, the checksum file and the
signature with exactly the coverage they have in the code: the checksum file
covers the manifest and the parts, the manifest lists the parts' hashes again, and
the signature covers the checksum file alone. `Opens` is the conjunction of the
checks of Open. gzip, tar, names and size bounds are one condition, `Unpacks`.

`RouterConfig` composes them. The wizard's rows are seeded from the file, edited,
diffed and written; `Export` packs the files; `Damage` alters or loses one of the
artifact's files in every way the checks distinguish; `TakeTo` brings it to a
machine; `OpenArtifact` and `Restore` follow runRestore. How commands fail and what
becomes of the ruleset is the engine's business: here a restore writes any set of
items that respects the order of applyRestore. The two levels meet at the files:
`RolesWizard`'s `Assignments` are the texts `BuildPreview` lets through, and the
engine's versions are the texts `Restore` writes.

### The cockpit

`Cockpit` is the loop of app.go seen from outside the screens: `screen` is what has
the keyboard, and a wizard or a backup screen is only open or closed (what happens in
one is in the modules above). `busy`, `loading` and `cur` are the app's fields.
`process` follows the one hand-off or power command there can be, from the key that
starts it to the message that ends it: `handed` is a `tea.Exec` on its way to the
loop, which stops the loop while the tool is `running`; `powering` is a goroutine. A
load is `started` and then `sent`; between the two, `LoadReads` takes the whole
machine in one step. `LoadArrives`, `Launched` and `PowerDone` are dropped exactly
where the switch at the top of Update gives them to a screen; the power dialog lets
loads and `powerDoneMsg` through and keeps the rest. `TickArrives` always asks for
the next tick.

A snapshot is named by the state of the machine it was read in, and what it says is
worked out from there by `NetworkdDHCP`: which units are claimed, read and servers,
with every assignment of the unit and its drop-ins folded in order (`Folded`, `Apply`),
and the pool of `DhcpPool`. A file is its sequence of assignments (`HasFiles`).
`LastWord` says the same of a key without folding and without putting files together:
the first of the search directories whose drop-ins assign the key has the last word,
with the last of those files and the last assignment in it; the unit has it when no
drop-in does. It is what `PoolIsServed` holds the reading against.

`ProbeCaches` counts the time of every load. A load that comes to a cache waits for its
lock without looking at its context (`Locks`), finds a fresh reading (`Hit`) or asks the
tool under the lock (`Miss`, `ProbeEnds`). `Overdue` names what cannot outlive a tick:
reads and tools past their time, and a load at a free lock.

## 3. What the runs check

Runs that pass:

* **wizard_session**: one wizard, one job at a time, two assignments, any file, mapping
  and copy to begin with, every command failing or not, the session cut at any point.
  `ApplyRunsGuarded`, `CancelledMeansDisarmed`, `WritesAreRendered`, `RevertRestoresFound`
  (whatever the file and the mapping were, a pending revert restores that file and was
  armed over that mapping), and under fairness `WizardAnswers` and `CutOffIsReverted`. This
  is the program used as its documentation describes it; the guard, source and write
  properties do not survive a second wizard, which the violation runs below show for two
  of them. `CancelledMeansDisarmed` is about the timer alone: a revert whose timer elapsed
  between the two stops of the cancel may still be running, see below.
* **wizard_overlap**: two wizards, two jobs, stale messages, hangups and reboots.
  What still holds: `RevertNeverRacesApply` and `WaitingHasJob`.
* **restore_command**: every subset of the nine parts, every combination of
  `--dry-run`, `--keep` and the hardware warning, every command failing, the context ending and the
  process dying at any point. `SuccessMeansRestored`, `ErrorKeepsRuleset`,
  `RulesetComesLast`, `CommitsOrReverts`, and under fairness `RestoreEnds`.

* **backup_screen**: two screens one after the other, four sets of parts, every
  read and command failing, the process ending at any point, and the jobs of a
  closed screen still running under the next. `KeptMeansConfirmed`,
  `UnconfirmedIsRolledBack`, `ScreenHasJob`, `DoneTellsRuleset`, and under fairness
  `ScreenAnswers` and `RestoresEnd`. `ScreenHasJob` and `DoneTellsRuleset` are about the
  first screen (`FirstScreen`): the keep question a second one shows can be another
  screen's and its result another restore's. One restore at a time; `backup_crossed`
  shows what two at a time do. `KeptMeansConfirmed` is about one restore as well, and its
  comment says what a second one can do to it.
* **router_config**: five machines on two kinds of hardware, one session of the
  wizard with every selection of two ports, an export signed or not, at most one
  damage, any machine to restore on, and a restore that writes all or stops
  anywhere. `SavedIsShown`, `RerunKeepsAssignment`, `DiffShowsTheChange`,
  `OpenedIsExported`, `ExportRoundTrips`, `RestoreIsFixedPoint`,
  `AbsentPortsWereAgreed`, `UnchangedIsLeft`.
* **cockpit**: five machines that change into each other at any time, two loads, every
  key of the cockpit, tools that fail, end or do not. `BusyHasProcess`,
  `LoadingHasLoad`, `PoolIsServed`, and under fairness `RefreshConverges`: if from some
  time on the machine stays as it is and no screen is open and no command runs, what
  is shown is what the machine is, whatever overtook what before.
* **probe_caches**: three loads at the two caches, tools that answer at any time up to
  their timeout. `LoadsEndInTime`, whose bound is reached, and `ProbesApart`.

Runs in which a statement of the repository is violated; `PROJECT.json` quotes the
line under "findings":

* **wizard_prev_overwritten**: a second apply replaces the copy a pending revert
  will restore, with the assignment it found or, when its install fails, with anything.
* **wizard_cancel_too_late**: a cancel that meets the revert running, or comes after it, is
  reported as a permanent new assignment. In the shortest trace it stops the copy half way.
* **wizard_stale_preview**: a closed wizard's preview message takes the next one to
  the write confirm with nothing rendered, and `y` installs an empty file.
* **restore_silence**: the rollback of a keep window that timed out runs under a context
  that has ended, and does not run.
* **backup_crossed**: two restores nobody confirms roll back over each other and leave
  an unconfirmed ruleset live.

More places where the code is narrower than its comments, seen while modelling and not
made into runs:

* `roles.go:229-230` says that after the stop of both units the revert "neither fires later
  nor keeps running now". The timer is stopped last, and one that elapses between the two
  stops leaves a revert running under a reported cancel. `CancelledMeansDisarmed` is
  therefore about the timer; with "and no revert is running" TLC finds that trace.
* `README.md:77-79` says the previous assignment is restored and re-applied. What is
  restored is roles.conf as it was found. When that file had not been applied (`n` at the
  second confirm of an earlier session, or an edit by hand), the revert applies it for the
  first time, and the router does not come back on the mapping it had.
  `RevertRestoresFound` says so: file and mapping are two things there.
* The answer to a keep question goes into the channel of the screen that is open
  (`backupscreen.go:323-331`), also when the question was another restore's. With two
  restores `KeptMeansConfirmed` fails, in 28 steps: the "opened" message of a closed screen
  reaches its successor while that one asks about a restore, and takes it to a plan; a second
  restore is started from there; and the `k` pressed at the question of one run is taken by
  the other, which keeps a ruleset nobody was asked about. The property is stated of one
  restore (`OneRestore`) for that
  reason.
* `roles.go:55-57` says a render never drops "anything an operator added by hand".
  ParseRolesConf skips comments and blank lines (`roles.go:98-101`), so neither the wizard's
  write nor a restore keeps them. `SavedIsShown` is about the other lines.
* `wireguard.go:21-23` says that no secret byte survives. A line is recognised by its
  token, so a key that is commented out (`#PrivateKey = ...`) travels. No property is about
  this: which lines go and which stay is the definition of StripWireguard.
* `preview.go:13` says of an unchanged item that there is nothing to apply. applyRestore
  writes it all the same. roles.conf, which is compared in its canonical form, is rewritten
  in that form and loses its comments; a tunnel, which is compared without its key material,
  loses its key on the very machine the artifact came from. `UnchangedIsLeft` is about what
  an item means (`Meaning`), and leaves both out by name; without that TLC finds the loss at
  once.
* `safeRolesExtra` (`backup.go:101-112`) looks for special characters in the value of an
  unknown line, and a line with a second word after an unquoted value passes. The model has
  two classes of unknown lines, those it accepts and those it refuses, and no property about
  where the line between them runs.
* `tailnet_real.go:21` and `updates_real.go:21` bound one probe, and `app.go:91` a load,
  at 20, 25 and 30 seconds. A load waits for a lock without looking at its context, so it
  can last 75 seconds, which is the bound of `LoadsEndInTime`; and a load that got to
  its probe late gives the tool less than its timeout, whose failure is then remembered
  for the whole period.
* A snapshot carries the time at which its reads began (`real.go:130`), not that of its
  counters, so a rate is over an interval that may be shorter than the true one.
* `real.go:327` calls the order of drop-ins by directory networkd's own. The model
  follows the code; what networkd does is outside the repository.
* The first field of an `Address=` decides whether it counts (`networkd.go:312`), and the
  whole value is parsed later (`networkd.go:93`): a value with something after the address
  is taken and then hides the unit (`alone` in `DhcpPool`; the `stopped` machine has one).

* `wizard.go:105-107` says that re-running the wizard edits. It does for ports that are
  present and listed once, which is the precondition of `RerunKeepsAssignment`
  (`ListedOnce`); an absent port and the second role of a one-armed port, which
  `roles.go:38-40` calls legal, are lost.
* `preview.go:59` says HasChanges reports whether the restore would write anything.
  A unit only the machine has makes it true and nothing is written for it, which is why
  `RestoreIsFixedPoint` allows `remove`.
* A part with a control character in it is previewed as replaced on the very
  machine it was exported from; `ExportRoundTrips` leaves such parts out
  (`HasControl`), and `RestoreIsFixedPoint` shows that one restore settles them.

### Bounds

A tick is 60 seconds. `RevertDelay` = 2 and `WizardTimeout` = 1 are the code's 120
and 60 seconds; the restore's `CtxTimeout` = 1 and `KeepTimeout` = 1 are its 60 and
60. The checked behaviours depend on which of two intervals ends first and on
whether both may end together; both cases occur. Two assignments plus the empty
content tell a previous from a new one and from a stale one; one is enough where
a run only asks about exclusion. The screen's context is 5 minutes to the window's
60 seconds; the backup runs take `CtxTimeout` = 2 to `KeepTimeout` = 1, which keeps the
order of the two and still lets the context end inside the window when the writes
were slow. Two wizards and two jobs are the smallest number at
which a message or a command meets a wizard that did not ask for it. One load
in flight beside the current snapshot gives every stale snapshot. `Artifacts`
holds one that differs from the machine and one that was exported from it, and
all subsets of parts are taken. `HasSystemdRun` is TRUE in the runs: with FALSE
there is no revert and only the theorems say something. Nobody else writes roles.conf
during a session of the wizard: it may be anything when the session begins, and an edit
by hand after that is not modelled. `MaxOpens` and `MaxLoads`
bound the operator and the loads, and the action guards name them. Two screens and
two runs are the smallest number at which a question meets a screen that did not
ask it; `backup_screen` has the two screens and all the faults of the engine with one
run, `backup_crossed` two runs and no fault, since there it is the order of things that
is in question. In `router_config` the
machines are chosen by hand so that each special form of a line or of a text is in
one of them and every kind of change occurs between two of them; `MaxEdits` = 1
session of the wizard, before the export, reaches every selection of two ports, and
one damage is what a checksum is for: an alteration that is consistent over several files,
which only a signature can tell, is outside the run and the theorem. In `cockpit` an address has 5 bits, which leaves
every prefix length with and without room for a pool; the machines hold every rule of
the reading (a unit that is hidden, unreadable, off, a template, or two servers;
drop-ins that disagree), and two slots let a load overtake another. A load is not
started while both slots are taken; the code has no such bound. In
`probe_caches` a tick is 10 seconds: the context is 3, the tools' timeouts 2 and 3 (20
and 25 seconds rounded up), the first period 6 and the second 8 for the code's 30, which is
long enough that a probe never finds its own reading old. Three loads let two queue
behind one.

### Fairness

`RouterConfig` and `ProbeCaches` have only safety properties. Elsewhere: weak fairness of each goroutine, of message delivery, of the systemd service and
of time: the Go scheduler, Bubble Tea and systemd run what is runnable. Nothing is
assumed of the operator: no key is fair, `OpenArtifact` and the answers to questions
are not fair, and no tool that was handed the terminal has to end. Timers of the cockpit
fire and its loop takes what it is sent; `RefreshConverges` assumes a machine that stays
as it is in its statement, not as fairness. Deadlock is checked in every run: a wizard, a screen or
a command never stops where it cannot go on. (the action `Cockpit` in `BackupScreen` is the
operator doing something else with no screen open.)

## 4. What is proved

By TLAPS, for all values of the constants that satisfy the named assumptions. Every
invariant and every action property a passing run checks is stated by a theorem, some of them under a
condition that is named there; what is left to the runs is liveness. The inductive invariants were checked by TLC on the
constants of the runs before they were proved.

### The wizard (`RolesWizardProofs`)

Assumptions: `WizardTimeout < RevertDelay` (`JobAssumption`), and that `Empty` is no
assignment.

* `WizardTyped`: the types.
* `RevertNeverRaces`: the revert never runs during an apply, for any number of
  jobs and wizards. The property is not inductive: a timer about to fire during an
  apply is a state with no bad step before it. The invariant that carries it says
  that whenever a job that armed the timer is at the apply, the timer is armed and
  has more ticks left than the job's context (`RaceInv`); every tick takes one from
  both.
* `WizardNeverStuck`: a wizard that ignores the keyboard has a job of its own.
  Stale messages can only clear the waiting flag, never set it, and a job's slot is
  freed only by the delivery that clears it (`WaitInv`).
* `FirstApplyGuarded`, `FirstCancelDisarms`: the guarded apply and the cancel, as long as
  one wizard has been opened (`opens <= 1`). The condition cannot go:
  `wizard_prev_overwritten` is a second wizard. It is the operator's side of the contract,
  and nothing else is bounded: any assignments, slots, loads, delays, failures and a cut at
  any point, over any file, mapping and copy to begin with.
* `FirstRevertRestores`: for every content of roles.conf and every mapping that is live at
  the start, a pending revert restores that file and was armed over that mapping, where the
  wizard is opened at most once (`MaxOpens <= 1`).
* `SessionInv` carries the three. It has the file and the mapping of the start as
  parameters, and some such pair always fits (`SomeSession`). One call runs at a time and is
  the one its step waits for (`Alone`, `ScreenFits`); `JobFits` says what each call has done
  to the machine by the command it is at; and until the wizard writes, every load reads the
  file of the start (`Fresh`), so that what it is opened with is that file, applied or not.
  `Restores` says of a unit that is pending that its copy is that file.
* `OneWizardWritesRendered`: the action property, from the same invariant, where
  `MaxOpens <= 1`.

### The restore (`RestoreEngineProofs`, `RestoreCommandProofs`)

Assumptions: the timeouts are naturals (`EngineAssumption`), and `NoFallback` is no
version (`CommandAssumption`).

* `CommandTyped`: the types.
* `ErrorsKeepRuleset`: an error leaves the ruleset. `RulesetInv` says where in the
  run the ruleset may differ from the first one, and that the snapshot is that
  one; `UntouchedInv` that nothing is written before the last question.
* `RestoreIsCommitConfirmed`: the refinement of `CommitConfirmed`, step by step,
  from the same invariant.
* `RestoredMeansRestored`, `RulesetIsLast`: a restore that says it restored did, and the
  ruleset is tried after everything else. `OrderInv` says how far the run is at each
  stage: what the write loop is done with is on the disk (`WrittenSoFar`), what the
  reload loop is done with has read it (`ReadSoFar`), unless a reload failed, which
  `badReload` remembers. A tunnel counts as read when it is up, so that the loop is
  never between its two halves with the second one forgotten.

### The backup screen (`BackupScreenProofs`)

* `ScreenTyped`: the types, for any number of screens, commands and runs at once.
* `KeptWasConfirmed`, `UnconfirmedIsTakenBack`: while one restore has been started
  (`OneRestore`), whichever screen started it and however many were opened, closed and
  answered around it, what was kept was confirmed and what was not went back.
  `backup_crossed` is why `OneRestore` is there: with two restores the second is false.
  `AnswersStand` carries the first: there is no question, signal or answer anywhere
  (on the screen, in a channel, in the inbox) before the run is at its keep question, so
  that an answer it can still take was given to it.
* `OneRestoreIsCommitConfirmed`: such a restore implements `CommitConfirmed` step by
  step, as the command does, with the same mapping (`Guard`, `Fallback`); whoever answers
  its question, on whichever screen, the ruleset is only tried over a snapshot of the one it
  replaces, and goes back to exactly that or stays. `AwaitInv` says when a session awaits,
  for any number of runs, and `Guarded` is what every step of the screen is to the runs:
  one of the contract's three steps of one run, or none. `OneRestore` is only needed at the
  end, where the snapshot has to be the ruleset it is tried over: of two restores the
  second can snapshot what the first is only trying, which is how `backup_crossed` ends. It
  is stated of the steps and is no property of a run.
* `FirstScreenHasJob`, `FirstResultIsTrue`: the screen never waits for nothing, and its
  result tells where the ruleset is. `FirstInv` lists what can be in flight for the first
  screen: nothing (`Resting`), one read or write (`Reading`), or a restore (`Restoring`), for
  which `Hears` gives every arrangement of the signal, the waiter, the two messages
  and the answer that can occur. Assumption: `KeepTimeout > 0`. With an empty window the
  verdict may overtake the question, which is why it is needed; the code's is 60 seconds.

### The files (`TextProofs`, `RouterConfigProofs`)

Assumptions: what the code's regular expressions and constants say of words. A MAC is
in lower case once it has been lowered (`RolesAssumption`); the line a stripped key leaves is
no key and is not blank (`ArtifactAssumption`); a port has a name, files are texts
of the known subsystems (`ConfigAssumption`). Machines, ports,
texts and lines are otherwise any, and any number.

* `ConfigTyped`: the types.
* `OpenedWasExported`: after any one damage and with any key, what opens reads back as
  what was exported. `Faithful` is the part of `ArchiveStands` that carries it: it says of
  the files on their way that *whoever* opens them refuses them or reads the sources. It is
  shown for each place a damage can strike, from which file covers which.
* `SavedWasShown`: what was rendered parses to what was rendered (`ParseRendered`), over any
  number of ports and of other lines; comments are no part of what is rendered. `ScreenStands` says that what the preview showed is what
  the rows still say when it is written.
* `RerunStartsFromFile`: the rows of a wizard opened on a file give back the file's own
  assignment, when the file lists every port once.
* `ExportComesBack`, `RestoreIsIdempotent`, `UnchangedStays`: what a preview says after an
  export, after a full restore and of an item it leaves alone. They rest on lemmas about
  the texts: a preview sees no difference between a text and what trimming,
  sanitizing (`TrimmedSaysTheSame`, `SanitizedSaysTheSame`) make of it, and
  canonical roles.conf and stripped tunnels stay as they are when that is done twice
  (`SafeTwice`, `GatheredTwice`). For roles.conf `UnchangedStays` says that it parses to the
  same, since its canonical form does (`SafeTwice`); for a tunnel it needs that what the
  artifact carries was stripped (`TunnelsStripped`).
* `AbsentPortsNeedConsent`: what a restore wrote of roles.conf was agreed to if it names
  an absent port (`RestoreStands`).
* `DiffTellsTheChange`, `DiffWasTheChange`: the diff of two texts of any lengths, over any
  kind of line, reads as the old one without its added lines and as the new one without
  its removed ones, and keeps as many lines as a longest common subsequence has; so the
  one the wizard shows does. The proof has two halves, both by induction over the corners
  of the table, from the last one to the first (`CornerInduction`). The table counts
  (`CountsLongestCommon`): what two texts share is a pair of increasing functions into
  their places (`Climbs`, `Share`); where the next two lines are equal the longest share is
  one more than that of what follows (`ShareOn`, `ShareLess`), and where they differ a share
  leaves one of them out (`ShareEither`). The walk tells (`WalkTells`): from each corner it
  writes what is left of both texts and keeps as many lines as the table says there.

The texts need induction over the length of a sequence. The library's theorems of
induction take an operator and cannot be used; `TextProofs` states induction over the
*set* of what has been shown (`NumberInduction`, `SequenceInduction`, `CornerInduction`),
from `WFMin`, and works out from it what the recursive function in `FlattenSeq`
computes. Filtering and rewriting the lines of a text are one pattern, a text that is
put together from what becomes of each line (`Pieces`, `Gathered`), and most of the
lemmas are instances of it. What does not depend on the lines being those of a router
is in `TextProofs`, which the DHCP reading uses too.

A recursive function, such as the table, is a CHOOSE: that there is a function which
satisfies its equations has to be shown first (`CountExists`, `WalkExists`, `ReadExists`), by
building it from tables that are right up to a given place.

### The cockpit and the caches (`CockpitProofs`, `ProbeCachesProofs`)

* `CockpitTyped`, `BusyEnds`, `LoadingEnds`: the types, `BusyHasProcess` and
  `LoadingHasLoad`, for any machines and any number of loads. The three are inductive
  together: a screen can only open while the cockpit is not busy, so that the message that
  clears the flag meets none, and whoever closes a screen starts a load.
* `PoolLiesInSubnet`: a pool lies strictly inside its subnet and the addition of
  addresses does not wrap, for addresses of any width. Assumption: the addresses of a
  prefix length tile all of them (`BlockAssumption`); everything else is arithmetic of
  one division.
* `PoolWasServed`: the pool that is shown is the one of the keys assigned last, for any
  number of drop-ins in each of the four directories, with any number of assignments. Assumption: the
  machines have files, sequences of assignments of the kinds the parser tells apart
  (`FilesAssumption`). `NumbersAreLast` is the argument: the fold remembers of each key what
  was assigned to it last (`UnitIsTold`, by induction over the assignments); of two texts
  one after the other the second has the last word unless it says nothing
  (`ToldJoin`), and so of any number of them the last that says something (`ToldFlat`), which
  is used for the files of a directory and again for the directories. Reading
  them in the reverse of the search order makes the last word that of the first directory of
  the search order (`DropinsTold`). The unit the reading takes is one of the machine's
  (`FirstPathIn`, `PoolComesFromUnit`), and `PoolLiesInSubnet` does the rest.
* `CachesTyped`, `LoadsEnd`, `ProbesKeptApart`, for any loads, timeouts and periods that
  are not empty (`CacheAssumption`). `LoadsEndInTime` is carried by `AgeInv`: a load that
  waits behind a probe has no more to wait than what is left of it, and where nobody probes
  and the reading is old it came no later than its context (`Waits`). `ProbesApart` is
  carried by `CalmInv`, the stamp is as old as the end of the last probe, and
  `LockInv`, who probes holds the lock.

### Only model-checked

* Liveness under fairness (`WizardAnswers`, `CutOffIsReverted`, `RestoreEnds`,
  `ScreenAnswers`, `RestoresEnd`, `RefreshConverges`): the installed provers know neither
  fairness nor ENABLED.
* The violation runs, and with them what happens with two wizards or two restores at
  a time beyond what the theorems above state of any number.

## 5. What is left out, and why

* Wording, layout, colours, logging, and the text of previews.
* The choice of ports in `RolesWizard`: what matters to the commands is the content
  it renders. The choice itself is in `RouterConfig`.
* Accounts in `Artifact`: a real export carries none. `RestoreEngine` has their step.
* The key reference of a tunnel (`KeyRef`), which is packed and read back and used
  nowhere.
* The path typed on the backup screen.
* One networkd unit, one tunnel and one account stand for all of them: the loops over
  them have no step that depends on another item of the same loop.
* The timer, the callback and the lock of the keep session: its one caller arms it with a nil
  callback, so no behaviour of the program is in them.
* The rates of the traffic card: each is one subtraction and one division behind one
  comparison, which a property could only restate.
* The readings other than DHCP: one command and one parser each. `Read` returns no error,
  so a load that fails is not a step of the model, and its readings are taken in one
  step. A directory that cannot be listed is one without files.
* A cockpit whose backend has no roles, backup or power: the real one has all three.
* systemd, nft, omarchy-router-nics and the escalation tool are modelled from how
  the code drives them and are marked external.
* A command killed by the end of its context that had already done its work: the
  model takes an error of `nft -f` for an uncommitted transaction.

## 6. Plan

The modules came in this order, the most important behaviour first: the wizard and
its revert, the restore engine and its command, the backup screen over the same
engine, the files and the artifact, the cockpit loop with its DHCP reading, the probe
caches. The proofs followed in the order of the invariants they carry: exclusion, types
and the restore's ruleset; then the session of one wizard, the order of the restore, the
backup screen, the files, the diff and the DHCP reading, and the contract of the ruleset
on the screen. What is left is beyond the provers that are installed, the liveness
properties, or beyond the model: the parts listed in section 5, and more than one
unit, tunnel or account at a time.
