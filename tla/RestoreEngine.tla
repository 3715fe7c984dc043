---------------------------- MODULE RestoreEngine ----------------------------
(***************************************************************************)
(* applyRestore, the one apply engine of the restore command and of the    *)
(* backup screen (cmd/tui-router/backupcmd.go), with the machine it writes *)
(* to.  A run is one call of it.  It writes the config files the artifact  *)
(* carries in a fixed order, reloads the services that read them, and      *)
(* last tries the nftables ruleset under a keep-or-roll-back window.  All  *)
(* of it runs under one context, which the caller made earlier and which   *)
(* ends CtxTimeout ticks after that: a command under an ended context is   *)
(* not run and is an error.                                                *)
(***************************************************************************)
EXTENDS Naturals

CONSTANTS
    Runs,         \* the calls of applyRestore
    Artifacts,    \* the artifacts restored, each a version of every part
    Before,       \* the version of every part the machine starts with; an
                  \* artifact exported from it is that version too
    Torn,         \* a config file a failed tee left half written
    Down,         \* a tunnel taken down and not brought up again
    Installed,    \* the binaries of the reload commands on the machine
    CtxTimeout,   \* ticks a run's context lasts
    KeepTimeout,  \* ticks the keep window lasts
    Faults        \* what may fail: "command", "process"

ASSUME EngineAssumption ==
    /\ CtxTimeout \in Nat
    /\ KeepTimeout \in Nat
    /\ Faults \subseteq {"command", "process"}

(* One networkd unit, one tunnel and one account stand for all of them.    *)
Files == {"roles", "sysctl", "resolved", "firewall", "networkd", "dhcpdns",
          "wireguard", "accounts"}
Parts == Files \cup {"nftables"}
Services == {"networkd", "resolved", "dhcpdns", "sysctl", "wireguard"}
Reloads == {"networkctl", "restartResolved", "restartDnsmasq",
            "sysctlSystem", "wgDown", "wgUp"}

(* The order applyRestore writes in, then the order of ReloadPlan.         *)
Rank == [roles |-> 1, sysctl |-> 2, resolved |-> 3, firewall |-> 4,
         networkd |-> 5, dhcpdns |-> 6, wireguard |-> 7, accounts |-> 8,
         networkctl |-> 1, restartResolved |-> 2, restartDnsmasq |-> 3,
         sysctlSystem |-> 4, wgDown |-> 5, wgUp |-> 6]

(* What calls for a reload, the binaries it needs, and the service it      *)
(* makes read its config.                                                  *)
Needs == [networkctl |-> {"networkd", "roles"},
          restartResolved |-> {"resolved"}, restartDnsmasq |-> {"dhcpdns"},
          sysctlSystem |-> {"sysctl"},
          wgDown |-> {"wireguard"}, wgUp |-> {"wireguard"}]
Uses == [networkctl |-> {"networkctl"}, restartResolved |-> {"systemctl"},
         restartDnsmasq |-> {"systemctl", "dnsmasq"},
         sysctlSystem |-> {"sysctl"},
         wgDown |-> {"wg-quick"}, wgUp |-> {"wg-quick"}]
Serves == [networkctl |-> "networkd", restartResolved |-> "resolved",
           restartDnsmasq |-> "dhcpdns", sysctlSystem |-> "sysctl",
           wgDown |-> "wireguard", wgUp |-> "wireguard"]

Versions == Artifacts \cup {Before}

VARIABLES
    disk,     \* the version of each file
    running,  \* the version of its config each service has read
    ruleset,  \* the live nftables ruleset
    run       \* the runs

machineVars == <<disk, running, ruleset>>

Pcs == {"idle", "collect", "hardware", "confirm", "write", "reload",
        "snapshot", "apply", "keep", "rollback", "ended"}
Outcomes == {"none", "aborted", "failed", "restored", "kept", "rolledback",
             "stuck", "gone"}

(* todo is what the write or the reload loop has left; awaiting is the     *)
(* KeepSession's phase; ctx and window are what is left of the context and *)
(* of the keep window.                                                     *)
RunStates == [pc : Pcs, artifact : Versions, carried : SUBSET Parts,
              todo : SUBSET (Files \cup Reloads), badReload : BOOLEAN,
              ctx : 0 .. CtxTimeout, window : 0 .. KeepTimeout,
              snapshot : Versions, awaiting : BOOLEAN, outcome : Outcomes]

NotStarted == [pc |-> "idle", artifact |-> Before, carried |-> {},
               todo |-> {}, badReload |-> FALSE, ctx |-> 0, window |-> 0,
               snapshot |-> Before, awaiting |-> FALSE, outcome |-> "none"]

EngineTypeOK ==
    /\ disk \in [Files -> Versions \cup {Torn}]
    /\ running \in [Services -> Versions \cup {Torn, Down}]
    /\ ruleset \in Versions
    /\ run \in [Runs -> RunStates]

EngineInit ==
    /\ disk = [p \in Files |-> Before]
    /\ running = [s \in Services |-> Before]
    /\ ruleset = Before
    /\ run = [r \in Runs |-> NotStarted]

-----------------------------------------------------------------------------
(* A command runs while the context lasts, and may fail.                   *)
Succeeds(r) == run[r].ctx > 0
Errs(r) == "command" \in Faults \/ run[r].ctx = 0

Moves(r, pc, todo) ==
    run' = [run EXCEPT ![r] = [@ EXCEPT !.pc = pc, !.todo = todo]]

Done(r, step) == run' = [run EXCEPT ![r].todo = @ \ {step}]

Ends(r, outcome) ==
    run' = [run EXCEPT ![r] = [@ EXCEPT !.pc = "ended", !.outcome = outcome]]

(* step is the first one left.                                             *)
IsNext(r, step) ==
    /\ step \in run[r].todo
    /\ \A other \in run[r].todo : Rank[step] <= Rank[other]

(* The reloads the carried parts call for and the machine has the          *)
(* binaries of.                                                            *)
ReloadPlan(carried) ==
    {reload \in Reloads : /\ Needs[reload] \cap carried # {}
                         /\ Uses[reload] \subseteq Installed}

(* Diff and HasChanges: a part the artifact does not carry is left alone,  *)
(* but a networkd unit or a tunnel only the machine has counts as removed. *)
(* The machine has every part, whole or torn.                              *)
Differs(artifact, carried) ==
    \/ \E part \in carried :
         artifact # IF part = "nftables" THEN ruleset ELSE disk[part]
    \/ ~({"networkd", "wireguard"} \subseteq carried)

(* What the preview finds.  Reading the machine never fails: a ruleset     *)
(* that could not be read counts as an empty one (CollectSources).         *)
HasChanges(artifact, carried, read) ==
    Differs(artifact, carried) \/ (~read /\ "nftables" \in carried)

-----------------------------------------------------------------------------
(* WriteConfig of one file.  A failure ends the run, and a tee that failed *)
(* half way has truncated the file.                                        *)
WriteConfig(r, part) ==
    /\ run[r].pc = "write"
    /\ IsNext(r, part)
    /\ part # "accounts"
    /\ \/ /\ Succeeds(r)
          /\ disk' = [disk EXCEPT ![part] = run[r].artifact]
          /\ Done(r, part)
       \/ /\ Errs(r)
          /\ \/ UNCHANGED disk
             \/ Succeeds(r) /\ disk' = [disk EXCEPT ![part] = Torn]
          /\ Ends(r, "failed")
    /\ UNCHANGED <<running, ruleset>>

(* Accounts are best effort: what groupadd and useradd answer is ignored,  *)
(* only a missing useradd is an error.                                     *)
ApplyAccounts(r) ==
    /\ run[r].pc = "write"
    /\ IsNext(r, "accounts")
    /\ \/ /\ Succeeds(r)
          /\ disk' = [disk EXCEPT !["accounts"] = run[r].artifact]
          /\ Done(r, "accounts")
       \/ /\ Errs(r)
          /\ Done(r, "accounts")
          /\ UNCHANGED disk
       \/ /\ "command" \in Faults
          /\ Ends(r, "failed")
          /\ UNCHANGED disk
    /\ UNCHANGED <<running, ruleset>>

WritesEnd(r) ==
    /\ run[r].pc = "write"
    /\ run[r].todo = {}
    /\ Moves(r, "reload", ReloadPlan(run[r].carried))
    /\ UNCHANGED machineVars

(* Mutation: the error of every reload is tolerated.                       *)
RunReloadTolerant(r, reload) ==
    /\ run[r].pc = "reload"
    /\ IsNext(r, reload)
    /\ \/ /\ Succeeds(r)
          /\ running' = [running EXCEPT ![Serves[reload]] =
                           IF reload = "wgDown" THEN Down ELSE disk[Serves[reload]]]
       \/ Errs(r) /\ UNCHANGED running
    /\ Done(r, reload)
    /\ UNCHANGED <<disk, ruleset>>

(* A failed step is remembered and the rest still run; a wg-quick down     *)
(* that fails is tolerated.                                                *)
RunReload(r, reload) ==
    /\ run[r].pc = "reload"
    /\ IsNext(r, reload)
    /\ \/ /\ Succeeds(r)
          /\ running' = [running EXCEPT ![Serves[reload]] =
                           IF reload = "wgDown" THEN Down ELSE disk[Serves[reload]]]
          /\ Done(r, reload)
       \/ /\ Errs(r)
          /\ run' = [run EXCEPT ![r] =
                       [run[r] EXCEPT !.todo = @ \ {reload},
                                      !.badReload = @ \/ reload # "wgDown"]]
          /\ UNCHANGED running
    /\ UNCHANGED <<disk, ruleset>>

(* Mutation: the ruleset is applied after failed reloads.                  *)
ReloadsEndAnyway(r) ==
    /\ run[r].pc = "reload"
    /\ run[r].todo = {}
    /\ IF "nftables" \in run[r].carried
       THEN Moves(r, "snapshot", {}) ELSE Ends(r, "restored")
    /\ UNCHANGED machineVars

(* The first reload error ends the run, after all of them were tried.      *)
ReloadsEnd(r) ==
    /\ run[r].pc = "reload"
    /\ run[r].todo = {}
    /\ \/ run[r].badReload /\ Ends(r, "failed")
       \/ /\ ~run[r].badReload
          /\ "nftables" \notin run[r].carried
          /\ Ends(r, "restored")
       \/ /\ ~run[r].badReload
          /\ "nftables" \in run[r].carried
          /\ Moves(r, "snapshot", {})
    /\ UNCHANGED machineVars

-----------------------------------------------------------------------------
(* applyNftables: the live ruleset is read first.                          *)
Snapshot(r) ==
    /\ run[r].pc = "snapshot"
    /\ \/ /\ Succeeds(r)
          /\ run' = [run EXCEPT ![r] =
                       [@ EXCEPT !.pc = "apply", !.snapshot = ruleset]]
       \/ Errs(r) /\ Ends(r, "failed")
    /\ UNCHANGED machineVars

(* Mutation: the snapshot is read after the ruleset was applied.           *)
ApplyBeforeSnapshot(r) ==
    /\ run[r].pc = "apply"
    /\ Succeeds(r)
    /\ ruleset' = run[r].artifact
    /\ run' = [run EXCEPT ![r] =
                 [@ EXCEPT !.pc = "keep", !.awaiting = TRUE,
                           !.window = KeepTimeout, !.snapshot = ruleset']]
    /\ UNCHANGED <<disk, running>>

(* One nft transaction, all or nothing; then the session is Awaiting and   *)
(* the keep window opens.                                                  *)
ApplyNftables(r) ==
    /\ run[r].pc = "apply"
    /\ \/ /\ Succeeds(r)
          /\ ruleset' = run[r].artifact
          /\ run' = [run EXCEPT ![r] =
                       [@ EXCEPT !.pc = "keep", !.awaiting = TRUE,
                                 !.window = KeepTimeout]]
       \/ /\ Errs(r)
          /\ Ends(r, "failed")
          /\ UNCHANGED ruleset
    /\ UNCHANGED <<disk, running>>

(* The keep callback says yes: Commit.                                     *)
Commit(r) ==
    /\ run[r].pc = "keep"
    /\ run' = [run EXCEPT ![r] =
                 [@ EXCEPT !.pc = "ended", !.awaiting = FALSE,
                           !.outcome = "kept"]]
    /\ UNCHANGED machineVars

(* Mutation: the session is rolled back and the ruleset is not.            *)
NotKeptNotReplayed(r) ==
    /\ run[r].pc = "keep"
    /\ Ends(r, "rolledback")
    /\ UNCHANGED machineVars

(* It says no.                                                             *)
NotKept(r) ==
    /\ run[r].pc = "keep"
    /\ Moves(r, "rollback", {})
    /\ UNCHANGED machineVars

(* The snapshot is replayed, under the same context.  An error leaves the  *)
(* new ruleset live and the session Awaiting.                              *)
Rollback(r) ==
    /\ run[r].pc = "rollback"
    /\ \/ /\ Succeeds(r)
          /\ ruleset' = run[r].snapshot
          /\ run' = [run EXCEPT ![r] =
                       [@ EXCEPT !.pc = "ended", !.awaiting = FALSE,
                                 !.outcome = "rolledback"]]
       \/ /\ Errs(r)
          /\ Ends(r, "stuck")
          /\ UNCHANGED ruleset
    /\ UNCHANGED <<disk, running>>

EngineStep(r) ==
    \/ \E part \in Files : WriteConfig(r, part)
    \/ ApplyAccounts(r)
    \/ WritesEnd(r)
    \/ \E reload \in Reloads : RunReload(r, reload)
    \/ ReloadsEnd(r)
    \/ Snapshot(r)
    \/ ApplyNftables(r)
    \/ Rollback(r)

-----------------------------------------------------------------------------
Active(r) == run[r].pc \notin {"idle", "ended"}

(* Time passes for every context and every open window.  A window that has *)
(* closed is seen before more time passes.                                 *)
Tick ==
    /\ \E r \in Runs : Active(r) /\ (run[r].ctx > 0 \/ run[r].pc = "keep")
    /\ \A r \in Runs : run[r].pc = "keep" => run[r].window > 0
    /\ run' = [r \in Runs |->
         [run[r] EXCEPT !.ctx = IF Active(r) /\ @ > 0 THEN @ - 1 ELSE @,
                        !.window = IF run[r].pc = "keep" THEN @ - 1 ELSE @]]
    /\ UNCHANGED machineVars

(* The process ends under the run: nothing of it outlives the process.     *)
Dies(r) ==
    /\ "process" \in Faults
    /\ Active(r)
    /\ Ends(r, "gone")
    /\ UNCHANGED machineVars
=============================================================================
