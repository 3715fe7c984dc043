---------------------------- MODULE RestoreCommand ----------------------------
(***************************************************************************)
(* `tui-router restore FILE` (runRestore in cmd/tui-router/backupcmd.go):  *)
(* the command reads the machine, previews, asks, and runs the engine with *)
(* the keep question answered on the terminal or beforehand by --keep.     *)
(* Its one context is made before the first read and is never renewed, so  *)
(* it also covers the time the operator takes to answer.                   *)
(***************************************************************************)
EXTENDS RestoreEngine

CONSTANTS
    Cmd,        \* the run of this command
    NoFallback  \* no snapshot is waiting to be replayed

ASSUME CommandAssumption ==
    /\ Runs = {Cmd}
    /\ NoFallback \notin Versions

VARIABLE options  \* --dry-run, --keep, and the hardware warning of the preview

vars == <<disk, running, ruleset, run, options>>

Options == [dryRun : BOOLEAN, keep : BOOLEAN, warned : BOOLEAN]

TypeOK == EngineTypeOK /\ options \in Options

cmd == run[Cmd]

Init ==
    /\ EngineInit
    /\ options \in Options

-----------------------------------------------------------------------------
(* The artifact is opened before the context is made; one that Open        *)
(* refuses ends the command there.                                         *)
OpenArtifact ==
    /\ cmd.pc = "idle"
    /\ \/ \E artifact \in Artifacts, carried \in SUBSET Parts :
            /\ options.warned => "roles" \in carried
            /\ run' = [run EXCEPT ![Cmd] =
                 [@ EXCEPT !.pc = "collect", !.artifact = artifact,
                           !.carried = carried, !.ctx = CtxTimeout]]
       \/ Ends(Cmd, "failed")
    /\ UNCHANGED <<machineVars, options>>

(* The machine is read and compared; --dry-run and an empty difference end *)
(* the command.                                                            *)
Collect ==
    /\ cmd.pc = "collect"
    /\ \E read \in BOOLEAN :
         /\ IF read THEN Succeeds(Cmd) ELSE Errs(Cmd)
         /\ IF options.dryRun \/ ~HasChanges(cmd.artifact, cmd.carried, read)
            THEN Ends(Cmd, "aborted")
            ELSE Moves(Cmd, IF options.warned THEN "hardware" ELSE "confirm", {})
    /\ UNCHANGED <<machineVars, options>>

(* The two questions.  Anything but the exact answer ends the command.     *)
AnswerHardware ==
    /\ cmd.pc = "hardware"
    /\ Moves(Cmd, "confirm", {}) \/ Ends(Cmd, "aborted")
    /\ UNCHANGED <<machineVars, options>>

(* Mutation: the ruleset is written with the files.                        *)
AnswerApplyWithRuleset ==
    /\ cmd.pc = "confirm"
    /\ Moves(Cmd, "write", cmd.carried) \/ Ends(Cmd, "aborted")
    /\ UNCHANGED <<machineVars, options>>

AnswerApply ==
    /\ cmd.pc = "confirm"
    /\ Moves(Cmd, "write", cmd.carried \cap Files) \/ Ends(Cmd, "aborted")
    /\ UNCHANGED <<machineVars, options>>

Engine == EngineStep(Cmd) /\ UNCHANGED options

(* preConfirmedKeep: --keep answers without asking.                        *)
PreConfirmedKeep ==
    /\ options.keep
    /\ Commit(Cmd)
    /\ UNCHANGED options

(* interactiveKeepConfirm: the line the operator types, or silence.        *)
AnswerKeep ==
    /\ ~options.keep
    /\ Commit(Cmd) \/ NotKept(Cmd)
    /\ UNCHANGED options

(* Mutation: the window is only watched while the context lasts.           *)
KeepTimesOutInContext ==
    /\ ~options.keep
    /\ cmd.window = 0
    /\ Succeeds(Cmd)
    /\ NotKept(Cmd)
    /\ UNCHANGED options

KeepTimesOut ==
    /\ ~options.keep
    /\ cmd.window = 0
    /\ NotKept(Cmd)
    /\ UNCHANGED options

Clock == Tick /\ UNCHANGED options

Death == Dies(Cmd) /\ UNCHANGED options

(* The command has returned.                                               *)
Exited == cmd.pc = "ended" /\ UNCHANGED vars

Next ==
    \/ OpenArtifact
    \/ Collect
    \/ AnswerHardware
    \/ AnswerApply
    \/ Engine
    \/ PreConfirmedKeep
    \/ AnswerKeep
    \/ KeepTimesOut
    \/ Clock
    \/ Death
    \/ Exited

Spec == Init /\ [][Next]_vars

(* The program goes on by itself and time passes; the operator may never   *)
(* answer.                                                                 *)
FairSpec ==
    /\ Spec
    /\ WF_vars(Collect)
    /\ WF_vars(Engine)
    /\ WF_vars(PreConfirmedKeep)
    /\ WF_vars(KeepTimesOut)
    /\ WF_vars(Clock)

-----------------------------------------------------------------------------
(* The restore has taken: every file the artifact carries is in place and  *)
(* every service whose reload is installed runs on it.  Accounts are best  *)
(* effort.                                                                 *)
FilesInPlace ==
    \A part \in (cmd.carried \cap Files) \ {"accounts"} :
        disk[part] = cmd.artifact

ServicesReloaded ==
    \A reload \in ReloadPlan(cmd.carried) :
        running[Serves[reload]] = disk[Serves[reload]]

(* The ruleset comes last: it is tried only when everything else the       *)
(* artifact carries is already in place and has been read by its service,  *)
(* since a bad one locks the operator out (applyRestore).                  *)
RulesetComesLast ==
    [][cmd.pc = "apply" /\ ruleset' # ruleset
         => FilesInPlace /\ ServicesReloaded]_vars

(* A command that says it restored did: no write or reload error was lost  *)
(* on the way, and a kept ruleset is the artifact's.                       *)
SuccessMeansRestored ==
    cmd.outcome \in {"restored", "kept"} =>
        /\ FilesInPlace
        /\ ServicesReloaded
        /\ "nftables" \in cmd.carried => ruleset = cmd.artifact

(* A command that returns an error, whichever of its steps failed, leaves  *)
(* the ruleset it found, unless the rollback itself failed; one the        *)
(* operator aborted leaves everything.                                     *)
ErrorKeepsRuleset ==
    /\ cmd.outcome \in {"aborted", "failed", "rolledback"} => ruleset = Before
    /\ cmd.outcome = "aborted" => /\ disk = [p \in Files |-> Before]
                                  /\ running = [s \in Services |-> Before]

(* applyNftables implements the commit-confirmed contract: the ruleset     *)
(* only ever changes to the artifact's with the one it replaces kept as    *)
(* the fallback, and back to exactly that fallback.                        *)
Guard == INSTANCE CommitConfirmed
    WITH Values <- Versions, current <- ruleset,
         fallback <- IF cmd.awaiting THEN cmd.snapshot ELSE NoFallback

CommitsOrReverts == Guard!Spec

(* Once the last question is answered the command ends, also when the      *)
(* operator never types another line.                                      *)
RestoreEnds == cmd.pc = "write" ~> cmd.pc = "ended"

(* Silence rolls back: a keep window nobody answers until it closes ends   *)
(* with the ruleset that was live before.                                  *)
SilenceRollsBack ==
    cmd.pc = "rollback" /\ cmd.window = 0
      ~> cmd.pc = "ended" /\ ruleset = cmd.snapshot
=============================================================================
