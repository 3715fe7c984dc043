------------------------ MODULE RestoreCommandProofs ------------------------
(***************************************************************************)
(* What holds of the restore command whatever the artifact carries, the    *)
(* machine has installed, the two timeouts are and fails on the way.       *)
(***************************************************************************)
EXTENDS RestoreCommand, RestoreEngineProofs

(* The command is a run, and its fields have their types.                  *)
LEMMA CmdTyped ==
    ASSUME EngineTypeOK
    PROVE  /\ Cmd \in Runs
           /\ run = [r \in Runs |-> run[r]]
           /\ cmd \in RunStates
           /\ cmd.artifact \in Versions /\ cmd.snapshot \in Versions
           /\ cmd.awaiting \in BOOLEAN /\ cmd.badReload \in BOOLEAN
BY CommandAssumption DEF EngineTypeOK, RunStates, cmd

-----------------------------------------------------------------------------
(* The three ways the engine moves on, for the command's run.              *)
LEMMA CmdMoves ==
    ASSUME EngineTypeOK, NEW pc \in Pcs, NEW todo \in SUBSET (Files \cup Reloads),
           Moves(Cmd, pc, todo)
    PROVE  /\ run' \in [Runs -> RunStates]
           /\ cmd' = [cmd EXCEPT !.pc = pc, !.todo = todo]
<1>1. Becomes(Cmd, [run[Cmd] EXCEPT !.pc = pc, !.todo = todo])
  BY CmdTyped, MovesTyped
<1> QED
  BY <1>1 DEF Becomes, cmd

LEMMA CmdEnds ==
    ASSUME EngineTypeOK, NEW outcome \in Outcomes, Ends(Cmd, outcome)
    PROVE  /\ run' \in [Runs -> RunStates]
           /\ cmd' = [cmd EXCEPT !.pc = "ended", !.outcome = outcome]
BY CmdTyped, EndsTyped DEF Becomes, cmd

LEMMA CmdDone ==
    ASSUME EngineTypeOK, NEW step, Done(Cmd, step)
    PROVE  /\ run' \in [Runs -> RunStates]
           /\ cmd' = [cmd EXCEPT !.todo = cmd.todo \ {step}]
BY CmdTyped, DoneTyped DEF Becomes, cmd

-----------------------------------------------------------------------------
(* A step of the engine preserves the types.                               *)
LEMMA CmdEngineTyped ==
    ASSUME TypeOK, Engine
    PROVE  TypeOK'
BY CmdTyped, EngineTyped DEF TypeOK, Engine

(* The command's own steps do as well.                                     *)
LEMMA NextTyped ==
    ASSUME TypeOK, [Next]_vars
    PROVE  TypeOK'
<1>1. /\ EngineTypeOK /\ options \in Options
      /\ Cmd \in Runs /\ run \in [Runs -> RunStates] /\ cmd \in RunStates
      /\ ruleset \in Versions /\ disk \in [Files -> Versions \cup {Torn}]
      /\ running \in [Services -> Versions \cup {Torn, Down}]
  BY CmdTyped DEF TypeOK, EngineTypeOK
<1>2. /\ {"failed", "aborted", "gone"} \subseteq Outcomes
      /\ {"hardware", "confirm", "write", "rollback"} \subseteq Pcs
      /\ {} \in SUBSET (Files \cup Reloads)
      /\ cmd.carried \cap Files \in SUBSET (Files \cup Reloads)
  BY DEF Outcomes, Pcs
<1>3. ASSUME run' \in [Runs -> RunStates], UNCHANGED <<machineVars, options>>
      PROVE  TypeOK'
  BY <1>1, <1>3 DEF machineVars, TypeOK, EngineTypeOK
<1>4. CASE OpenArtifact
  <2>1. ASSUME NEW artifact \in Artifacts, NEW carried \in SUBSET Parts
        PROVE  [cmd EXCEPT !.pc = "collect", !.artifact = artifact,
                           !.carried = carried, !.ctx = CtxTimeout] \in RunStates
    BY <1>1, WindowsOpen DEF RunStates, Pcs, Versions
  <2>2. run' \in [Runs -> RunStates]
    <3>1. CASE Ends(Cmd, "failed")
      BY <1>1, <1>2, <3>1, CmdEnds
    <3>2. ASSUME NEW artifact \in Artifacts, NEW carried \in SUBSET Parts,
                 run' = [run EXCEPT ![Cmd] =
                           [@ EXCEPT !.pc = "collect", !.artifact = artifact,
                                     !.carried = carried, !.ctx = CtxTimeout]]
          PROVE  run' \in [Runs -> RunStates]
      BY <1>1, <2>1, <3>2 DEF cmd
    <3> QED
      BY <1>4, <3>1, <3>2 DEF OpenArtifact
  <2> QED
    BY <1>3, <1>4, <2>2 DEF OpenArtifact
<1>5. CASE Collect
  <2>1. run' \in [Runs -> RunStates]
    BY <1>1, <1>2, <1>5, CmdMoves, CmdEnds DEF Collect
  <2> QED
    BY <1>3, <1>5, <2>1 DEF Collect
<1>6. CASE AnswerHardware
  <2>1. run' \in [Runs -> RunStates]
    BY <1>1, <1>2, <1>6, CmdMoves, CmdEnds DEF AnswerHardware
  <2> QED
    BY <1>3, <1>6, <2>1 DEF AnswerHardware
<1>7. CASE AnswerApply
  <2>1. run' \in [Runs -> RunStates]
    BY <1>1, <1>2, <1>7, CmdMoves, CmdEnds DEF AnswerApply
  <2> QED
    BY <1>3, <1>7, <2>1 DEF AnswerApply
<1>8. ASSUME Commit(Cmd), options' = options
      PROVE  TypeOK'
  <2>1. [cmd EXCEPT !.pc = "ended", !.awaiting = FALSE, !.outcome = "kept"]
          \in RunStates
    BY <1>1 DEF RunStates, Pcs, Outcomes
  <2>2. run' \in [Runs -> RunStates]
    BY <1>1, <1>8, <2>1 DEF Commit, cmd
  <2> QED
    BY <1>3, <1>8, <2>2 DEF Commit
<1>9. ASSUME NotKept(Cmd), options' = options
      PROVE  TypeOK'
  <2>1. run' \in [Runs -> RunStates]
    BY <1>1, <1>2, <1>9, CmdMoves DEF NotKept
  <2> QED
    BY <1>3, <1>9, <2>1 DEF NotKept
<1>10. CASE Clock
  BY <1>1, <1>10, TickTyped DEF Clock, TypeOK
<1>11. CASE Death
  <2>1. run' \in [Runs -> RunStates]
    BY <1>1, <1>2, <1>11, CmdEnds DEF Death, Dies
  <2> QED
    BY <1>3, <1>11, <2>1 DEF Death, Dies
<1>12. CASE Exited \/ UNCHANGED vars
  BY <1>1, <1>12 DEF Exited, vars, TypeOK, EngineTypeOK
<1> QED
  BY <1>4, <1>5, <1>6, <1>7, <1>8, <1>9, <1>10, <1>11, <1>12, CmdEngineTyped
  DEF Next, PreConfirmedKeep, AnswerKeep, KeepTimesOut

(* The command starts with its types.                                      *)
LEMMA InitTyped ==
    ASSUME Init
    PROVE  TypeOK
BY EngineInitTyped DEF Init, TypeOK

(* The command keeps its types.                                            *)
THEOREM CommandTyped == Spec => []TypeOK
<1> QED
  BY InitTyped, NextTyped, PTL DEF Spec

-----------------------------------------------------------------------------
(* What each action makes of the command's run.                            *)
LEMMA Effects ==
    ASSUME TypeOK
    PROVE  /\ OpenArtifact =>
                \/ \E artifact, carried :
                     cmd' = [cmd EXCEPT !.pc = "collect", !.artifact = artifact,
                                        !.carried = carried, !.ctx = CtxTimeout]
                \/ cmd' = [cmd EXCEPT !.pc = "ended", !.outcome = "failed"]
           /\ Collect => \/ cmd' = [cmd EXCEPT !.pc = "ended", !.outcome = "aborted"]
                        \/ \E pc \in {"hardware", "confirm"} :
                              cmd' = [cmd EXCEPT !.pc = pc, !.todo = {}]
           /\ AnswerHardware =>
                \/ cmd' = [cmd EXCEPT !.pc = "ended", !.outcome = "aborted"]
                \/ cmd' = [cmd EXCEPT !.pc = "confirm", !.todo = {}]
           /\ AnswerApply =>
                \/ cmd' = [cmd EXCEPT !.pc = "ended", !.outcome = "aborted"]
                \/ cmd' = [cmd EXCEPT !.pc = "write", !.todo = cmd.carried \cap Files]
           /\ Commit(Cmd) => cmd' = [cmd EXCEPT !.pc = "ended", !.awaiting = FALSE,
                                               !.outcome = "kept"]
           /\ NotKept(Cmd) => cmd' = [cmd EXCEPT !.pc = "rollback", !.todo = {}]
           /\ Clock => \E ctx, window :
                cmd' = [cmd EXCEPT !.ctx = ctx, !.window = window]
           /\ Death => cmd' = [cmd EXCEPT !.pc = "ended", !.outcome = "gone"]
<1>1. /\ EngineTypeOK /\ Cmd \in Runs
      /\ run \in [Runs -> RunStates] /\ cmd \in RunStates
      /\ {"failed", "aborted", "gone"} \subseteq Outcomes
      /\ {"hardware", "confirm", "write", "rollback"} \subseteq Pcs
      /\ {} \in SUBSET (Files \cup Reloads)
      /\ cmd.carried \cap Files \in SUBSET (Files \cup Reloads)
  BY CmdTyped DEF TypeOK, EngineTypeOK, Outcomes, Pcs
<1>2. ASSUME OpenArtifact
      PROVE  \/ \E artifact, carried :
                   cmd' = [cmd EXCEPT !.pc = "collect", !.artifact = artifact,
                                      !.carried = carried, !.ctx = CtxTimeout]
             \/ cmd' = [cmd EXCEPT !.pc = "ended", !.outcome = "failed"]
  <2>1. CASE Ends(Cmd, "failed")
    BY <1>1, <2>1, CmdEnds
  <2>2. ASSUME NEW artifact \in Artifacts, NEW carried \in SUBSET Parts,
               run' = [run EXCEPT ![Cmd] =
                         [@ EXCEPT !.pc = "collect", !.artifact = artifact,
                                   !.carried = carried, !.ctx = CtxTimeout]]
        PROVE  \E artifact1, carried1 :
                 cmd' = [cmd EXCEPT !.pc = "collect", !.artifact = artifact1,
                                    !.carried = carried1, !.ctx = CtxTimeout]
    <3>1. cmd' = [cmd EXCEPT !.pc = "collect", !.artifact = artifact,
                             !.carried = carried, !.ctx = CtxTimeout]
      BY <1>1, <2>2 DEF cmd
    <3> QED
      BY <3>1
  <2> QED
    BY <1>2, <2>1, <2>2 DEF OpenArtifact
<1>3. ASSUME Collect
      PROVE  \/ cmd' = [cmd EXCEPT !.pc = "ended", !.outcome = "aborted"]
             \/ \E pc \in {"hardware", "confirm"} :
                   cmd' = [cmd EXCEPT !.pc = pc, !.todo = {}]
  <2>1. CASE Ends(Cmd, "aborted")
    BY <1>1, <2>1, CmdEnds
  <2>2. ASSUME NEW pc \in {"hardware", "confirm"}, Moves(Cmd, pc, {})
        PROVE  cmd' = [cmd EXCEPT !.pc = pc, !.todo = {}]
    BY <1>1, <2>2, CmdMoves
  <2> QED
    BY <1>3, <2>1, <2>2 DEF Collect
<1>4. ASSUME AnswerHardware
      PROVE  \/ cmd' = [cmd EXCEPT !.pc = "ended", !.outcome = "aborted"]
             \/ cmd' = [cmd EXCEPT !.pc = "confirm", !.todo = {}]
  <2>1. CASE Ends(Cmd, "aborted")
    BY <1>1, <2>1, CmdEnds
  <2>2. CASE Moves(Cmd, "confirm", {})
    BY <1>1, <2>2, CmdMoves
  <2> QED
    BY <1>4, <2>1, <2>2 DEF AnswerHardware
<1>5. ASSUME AnswerApply
      PROVE  \/ cmd' = [cmd EXCEPT !.pc = "ended", !.outcome = "aborted"]
             \/ cmd' = [cmd EXCEPT !.pc = "write", !.todo = cmd.carried \cap Files]
  <2>1. CASE Ends(Cmd, "aborted")
    BY <1>1, <2>1, CmdEnds
  <2>2. CASE Moves(Cmd, "write", cmd.carried \cap Files)
    BY <1>1, <2>2, CmdMoves
  <2> QED
    BY <1>5, <2>1, <2>2 DEF AnswerApply
<1>6. Commit(Cmd) => cmd' = [cmd EXCEPT !.pc = "ended", !.awaiting = FALSE,
                                      !.outcome = "kept"]
  BY <1>1 DEF Commit, cmd
<1>7. NotKept(Cmd) => cmd' = [cmd EXCEPT !.pc = "rollback", !.todo = {}]
  BY <1>1, CmdMoves DEF NotKept
<1>8. ASSUME Clock
      PROVE  \E ctx, window : cmd' = [cmd EXCEPT !.ctx = ctx, !.window = window]
  BY <1>1, <1>8 DEF Clock, Tick, cmd
<1>9. Death => cmd' = [cmd EXCEPT !.pc = "ended", !.outcome = "gone"]
  BY <1>1, CmdEnds DEF Death, Dies
<1> QED
  BY <1>2, <1>3, <1>4, <1>5, <1>6, <1>7, <1>8, <1>9

(* A step of the engine is one of those the engine's lemmas tell apart.    *)
LEMMA CmdEngineEffects ==
    ASSUME TypeOK, Engine
    PROVE  \/ LoopsOn(Cmd) \/ FailsEarly(Cmd) \/ WritesOver(Cmd) \/ ReloadsOver(Cmd)
           \/ SnapshotTaken(Cmd) \/ RulesetTried(Cmd) \/ RolledBack(Cmd)
           \/ RollbackFails(Cmd)
BY CmdTyped, EngineEffects DEF TypeOK, Engine

(* The reload loop ends the run, or goes on to the ruleset.                *)
LEMMA CmdReloadsOver ==
    ASSUME ReloadsOver(Cmd)
    PROVE  /\ cmd.pc = "reload" /\ UNCHANGED machineVars
           /\ \/ cmd' = [cmd EXCEPT !.pc = "ended", !.outcome = "restored"]
              \/ cmd' = [cmd EXCEPT !.pc = "snapshot", !.todo = {}]
BY DEF ReloadsOver, Becomes, cmd

-----------------------------------------------------------------------------
(* Where the ruleset and the session stand.  The snapshot and the live     *)
(* ruleset are the one the command found until the new one is tried; from  *)
(* then on the session is Awaiting and the snapshot is what the command    *)
(* found.                                                                  *)
Early == {"idle", "collect", "hardware", "confirm", "write", "reload",
          "snapshot", "apply"}

RulesetInv ==
    /\ cmd.pc # "ended" => cmd.outcome = "none"
    /\ cmd.pc \in Early => ~cmd.awaiting
    /\ cmd.pc \in {"keep", "rollback"} => cmd.awaiting
    /\ cmd.outcome \in {"aborted", "failed", "rolledback"} => ~cmd.awaiting
    /\ ~cmd.awaiting /\ cmd.outcome # "kept" => ruleset = Before
    /\ cmd.awaiting \/ cmd.pc = "apply" => cmd.snapshot = Before

(* What was there before the operator's last answer.                       *)
UntouchedInv ==
    cmd.pc \in {"idle", "collect", "hardware", "confirm"} \/ cmd.outcome = "aborted" =>
        /\ disk = [p \in Files |-> Before]
        /\ running = [s \in Services |-> Before]

(* The run of the first state.                                             *)
LEMMA InitRun ==
    ASSUME Init
    PROVE  cmd = NotStarted
BY CommandAssumption DEF Init, EngineInit, cmd

(* Every step preserves it.                                                *)
LEMMA RulesetInvNext ==
    ASSUME TypeOK, RulesetInv, [Next]_vars
    PROVE  RulesetInv'
<1>1. cmd \in RunStates
  BY CmdTyped DEF TypeOK
<1>2. CASE OpenArtifact
  <2>1. cmd.pc = "idle" /\ ruleset' = ruleset
    BY <1>2 DEF OpenArtifact, machineVars, cmd
  <2>2. /\ cmd'.awaiting = cmd.awaiting /\ cmd'.snapshot = cmd.snapshot
        /\ \/ cmd'.pc = "collect" /\ cmd'.outcome = cmd.outcome
           \/ cmd'.pc = "ended" /\ cmd'.outcome = "failed"
    BY <1>1, <1>2, Effects DEF RunStates
  <2> QED
    BY <2>1, <2>2 DEF RulesetInv, Early
<1>3. CASE Collect
  <2>1. cmd.pc = "collect" /\ ruleset' = ruleset
    BY <1>3 DEF Collect, machineVars, cmd
  <2>2. /\ cmd'.awaiting = cmd.awaiting /\ cmd'.snapshot = cmd.snapshot
        /\ \/ cmd'.pc \in {"hardware", "confirm"} /\ cmd'.outcome = cmd.outcome
           \/ cmd'.pc = "ended" /\ cmd'.outcome = "aborted"
    BY <1>1, <1>3, Effects DEF RunStates
  <2> QED
    BY <2>1, <2>2 DEF RulesetInv, Early
<1>4. CASE AnswerHardware
  <2>1. cmd.pc = "hardware" /\ ruleset' = ruleset
    BY <1>4 DEF AnswerHardware, machineVars, cmd
  <2>2. /\ cmd'.awaiting = cmd.awaiting /\ cmd'.snapshot = cmd.snapshot
        /\ \/ cmd'.pc = "confirm" /\ cmd'.outcome = cmd.outcome
           \/ cmd'.pc = "ended" /\ cmd'.outcome = "aborted"
    BY <1>1, <1>4, Effects DEF RunStates
  <2> QED
    BY <2>1, <2>2 DEF RulesetInv, Early
<1>5. CASE AnswerApply
  <2>1. cmd.pc = "confirm" /\ ruleset' = ruleset
    BY <1>5 DEF AnswerApply, machineVars, cmd
  <2>2. /\ cmd'.awaiting = cmd.awaiting /\ cmd'.snapshot = cmd.snapshot
        /\ \/ cmd'.pc = "write" /\ cmd'.outcome = cmd.outcome
           \/ cmd'.pc = "ended" /\ cmd'.outcome = "aborted"
    BY <1>1, <1>5, Effects DEF RunStates
  <2> QED
    BY <2>1, <2>2 DEF RulesetInv, Early
<1>6. CASE Engine
  <2>1. CASE LoopsOn(Cmd)
    BY <1>1, <2>1 DEF Becomes, cmd, LoopsOn, RulesetInv, Early, RunStates
  <2>2. CASE FailsEarly(Cmd)
    BY <1>1, <2>2 DEF Becomes, cmd, FailsEarly, RulesetInv, Early, RunStates
  <2>3. CASE WritesOver(Cmd)
    BY <1>1, <2>3 DEF Becomes, cmd, WritesOver, RulesetInv, Early, RunStates, machineVars
  <2>4. CASE ReloadsOver(Cmd)
    <3>1. cmd.pc = "reload" /\ ruleset' = ruleset
      BY <2>4, CmdReloadsOver DEF machineVars
    <3>2. /\ cmd'.awaiting = cmd.awaiting /\ cmd'.snapshot = cmd.snapshot
          /\ \/ cmd'.pc = "snapshot" /\ cmd'.outcome = cmd.outcome
             \/ cmd'.pc = "ended" /\ cmd'.outcome = "restored"
      BY <1>1, <2>4, CmdReloadsOver DEF RunStates
    <3> QED
      BY <3>1, <3>2 DEF RulesetInv, Early
  <2>5. CASE SnapshotTaken(Cmd)
    BY <1>1, <2>5 DEF Becomes, cmd, SnapshotTaken, RulesetInv, Early, RunStates, machineVars
  <2>6. CASE RulesetTried(Cmd)
    BY <1>1, <2>6 DEF Becomes, cmd, RulesetTried, RulesetInv, Early, RunStates
  <2>7. CASE RolledBack(Cmd)
    BY <1>1, <2>7 DEF Becomes, cmd, RolledBack, RulesetInv, Early, RunStates
  <2>8. CASE RollbackFails(Cmd)
    BY <1>1, <2>8 DEF Becomes, cmd, RollbackFails, RulesetInv, Early, RunStates, machineVars
  <2> QED
    BY <1>6, <2>1, <2>2, <2>3, <2>4, <2>5, <2>6, <2>7, <2>8, CmdEngineEffects
<1>7. CASE Commit(Cmd)
  <2>1. cmd.pc = "keep" /\ ruleset' = ruleset
    BY <1>7 DEF Commit, machineVars, cmd
  <2>2. /\ ~cmd'.awaiting /\ cmd'.snapshot = cmd.snapshot
        /\ cmd'.pc = "ended" /\ cmd'.outcome = "kept"
    BY <1>1, <1>7, Effects DEF RunStates
  <2> QED
    BY <2>1, <2>2 DEF RulesetInv, Early
<1>8. CASE NotKept(Cmd)
  <2>1. cmd.pc = "keep" /\ ruleset' = ruleset
    BY <1>8 DEF NotKept, machineVars, cmd
  <2>2. /\ cmd'.awaiting = cmd.awaiting /\ cmd'.snapshot = cmd.snapshot
        /\ cmd'.pc = "rollback" /\ cmd'.outcome = cmd.outcome
    BY <1>1, <1>8, Effects DEF RunStates
  <2> QED
    BY <2>1, <2>2 DEF RulesetInv, Early
<1>9. CASE Clock
  <2>1. ruleset' = ruleset
    BY <1>9 DEF Clock, Tick, machineVars
  <2>2. /\ cmd'.awaiting = cmd.awaiting /\ cmd'.snapshot = cmd.snapshot
        /\ cmd'.pc = cmd.pc /\ cmd'.outcome = cmd.outcome
    BY <1>1, <1>9, Effects DEF RunStates
  <2> QED
    BY <2>1, <2>2 DEF RulesetInv, Early
<1>10. CASE Death
  <2>1. cmd.pc # "ended" /\ ruleset' = ruleset
    BY <1>10 DEF Death, Dies, Active, machineVars, cmd
  <2>2. cmd' = [cmd EXCEPT !.pc = "ended", !.outcome = "gone"]
    BY <1>10, Effects
  <2> QED
    BY <1>1, <2>1, <2>2 DEF RulesetInv, Early, RunStates
<1>11. CASE Exited \/ UNCHANGED vars
  BY <1>11 DEF Exited, vars, RulesetInv, cmd
<1> QED
  BY <1>2, <1>3, <1>4, <1>5, <1>6, <1>7, <1>8, <1>9, <1>10, <1>11
  DEF Next, PreConfirmedKeep, AnswerKeep, KeepTimesOut

(* Nothing but the engine writes files and reloads services.               *)
LEMMA UntouchedInvNext ==
    ASSUME TypeOK, RulesetInv, UntouchedInv, [Next]_vars
    PROVE  UntouchedInv'
<1>1. cmd \in RunStates
  BY CmdTyped DEF TypeOK
<1>2. ASSUME UNCHANGED <<disk, running>>,
             cmd'.pc \in {"idle", "collect", "hardware", "confirm"}
               \/ cmd'.outcome = "aborted"
               => \/ cmd.pc \in {"idle", "collect", "hardware", "confirm"}
                  \/ cmd.outcome = "aborted"
      PROVE  UntouchedInv'
  BY <1>2 DEF UntouchedInv
<1>3. CASE OpenArtifact
  BY <1>2, <1>3 DEF OpenArtifact, machineVars, cmd
<1>4. CASE Collect
  BY <1>2, <1>4 DEF Collect, machineVars, cmd
<1>5. CASE AnswerHardware
  BY <1>2, <1>5 DEF AnswerHardware, machineVars, cmd
<1>6. CASE AnswerApply
  BY <1>2, <1>6 DEF AnswerApply, machineVars, cmd
<1>7. CASE Engine
  <2>1. cmd'.outcome # "aborted" /\ cmd'.pc \notin {"idle", "collect", "hardware", "confirm"}
    <3>1. CASE LoopsOn(Cmd)
      BY <1>1, <3>1 DEF Becomes, cmd, LoopsOn, RulesetInv, RunStates
    <3>2. CASE FailsEarly(Cmd)
      BY <1>1, <3>2 DEF Becomes, cmd, FailsEarly, RunStates
    <3>3. CASE WritesOver(Cmd)
      BY <1>1, <3>3 DEF Becomes, cmd, WritesOver, RulesetInv, RunStates
    <3>4. CASE ReloadsOver(Cmd)
      <4>1. \/ cmd'.pc = "ended" /\ cmd'.outcome = "restored"
            \/ cmd'.pc = "snapshot" /\ cmd'.outcome = cmd.outcome
        BY <1>1, <3>4, CmdReloadsOver DEF RunStates
      <4>2. cmd.outcome = "none"
        BY <3>4, CmdReloadsOver DEF RulesetInv
      <4> QED
        BY <4>1, <4>2
    <3>5. CASE SnapshotTaken(Cmd)
      BY <1>1, <3>5 DEF Becomes, cmd, SnapshotTaken, RulesetInv, RunStates
    <3>6. CASE RulesetTried(Cmd)
      BY <1>1, <3>6 DEF Becomes, cmd, RulesetTried, RulesetInv, RunStates
    <3>7. CASE RolledBack(Cmd) \/ RollbackFails(Cmd)
      BY <1>1, <3>7 DEF Becomes, cmd, RolledBack, RollbackFails, RunStates
    <3> QED
      BY <1>7, <3>1, <3>2, <3>3, <3>4, <3>5, <3>6, <3>7, CmdEngineEffects
  <2> QED
    BY <2>1 DEF UntouchedInv
<1>8. CASE Commit(Cmd)
  <2>1. cmd' = [cmd EXCEPT !.pc = "ended", !.awaiting = FALSE, !.outcome = "kept"]
    BY <1>8, Effects
  <2> QED
    BY <1>1, <1>2, <1>8, <2>1 DEF Commit, machineVars, RunStates
<1>9. CASE NotKept(Cmd)
  <2>1. cmd' = [cmd EXCEPT !.pc = "rollback", !.todo = {}]
    BY <1>9, Effects
  <2> QED
    BY <1>1, <1>2, <1>9, <2>1 DEF NotKept, machineVars, RunStates
<1>10. CASE Clock
  <2>1. PICK ctx, window : cmd' = [cmd EXCEPT !.ctx = ctx, !.window = window]
    BY <1>10, Effects
  <2>2. cmd'.pc = cmd.pc /\ cmd'.outcome = cmd.outcome
    BY <1>1, <2>1 DEF RunStates
  <2> QED
    BY <1>2, <1>10, <2>2 DEF Clock, Tick, machineVars
<1>11. CASE Death
  <2>1. cmd' = [cmd EXCEPT !.pc = "ended", !.outcome = "gone"]
    BY <1>11, Effects
  <2> QED
    BY <1>1, <1>2, <1>11, <2>1 DEF Death, Dies, machineVars, RunStates
<1>12. CASE Exited \/ UNCHANGED vars
  BY <1>2, <1>12 DEF Exited, vars, cmd
<1> QED
  BY <1>3, <1>4, <1>5, <1>6, <1>7, <1>8, <1>9, <1>10, <1>11, <1>12
  DEF Next, PreConfirmedKeep, AnswerKeep, KeepTimesOut

(* The two hold at first.                                                  *)
LEMMA RulesetInvInit ==
    ASSUME Init
    PROVE  RulesetInv /\ UntouchedInv
BY InitRun DEF NotStarted, Init, EngineInit, RulesetInv, UntouchedInv, Early

(* Both hold throughout.                                                   *)
LEMMA RulesetInvariant == Spec => [](TypeOK /\ RulesetInv /\ UntouchedInv)
<1>1. Init => TypeOK /\ RulesetInv /\ UntouchedInv
  BY InitTyped, RulesetInvInit
<1>2. TypeOK /\ RulesetInv /\ UntouchedInv /\ [Next]_vars
        => (TypeOK /\ RulesetInv /\ UntouchedInv)'
  BY NextTyped, RulesetInvNext, UntouchedInvNext
<1> QED
  BY <1>1, <1>2, PTL DEF Spec

(* A command that ends in an error has not changed the ruleset, and one    *)
(* the operator aborted has not changed anything (runRestore).             *)
THEOREM ErrorsKeepRuleset == Spec => []ErrorKeepsRuleset
<1>1. RulesetInv /\ UntouchedInv => ErrorKeepsRuleset
  BY DEF RulesetInv, UntouchedInv, ErrorKeepsRuleset
<1> QED
  BY <1>1, RulesetInvariant, PTL

-----------------------------------------------------------------------------
(* A step of the command that leaves the ruleset and the fallback alone is *)
(* a stutter of the contract, and one that does not is one of its steps.   *)
LEMMA NextGuarded ==
    ASSUME TypeOK, RulesetInv, [Next]_vars
    PROVE  [Guard!Next]_<<ruleset, IF cmd.awaiting THEN cmd.snapshot ELSE NoFallback>>
<1>1. cmd \in RunStates /\ cmd.snapshot \in Versions /\ cmd.artifact \in Versions
  BY CmdTyped DEF TypeOK
<1>2. ASSUME ruleset' = ruleset, cmd'.awaiting = cmd.awaiting,
             cmd.awaiting => cmd'.snapshot = cmd.snapshot
      PROVE  UNCHANGED <<ruleset, IF cmd.awaiting THEN cmd.snapshot ELSE NoFallback>>
  BY <1>2
<1>3. CASE OpenArtifact
  BY <1>1, <1>2, <1>3, Effects DEF OpenArtifact, machineVars, RunStates
<1>4. CASE Collect
  BY <1>1, <1>2, <1>4, Effects DEF Collect, machineVars, RunStates
<1>5. CASE AnswerHardware
  BY <1>1, <1>2, <1>5, Effects DEF AnswerHardware, machineVars, RunStates
<1>6. CASE AnswerApply
  BY <1>1, <1>2, <1>6, Effects DEF AnswerApply, machineVars, RunStates
<1>7. CASE Engine
  <2>1. CASE LoopsOn(Cmd)
    BY <1>1, <1>2, <2>1 DEF Becomes, cmd, LoopsOn, RunStates
  <2>2. CASE FailsEarly(Cmd)
    BY <1>1, <1>2, <2>2 DEF Becomes, cmd, FailsEarly, RunStates
  <2>3. CASE WritesOver(Cmd)
    BY <1>1, <1>2, <2>3 DEF Becomes, cmd, WritesOver, RunStates, machineVars
  <2>4. CASE ReloadsOver(Cmd)
    <3>1. ruleset' = ruleset /\ cmd.pc = "reload"
      BY <2>4, CmdReloadsOver DEF machineVars
    <3>2. /\ cmd'.awaiting = cmd.awaiting /\ cmd'.snapshot = cmd.snapshot
          /\ cmd'.pc \in {"ended", "snapshot"}
      BY <1>1, <2>4, CmdReloadsOver DEF RunStates
    <3> QED
      BY <1>1, <1>2, <3>1, <3>2
  <2>5. CASE SnapshotTaken(Cmd)
    BY <1>1, <1>2, <2>5 DEF Becomes, cmd, SnapshotTaken, RunStates, machineVars, RulesetInv, Early
  <2>6. CASE RulesetTried(Cmd)
    <3>1. ~cmd.awaiting /\ cmd.snapshot = ruleset
      BY <2>6 DEF Becomes, cmd, RulesetTried, RulesetInv, Early
    <3>2. cmd'.awaiting /\ cmd'.snapshot = cmd.snapshot /\ ruleset' \in Versions
      BY <1>1, <2>6 DEF Becomes, cmd, RulesetTried, RunStates
    <3>3. Guard!Try
      BY <3>1, <3>2 DEF Guard!Try
    <3> QED
      BY <3>3 DEF Guard!Next
  <2>7. CASE RolledBack(Cmd)
    <3>1. cmd.awaiting /\ ~cmd'.awaiting /\ ruleset' = cmd.snapshot
      BY <1>1, <2>7 DEF Becomes, cmd, RolledBack, RulesetInv, RunStates
    <3>2. Guard!Revert
      BY <1>1, <3>1, CommandAssumption DEF Guard!Revert
    <3> QED
      BY <3>2 DEF Guard!Next
  <2>8. CASE RollbackFails(Cmd)
    BY <1>1, <1>2, <2>8 DEF Becomes, cmd, RollbackFails, RunStates, machineVars
  <2> QED
    BY <1>7, <2>1, <2>2, <2>3, <2>4, <2>5, <2>6, <2>7, <2>8, CmdEngineEffects
<1>8. CASE Commit(Cmd)
  <2>1. cmd.awaiting /\ ruleset' = ruleset
    BY <1>8 DEF Commit, machineVars, RulesetInv, cmd
  <2>2. ~cmd'.awaiting
    BY <1>1, <1>8, Effects DEF RunStates
  <2>3. Guard!Keep
    BY <1>1, <2>1, <2>2, CommandAssumption DEF Guard!Keep
  <2> QED
    BY <2>3 DEF Guard!Next
<1>9. CASE NotKept(Cmd)
  BY <1>1, <1>2, <1>9, Effects DEF NotKept, machineVars, RunStates
<1>10. CASE Clock
  <2>1. PICK ctx, window : cmd' = [cmd EXCEPT !.ctx = ctx, !.window = window]
    BY <1>10, Effects
  <2> QED
    BY <1>1, <1>2, <1>10, <2>1 DEF Clock, Tick, machineVars, RunStates
<1>11. CASE Death
  <2>1. cmd' = [cmd EXCEPT !.pc = "ended", !.outcome = "gone"]
    BY <1>11, Effects
  <2> QED
    BY <1>1, <1>2, <1>11, <2>1 DEF Death, Dies, machineVars, RunStates
<1>12. CASE Exited \/ UNCHANGED vars
  BY <1>2, <1>12 DEF Exited, vars, cmd
<1> QED
  BY <1>3, <1>4, <1>5, <1>6, <1>7, <1>8, <1>9, <1>10, <1>11, <1>12
  DEF Next, PreConfirmedKeep, AnswerKeep, KeepTimesOut

(* The restore command implements the commit-confirmed contract for every  *)
(* artifact, timeout and failure: the ruleset is only ever tried over a    *)
(* snapshot of the one it replaces, and goes back to that or stays.        *)
THEOREM RestoreIsCommitConfirmed == Spec => CommitsOrReverts
<1>1. Init => Guard!Init
  <2> SUFFICES ASSUME Init PROVE Guard!Init
    OBVIOUS
  <2>1. ruleset = Before /\ ~cmd.awaiting
    BY InitRun DEF Init, EngineInit, NotStarted
  <2> QED
    BY <2>1 DEF Guard!Init, Versions
<1>2. TypeOK /\ RulesetInv /\ [Next]_vars
        => [Guard!Next]_<<ruleset, IF cmd.awaiting THEN cmd.snapshot ELSE NoFallback>>
  BY NextGuarded
<1> QED
  BY <1>1, <1>2, RulesetInvariant, PTL DEF Spec, CommitsOrReverts, Guard!Spec

-----------------------------------------------------------------------------
(***************************************************************************)
(* The order of the restore command: the files, then the services that     *)
(* read them, and the ruleset last; and that it says it restored only when *)
(* all of that took.                                                       *)
(***************************************************************************)

(* The files the write loop is done with are in place, but for the         *)
(* accounts, which are best effort.                                        *)
WrittenSoFar ==
    \A part \in (cmd.carried \cap Files) \ (cmd.todo \cup {"accounts"}) :
        disk[part] = cmd.artifact

(* The services the reload loop is done with have read their files; a      *)
(* tunnel is done with when it is up again.                                *)
ReadSoFar ==
    \A reload \in ReloadPlan(cmd.carried) \ (cmd.todo \cup {"wgDown"}) :
        running[Serves[reload]] = disk[Serves[reload]]

(* How far the run has come at each of its stages.                         *)
OrderInv ==
    /\ cmd.pc = "write" => WrittenSoFar
    /\ cmd.pc = "reload" => /\ FilesInPlace
                            /\ "wgDown" \in cmd.todo => "wgUp" \in cmd.todo
                            /\ ~cmd.badReload => ReadSoFar
    /\ cmd.pc \in {"snapshot", "apply", "keep", "rollback"} =>
         FilesInPlace /\ ServicesReloaded
    /\ cmd.outcome \in {"restored", "kept"} => FilesInPlace /\ ServicesReloaded
    /\ cmd.pc = "keep" \/ cmd.outcome = "kept" => ruleset = cmd.artifact
    /\ cmd.outcome = "restored" => "nftables" \notin cmd.carried

-----------------------------------------------------------------------------
(* The two claims are about the files, the services and what is carried;   *)
(* a step that leaves those alone leaves the claims.                       *)
LEMMA Standing ==
    ASSUME UNCHANGED <<disk, running>>,
           cmd'.carried = cmd.carried, cmd'.artifact = cmd.artifact
    PROVE  (FilesInPlace' <=> FilesInPlace) /\ (ServicesReloaded' <=> ServicesReloaded)
BY DEF FilesInPlace, ServicesReloaded

(* Outside its write, reload and ruleset stages a run that did not succeed *)
(* promises nothing.                                                       *)
LEMMA NothingPromised ==
    ASSUME cmd'.pc \in {"idle", "collect", "hardware", "confirm", "ended"},
           cmd'.outcome \notin {"restored", "kept"}
    PROVE  OrderInv'
BY DEF OrderInv

(* One write: the file is in place from then on, the accounts or not.      *)
LEMMA WriteAdvances ==
    ASSUME TypeOK, RulesetInv, OrderInv, NEW part \in Files,
           WriteConfig(Cmd, part) \/ ApplyAccounts(Cmd)
    PROVE  OrderInv'
<1>1. /\ EngineTypeOK /\ cmd \in RunStates /\ disk \in [Files -> Versions \cup {Torn}]
      /\ "failed" \in Outcomes
  BY CmdTyped DEF TypeOK, EngineTypeOK, Outcomes
<1>2. cmd.pc = "write" /\ cmd.outcome = "none" /\ WrittenSoFar
  BY DEF WriteConfig, ApplyAccounts, RulesetInv, OrderInv, cmd
<1>3. CASE Ends(Cmd, "failed")
  <2>1. cmd' = [cmd EXCEPT !.pc = "ended", !.outcome = "failed"]
    BY <1>1, <1>3, CmdEnds
  <2> QED
    BY <1>1, <2>1, NothingPromised DEF RunStates
<1>4. ASSUME NEW step \in Files, Done(Cmd, step),
             \/ disk' = [disk EXCEPT ![step] = cmd.artifact]
             \/ disk' = disk /\ step = "accounts"
      PROVE  OrderInv'
  <2>1. cmd' = [cmd EXCEPT !.todo = cmd.todo \ {step}]
    BY <1>1, <1>4, CmdDone
  <2>2. /\ cmd'.pc = "write" /\ cmd'.outcome = "none"
        /\ cmd'.carried = cmd.carried /\ cmd'.artifact = cmd.artifact
        /\ cmd'.todo = cmd.todo \ {step}
    BY <1>1, <1>2, <2>1 DEF RunStates
  <2>3. ASSUME NEW other \in (cmd'.carried \cap Files) \ (cmd'.todo \cup {"accounts"})
        PROVE  disk'[other] = cmd'.artifact
    <3>1. CASE other = step
      BY <1>1, <1>4, <2>2, <2>3, <3>1
    <3>2. CASE other # step
      <4>1. disk[other] = cmd.artifact
        BY <1>2, <2>2, <2>3, <3>2 DEF WrittenSoFar
      <4> QED
        BY <1>1, <1>4, <2>2, <2>3, <3>2, <4>1
    <3> QED
      BY <3>1, <3>2
  <2>4. WrittenSoFar'
    BY <2>3 DEF WrittenSoFar
  <2> QED
    BY <2>2, <2>4 DEF OrderInv
<1>5. CASE WriteConfig(Cmd, part)
  BY <1>3, <1>4, <1>5 DEF WriteConfig, cmd
<1>6. CASE ApplyAccounts(Cmd)
  <2>1. "accounts" \in Files
    BY DEF Files
  <2> QED
    BY <1>3, <1>4, <1>6, <2>1 DEF ApplyAccounts, cmd
<1> QED
  BY <1>5, <1>6

(* One reload: its service has read its file from then on, unless its      *)
(* error is remembered.  Only wg-quick down undoes what a reload did, and  *)
(* it comes before wg-quick up.                                            *)
LEMMA ReloadAdvances ==
    ASSUME TypeOK, RulesetInv, OrderInv, NEW reload \in Reloads,
           RunReload(Cmd, reload)
    PROVE  OrderInv'
<1>1. /\ EngineTypeOK /\ cmd \in RunStates
      /\ running \in [Services -> Versions \cup {Torn, Down}]
      /\ run \in [Runs -> RunStates] /\ Cmd \in Runs
  BY CmdTyped DEF TypeOK, EngineTypeOK
<1>2. /\ cmd.pc = "reload" /\ cmd.outcome = "none" /\ FilesInPlace
      /\ reload \in cmd.todo /\ disk' = disk
      /\ "wgDown" \in cmd.todo => "wgUp" \in cmd.todo
      /\ ~cmd.badReload => ReadSoFar
  BY DEF RunReload, IsNext, RulesetInv, OrderInv, cmd
<1>3. reload = "wgUp" => "wgDown" \notin cmd.todo
  BY DEF RunReload, IsNext, cmd, Rank
<1>4. ASSUME NEW bad \in BOOLEAN,
             cmd' = [cmd EXCEPT !.todo = cmd.todo \ {reload}, !.badReload = bad],
             ~bad => ReadSoFar'
      PROVE  OrderInv'
  <2>1. /\ cmd'.pc = "reload" /\ cmd'.outcome = "none" /\ cmd'.badReload = bad
        /\ cmd'.carried = cmd.carried /\ cmd'.artifact = cmd.artifact
        /\ cmd'.todo = cmd.todo \ {reload}
    BY <1>1, <1>2, <1>4 DEF RunStates
  <2>2. FilesInPlace'
    BY <1>2, <2>1 DEF FilesInPlace
  <2>3. "wgDown" \in cmd'.todo => "wgUp" \in cmd'.todo
    BY <1>2, <1>3, <2>1
  <2> QED
    BY <1>4, <2>1, <2>2, <2>3 DEF OrderInv
<1>5. CASE /\ running' = [running EXCEPT ![Serves[reload]] =
                            IF reload = "wgDown" THEN Down ELSE disk[Serves[reload]]]
           /\ Done(Cmd, reload)
  <2>1. cmd' = [cmd EXCEPT !.todo = cmd.todo \ {reload}, !.badReload = cmd.badReload]
    BY <1>1, <1>5, CmdDone DEF RunStates
  <2>2. cmd'.carried = cmd.carried /\ cmd'.todo = cmd.todo \ {reload}
    BY <1>1, <2>1 DEF RunStates
  <2>3. ASSUME ~cmd.badReload,
               NEW other \in ReloadPlan(cmd.carried) \ (cmd'.todo \cup {"wgDown"})
        PROVE  running'[Serves[other]] = disk'[Serves[other]]
    <3>1. Serves[reload] \in Services /\ Serves[other] \in Services /\ other \in Reloads
      BY <2>3, ServesOne, TunnelsBounce
    <3>2. CASE other = reload
      BY <1>1, <1>2, <1>5, <2>3, <3>1, <3>2
    <3>3. CASE other # reload
      <4>1. other \notin cmd.todo
        BY <2>2, <2>3, <3>3
      <4>2. Serves[other] # Serves[reload]
        BY <1>2, <2>3, <3>1, <3>3, <4>1, ServesOne
      <4>3. running[Serves[other]] = disk[Serves[other]]
        BY <1>2, <2>3, <4>1 DEF ReadSoFar
      <4> QED
        BY <1>1, <1>2, <1>5, <3>1, <4>2, <4>3
    <3> QED
      BY <3>2, <3>3
  <2>4. ~cmd.badReload => ReadSoFar'
    BY <2>2, <2>3 DEF ReadSoFar
  <2> QED
    BY <1>1, <1>4, <2>1, <2>4 DEF RunStates
<1>6. CASE /\ run' = [run EXCEPT ![Cmd] =
                        [run[Cmd] EXCEPT !.todo = @ \ {reload},
                                         !.badReload = @ \/ reload # "wgDown"]]
           /\ UNCHANGED running
  <2> DEFINE bad == cmd.badReload \/ reload # "wgDown"
  <2>1. cmd' = [cmd EXCEPT !.todo = cmd.todo \ {reload}, !.badReload = bad]
    BY <1>1, <1>6 DEF cmd
  <2>2. cmd'.carried = cmd.carried /\ cmd'.todo = cmd.todo \ {reload}
    BY <1>1, <2>1 DEF RunStates
  <2>3. ~bad => ReadSoFar'
    BY <1>2, <1>6, <2>2 DEF ReadSoFar
  <2>4. bad \in BOOLEAN
    OBVIOUS
  <2> QED
    BY <1>4, <2>1, <2>3, <2>4
<1> QED
  BY <1>5, <1>6 DEF RunReload

(* The two loops end with all their work done.                             *)
LEMMA LoopsEnd ==
    ASSUME TypeOK, RulesetInv, OrderInv, WritesOver(Cmd) \/ ReloadsOver(Cmd)
    PROVE  OrderInv'
<1>1. cmd \in RunStates
  BY CmdTyped DEF TypeOK
<1>2. CASE WritesOver(Cmd)
  <2>1. /\ cmd'.pc = "reload" /\ cmd'.outcome = "none"
        /\ cmd'.todo = ReloadPlan(cmd.carried)
        /\ cmd'.carried = cmd.carried /\ cmd'.artifact = cmd.artifact
    BY <1>1, <1>2 DEF Becomes, cmd, WritesOver, RulesetInv, RunStates
  <2>2. FilesInPlace
    BY <1>2 DEF cmd, WritesOver, OrderInv, WrittenSoFar, FilesInPlace
  <2>3. FilesInPlace' /\ ReadSoFar'
    BY <1>2, <2>1, <2>2, Standing DEF WritesOver, machineVars, ReadSoFar
  <2> QED
    BY <2>1, <2>3, TunnelsBounce DEF OrderInv
<1>3. CASE ReloadsOver(Cmd)
  <2>1. /\ cmd'.pc \in {"snapshot", "ended"} /\ cmd'.outcome \in {"none", "restored"}
        /\ cmd'.outcome = "restored" => "nftables" \notin cmd.carried
        /\ cmd'.carried = cmd.carried /\ cmd'.artifact = cmd.artifact
    BY <1>1, <1>3 DEF Becomes, cmd, ReloadsOver, RulesetInv, RunStates
  <2>2. FilesInPlace /\ ReadSoFar /\ cmd.todo = {}
    BY <1>3 DEF cmd, ReloadsOver, OrderInv
  <2>3. ServicesReloaded
    <3> SUFFICES ASSUME NEW reload \in ReloadPlan(cmd.carried)
                 PROVE  running[Serves[reload]] = disk[Serves[reload]]
      BY DEF ServicesReloaded
    <3>1. CASE reload # "wgDown"
      BY <2>2, <3>1 DEF ReadSoFar
    <3>2. CASE reload = "wgDown"
      <4>1. "wgUp" \in ReloadPlan(cmd.carried) /\ Serves["wgUp"] = Serves[reload]
        BY <3>2, TunnelsBounce, ServesOne
      <4> QED
        BY <2>2, <4>1 DEF ReadSoFar
    <3> QED
      BY <3>1, <3>2
  <2>4. FilesInPlace' /\ ServicesReloaded'
    BY <1>3, <2>1, <2>2, <2>3, Standing DEF ReloadsOver, machineVars
  <2> QED
    BY <2>1, <2>4 DEF OrderInv
<1> QED
  BY <1>2, <1>3

(* A step of the engine.                                                   *)
LEMMA EngineOrdered ==
    ASSUME TypeOK, RulesetInv, OrderInv, Engine
    PROVE  OrderInv'
<1>1. cmd \in RunStates
  BY CmdTyped DEF TypeOK
<1>2. ASSUME NEW part \in Files, WriteConfig(Cmd, part) \/ ApplyAccounts(Cmd)
      PROVE  OrderInv'
  BY <1>2, WriteAdvances
<1>3. "accounts" \in Files
  BY DEF Files
<1>4. ASSUME NEW reload \in Reloads, RunReload(Cmd, reload)
      PROVE  OrderInv'
  BY <1>4, ReloadAdvances
<1>5. CASE FailsEarly(Cmd)
  BY <1>1, <1>5, NothingPromised DEF Becomes, cmd, FailsEarly, RunStates
<1>6. CASE WritesOver(Cmd) \/ ReloadsOver(Cmd)
  BY <1>6, LoopsEnd
<1>7. CASE SnapshotTaken(Cmd)
  BY <1>1, <1>7, Standing
  DEF Becomes, cmd, SnapshotTaken, machineVars, RulesetInv, OrderInv, RunStates
<1>8. CASE RulesetTried(Cmd)
  BY <1>1, <1>8, Standing DEF Becomes, cmd, RulesetTried, RulesetInv, OrderInv, RunStates
<1>9. CASE RolledBack(Cmd) \/ RollbackFails(Cmd)
  BY <1>1, <1>9, NothingPromised DEF Becomes, cmd, RolledBack, RollbackFails, RunStates
<1>10. CASE LoopsOn(Cmd)
  <2>1. cmd.pc \in {"write", "reload"} /\ cmd'.pc = cmd.pc
    BY <1>1, <1>10 DEF Becomes, cmd, LoopsOn, RunStates
  <2>2. \/ \E part \in Files : WriteConfig(Cmd, part)
        \/ ApplyAccounts(Cmd)
        \/ \E reload \in Reloads : RunReload(Cmd, reload)
        \/ WritesEnd(Cmd) \/ ReloadsEnd(Cmd)
    BY <2>1 DEF Engine, EngineStep, Snapshot, ApplyNftables, Rollback, cmd
  <2>3. ~WritesEnd(Cmd) /\ ~ReloadsEnd(Cmd)
    <3>1. /\ EngineTypeOK /\ {"reload", "snapshot"} \subseteq Pcs
          /\ {"failed", "restored"} \subseteq Outcomes
          /\ ReloadPlan(cmd.carried) \in SUBSET (Files \cup Reloads)
          /\ {} \in SUBSET (Files \cup Reloads)
      BY TunnelsBounce DEF TypeOK, Pcs, Outcomes
    <3>2. WritesEnd(Cmd) => cmd.pc = "write" /\ Moves(Cmd, "reload", ReloadPlan(cmd.carried))
      BY DEF WritesEnd, cmd
    <3>3. /\ Moves(Cmd, "reload", ReloadPlan(cmd.carried)) =>
               cmd' = [cmd EXCEPT !.pc = "reload", !.todo = ReloadPlan(cmd.carried)]
          /\ Moves(Cmd, "snapshot", {}) =>
               cmd' = [cmd EXCEPT !.pc = "snapshot", !.todo = {}]
      BY <3>1, CmdMoves
    <3>4. ReloadsEnd(Cmd) => /\ cmd.pc = "reload"
                             /\ \/ Ends(Cmd, "failed") \/ Ends(Cmd, "restored")
                                \/ Moves(Cmd, "snapshot", {})
      BY DEF ReloadsEnd, cmd
    <3>5. /\ Ends(Cmd, "failed") => cmd'.pc = "ended"
          /\ Ends(Cmd, "restored") => cmd'.pc = "ended"
      BY <1>1, <3>1, CmdEnds DEF RunStates
    <3>6. /\ Moves(Cmd, "reload", ReloadPlan(cmd.carried)) => cmd'.pc = "reload"
          /\ Moves(Cmd, "snapshot", {}) => cmd'.pc = "snapshot"
      BY <1>1, <3>3 DEF RunStates
    <3> QED
      BY <2>1, <3>2, <3>4, <3>5, <3>6
  <2> QED
    BY <1>2, <1>3, <1>4, <2>2, <2>3
<1> QED
  BY <1>5, <1>6, <1>7, <1>8, <1>9, <1>10, CmdEngineEffects

(* A step of the command.                                                  *)
LEMMA NextOrdered ==
    ASSUME TypeOK, RulesetInv, OrderInv, [Next]_vars
    PROVE  OrderInv'
<1>1. cmd \in RunStates
  BY CmdTyped DEF TypeOK
<1>2. CASE OpenArtifact \/ Collect \/ AnswerHardware
  <2>1. cmd.pc # "ended" /\ cmd.outcome = "none"
    BY <1>2 DEF OpenArtifact, Collect, AnswerHardware, RulesetInv, cmd
  <2> QED
    BY <1>1, <1>2, <2>1, Effects, NothingPromised DEF RunStates
<1>3. CASE AnswerApply
  <2>1. cmd.outcome = "none"
    BY <1>3 DEF AnswerApply, RulesetInv, cmd
  <2>2. CASE cmd' = [cmd EXCEPT !.pc = "ended", !.outcome = "aborted"]
    BY <1>1, <2>2, NothingPromised DEF RunStates
  <2>3. CASE cmd' = [cmd EXCEPT !.pc = "write", !.todo = cmd.carried \cap Files]
    BY <1>1, <2>1, <2>3 DEF OrderInv, WrittenSoFar, RunStates
  <2> QED
    BY <1>3, <2>2, <2>3, Effects
<1>4. CASE Engine
  BY <1>4, EngineOrdered
<1>5. CASE Commit(Cmd)
  <2>1. cmd.pc = "keep" /\ cmd.outcome = "none" /\ UNCHANGED machineVars
    BY <1>5 DEF Commit, RulesetInv, cmd
  <2>2. cmd' = [cmd EXCEPT !.pc = "ended", !.awaiting = FALSE, !.outcome = "kept"]
    BY <1>5, Effects
  <2> QED
    BY <1>1, <2>1, <2>2, Standing DEF machineVars, OrderInv, RunStates
<1>6. CASE NotKept(Cmd)
  <2>1. cmd.pc = "keep" /\ cmd.outcome = "none" /\ UNCHANGED machineVars
    BY <1>6 DEF NotKept, RulesetInv, cmd
  <2>2. cmd' = [cmd EXCEPT !.pc = "rollback", !.todo = {}]
    BY <1>6, Effects
  <2> QED
    BY <1>1, <2>1, <2>2, Standing DEF machineVars, OrderInv, RunStates
<1>7. CASE Clock
  <2>1. PICK ctx, window : cmd' = [cmd EXCEPT !.ctx = ctx, !.window = window]
    BY <1>7, Effects
  <2>2. UNCHANGED <<disk, running, ruleset>>
    BY <1>7 DEF Clock, Tick, machineVars
  <2>3. /\ cmd'.pc = cmd.pc /\ cmd'.outcome = cmd.outcome
        /\ cmd'.carried = cmd.carried /\ cmd'.artifact = cmd.artifact
        /\ cmd'.todo = cmd.todo /\ cmd'.badReload = cmd.badReload
    BY <1>1, <2>1 DEF RunStates
  <2>4. (WrittenSoFar' <=> WrittenSoFar) /\ (ReadSoFar' <=> ReadSoFar)
    BY <2>2, <2>3 DEF WrittenSoFar, ReadSoFar
  <2> QED
    BY <2>2, <2>3, <2>4, Standing DEF OrderInv
<1>8. CASE Death
  <2>1. cmd'.pc = "ended" /\ cmd'.outcome = "gone"
    BY <1>1, <1>8, Effects DEF RunStates
  <2> QED
    BY <2>1, NothingPromised
<1>9. CASE Exited \/ UNCHANGED vars
  <2>1. UNCHANGED <<disk, running, ruleset, cmd>>
    BY <1>9 DEF Exited, vars, cmd
  <2> QED
    BY <2>1 DEF OrderInv, WrittenSoFar, ReadSoFar, FilesInPlace, ServicesReloaded
<1> QED
  BY <1>2, <1>3, <1>4, <1>5, <1>6, <1>7, <1>8, <1>9
  DEF Next, PreConfirmedKeep, AnswerKeep, KeepTimesOut

(* How far the run has come is right throughout.                           *)
LEMMA OrderInvariant == Spec => [](TypeOK /\ RulesetInv /\ OrderInv)
<1>1. Init => OrderInv
  BY InitRun DEF NotStarted, OrderInv
<1>2. TypeOK /\ RulesetInv /\ OrderInv /\ [Next]_vars => OrderInv'
  BY NextOrdered
<1> QED
  BY <1>1, <1>2, RulesetInvariant, PTL DEF Spec

(* A command that says it restored did (runRestore, applyRestore): every   *)
(* file but the best-effort accounts is in place, every service whose      *)
(* reload is installed runs on it, and a kept ruleset is the artifact's.   *)
(* It holds for every artifact and whatever fails on the way.              *)
THEOREM RestoredMeansRestored == Spec => []SuccessMeansRestored
<1>1. OrderInv /\ RulesetInv => SuccessMeansRestored
  BY DEF OrderInv, RulesetInv, SuccessMeansRestored
<1> QED
  BY <1>1, OrderInvariant, PTL

(* The ruleset is tried only once everything else is in place and read.    *)
THEOREM RulesetIsLast == Spec => RulesetComesLast
<1>1. OrderInv => (cmd.pc = "apply" /\ ruleset' # ruleset
                     => FilesInPlace /\ ServicesReloaded)
  BY DEF OrderInv
<1> QED
  BY <1>1, OrderInvariant, PTL DEF Spec, RulesetComesLast
=============================================================================
