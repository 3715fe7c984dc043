-------------------------- MODULE RestoreEngineProofs --------------------------
(***************************************************************************)
(* Lemmas about the restore engine that the proofs of its two callers, the *)
(* restore command and the backup screen, share: the types its steps keep  *)
(* and what each step makes of the run it belongs to.                      *)
(***************************************************************************)
EXTENDS RestoreEngine, TLAPS

(* The fields of a run have their types.                                   *)
LEMMA RunTyped ==
    ASSUME EngineTypeOK, NEW r \in Runs
    PROVE  /\ run \in [Runs -> RunStates]
           /\ run[r] \in RunStates
           /\ run[r].artifact \in Versions /\ run[r].snapshot \in Versions
           /\ run[r].awaiting \in BOOLEAN /\ run[r].badReload \in BOOLEAN
BY DEF EngineTypeOK, RunStates

(* A new context and a new window are within their bounds.                 *)
LEMMA WindowsOpen ==
    CtxTimeout \in 0 .. CtxTimeout /\ KeepTimeout \in 0 .. KeepTimeout
BY EngineAssumption

(* Every reload serves one service, and only the two wg-quick reloads      *)
(* serve the same one.                                                     *)
LEMMA ServesOne ==
    /\ \A reload \in Reloads : Serves[reload] \in Services
    /\ \A reload, other \in Reloads :
         Serves[reload] = Serves[other]
           => reload = other \/ (reload \in {"wgDown", "wgUp"}
                                 /\ other \in {"wgDown", "wgUp"})
    /\ Serves["wgDown"] = Serves["wgUp"]
BY DEF Reloads, Serves, Services

(* wg-quick down and wg-quick up are planned together.                     *)
LEMMA TunnelsBounce ==
    ASSUME NEW carried
    PROVE  /\ ReloadPlan(carried) \subseteq Reloads
           /\ "wgDown" \in ReloadPlan(carried) <=> "wgUp" \in ReloadPlan(carried)
BY DEF ReloadPlan, Reloads, Needs, Uses

(* The machine and the run the engine starts from are typed.               *)
LEMMA EngineInitTyped ==
    ASSUME EngineInit
    PROVE  EngineTypeOK
<1>1. NotStarted \in RunStates
  BY EngineAssumption DEF NotStarted, RunStates, Pcs, Outcomes, Versions
<1> QED
  BY <1>1 DEF EngineInit, EngineTypeOK, Versions

-----------------------------------------------------------------------------
(* What the engine's ways of moving on make of a run, and of the others.   *)
Becomes(r, state) ==
    /\ run' \in [Runs -> RunStates]
    /\ run'[r] = state
    /\ \A other \in Runs \ {r} : run'[other] = run[other]

LEMMA Replaced ==
    ASSUME EngineTypeOK, NEW r \in Runs, NEW state \in RunStates,
           run' = [run EXCEPT ![r] = state]
    PROVE  Becomes(r, state)
BY DEF EngineTypeOK, Becomes

LEMMA MovesTyped ==
    ASSUME EngineTypeOK, NEW r \in Runs,
           NEW pc \in Pcs, NEW todo \in SUBSET (Files \cup Reloads),
           Moves(r, pc, todo)
    PROVE  Becomes(r, [run[r] EXCEPT !.pc = pc, !.todo = todo])
<1>1. [run[r] EXCEPT !.pc = pc, !.todo = todo] \in RunStates
  BY RunTyped DEF RunStates
<1> QED
  BY <1>1, Replaced DEF Moves

LEMMA EndsTyped ==
    ASSUME EngineTypeOK, NEW r \in Runs, NEW outcome \in Outcomes, Ends(r, outcome)
    PROVE  Becomes(r, [run[r] EXCEPT !.pc = "ended", !.outcome = outcome])
<1>1. [run[r] EXCEPT !.pc = "ended", !.outcome = outcome] \in RunStates
  <2>1. "ended" \in Pcs
    BY DEF Pcs
  <2> QED
    BY <2>1, RunTyped DEF RunStates
<1> QED
  BY <1>1, Replaced DEF Ends

LEMMA DoneTyped ==
    ASSUME EngineTypeOK, NEW r \in Runs, NEW step, Done(r, step)
    PROVE  Becomes(r, [run[r] EXCEPT !.todo = run[r].todo \ {step}])
<1>1. [run[r] EXCEPT !.todo = run[r].todo \ {step}] \in RunStates
  BY RunTyped DEF RunStates
<1> QED
  BY <1>1, Replaced DEF Done

-----------------------------------------------------------------------------
(* What a step of the engine is, whatever it does to the files and the     *)
(* services: a step of one of its two loops, an early failure, the end of  *)
(* a loop, or one of the steps around the ruleset.                         *)
LoopsOn(r) ==
    /\ run[r].pc \in {"write", "reload"} /\ ruleset' = ruleset
    /\ \E todo, bad :
         Becomes(r, [run[r] EXCEPT !.todo = todo, !.badReload = bad])

FailsEarly(r) ==
    /\ run[r].pc \in {"write", "reload", "snapshot", "apply"}
    /\ ruleset' = ruleset
    /\ Becomes(r, [run[r] EXCEPT !.pc = "ended", !.outcome = "failed"])

WritesOver(r) ==
    /\ run[r].pc = "write" /\ run[r].todo = {} /\ UNCHANGED machineVars
    /\ Becomes(r, [run[r] EXCEPT !.pc = "reload",
                                 !.todo = ReloadPlan(run[r].carried)])

ReloadsOver(r) ==
    /\ run[r].pc = "reload" /\ run[r].todo = {} /\ ~run[r].badReload
    /\ UNCHANGED machineVars
    /\ \/ /\ Becomes(r, [run[r] EXCEPT !.pc = "ended", !.outcome = "restored"])
          /\ "nftables" \notin run[r].carried
       \/ Becomes(r, [run[r] EXCEPT !.pc = "snapshot", !.todo = {}])

SnapshotTaken(r) ==
    /\ run[r].pc = "snapshot" /\ UNCHANGED machineVars
    /\ Becomes(r, [run[r] EXCEPT !.pc = "apply", !.snapshot = ruleset])

RulesetTried(r) ==
    /\ run[r].pc = "apply" /\ UNCHANGED <<disk, running>>
    /\ ruleset' = run[r].artifact
    /\ Becomes(r, [run[r] EXCEPT !.pc = "keep", !.awaiting = TRUE,
                                 !.window = KeepTimeout])

RolledBack(r) ==
    /\ run[r].pc = "rollback" /\ UNCHANGED <<disk, running>>
    /\ ruleset' = run[r].snapshot
    /\ Becomes(r, [run[r] EXCEPT !.pc = "ended", !.awaiting = FALSE,
                                 !.outcome = "rolledback"])

RollbackFails(r) ==
    /\ run[r].pc = "rollback" /\ UNCHANGED machineVars
    /\ Becomes(r, [run[r] EXCEPT !.pc = "ended", !.outcome = "stuck"])

(* The files and the services keep their types over every step of the      *)
(* engine, and every step is one of the above.                             *)
LEMMA EngineEffects ==
    ASSUME EngineTypeOK, NEW r \in Runs, EngineStep(r)
    PROVE  /\ disk' \in [Files -> Versions \cup {Torn}]
           /\ running' \in [Services -> Versions \cup {Torn, Down}]
           /\ \/ LoopsOn(r) \/ FailsEarly(r) \/ WritesOver(r) \/ ReloadsOver(r)
              \/ SnapshotTaken(r) \/ RulesetTried(r) \/ RolledBack(r)
              \/ RollbackFails(r)
<1> DEFINE Typed == /\ disk' \in [Files -> Versions \cup {Torn}]
                    /\ running' \in [Services -> Versions \cup {Torn, Down}]
<1>1. /\ run \in [Runs -> RunStates] /\ run[r] \in RunStates
      /\ run[r].artifact \in Versions /\ ruleset \in Versions
      /\ disk \in [Files -> Versions \cup {Torn}]
      /\ running \in [Services -> Versions \cup {Torn, Down}]
  BY RunTyped DEF EngineTypeOK
<1>2. /\ {"failed", "restored", "stuck"} \subseteq Outcomes
      /\ {"reload", "snapshot"} \subseteq Pcs
      /\ {} \in SUBSET (Files \cup Reloads)
      /\ ReloadPlan(run[r].carried) \in SUBSET (Files \cup Reloads)
  BY TunnelsBounce DEF Outcomes, Pcs
<1>3. ASSUME NEW step, Done(r, step)
      PROVE  \E todo, bad :
               Becomes(r, [run[r] EXCEPT !.todo = todo, !.badReload = bad])
  <2>1. [run[r] EXCEPT !.todo = run[r].todo \ {step}]
          = [run[r] EXCEPT !.todo = run[r].todo \ {step}, !.badReload = run[r].badReload]
    BY <1>1 DEF RunStates
  <2>2. Becomes(r, [run[r] EXCEPT !.todo = run[r].todo \ {step},
                                  !.badReload = run[r].badReload])
    BY <1>3, <2>1, DoneTyped
  <2> QED
    BY <2>2
<1>4. Ends(r, "failed") => Becomes(r, [run[r] EXCEPT !.pc = "ended", !.outcome = "failed"])
  BY <1>2, EndsTyped
<1>5. ASSUME NEW part \in Files, WriteConfig(r, part)
      PROVE  Typed /\ (LoopsOn(r) \/ FailsEarly(r))
  BY <1>1, <1>3, <1>4, <1>5 DEF WriteConfig, LoopsOn, FailsEarly
<1>6. ASSUME ApplyAccounts(r)
      PROVE  Typed /\ (LoopsOn(r) \/ FailsEarly(r))
  BY <1>1, <1>3, <1>4, <1>6 DEF ApplyAccounts, LoopsOn, FailsEarly
<1>7. ASSUME NEW reload \in Reloads, RunReload(r, reload)
      PROVE  Typed /\ LoopsOn(r)
  <2>1. Serves[reload] \in Services /\ Serves[reload] \in Files
    BY DEF Reloads, Serves, Services, Files
  <2>2. Typed /\ ruleset' = ruleset /\ run[r].pc = "reload"
    BY <1>1, <1>7, <2>1 DEF RunReload
  <2>3. ASSUME run' = [run EXCEPT ![r] =
                         [run[r] EXCEPT !.todo = @ \ {reload},
                                        !.badReload = @ \/ reload # "wgDown"]]
        PROVE  \E todo, bad :
                 Becomes(r, [run[r] EXCEPT !.todo = todo, !.badReload = bad])
    <3>1. [run[r] EXCEPT !.todo = run[r].todo \ {reload},
                         !.badReload = run[r].badReload \/ reload # "wgDown"] \in RunStates
      BY <1>1 DEF RunStates
    <3>2. Becomes(r, [run[r] EXCEPT !.todo = run[r].todo \ {reload},
                         !.badReload = run[r].badReload \/ reload # "wgDown"])
      BY <2>3, <3>1, Replaced
    <3> QED
      BY <3>2
  <2> QED
    BY <1>3, <1>7, <2>2, <2>3 DEF RunReload, LoopsOn
<1>8. ASSUME WritesEnd(r)
      PROVE  Typed /\ WritesOver(r)
  <2>1. Moves(r, "reload", ReloadPlan(run[r].carried)) /\ run[r].pc = "write"
        /\ run[r].todo = {} /\ UNCHANGED machineVars
    BY <1>8 DEF WritesEnd
  <2>2. Becomes(r, [run[r] EXCEPT !.pc = "reload", !.todo = ReloadPlan(run[r].carried)])
    BY <1>2, <2>1, MovesTyped
  <2> QED
    BY <1>1, <2>1, <2>2 DEF WritesOver, machineVars
<1>9. ASSUME ReloadsEnd(r)
      PROVE  Typed /\ (FailsEarly(r) \/ ReloadsOver(r))
  <2>1. /\ run[r].pc = "reload" /\ run[r].todo = {} /\ UNCHANGED machineVars
        /\ Typed /\ ruleset' = ruleset
    BY <1>1, <1>9 DEF ReloadsEnd, machineVars
  <2>2. CASE run[r].badReload /\ Ends(r, "failed")
    BY <1>4, <2>1, <2>2 DEF FailsEarly
  <2>3. CASE /\ ~run[r].badReload
             /\ "nftables" \notin run[r].carried /\ Ends(r, "restored")
    BY <1>2, <2>1, <2>3, EndsTyped DEF ReloadsOver
  <2>4. CASE ~run[r].badReload /\ Moves(r, "snapshot", {})
    <3>1. Becomes(r, [run[r] EXCEPT !.pc = "snapshot", !.todo = {}])
      BY <1>2, <2>4, MovesTyped
    <3> QED
      BY <2>1, <2>4, <3>1 DEF ReloadsOver
  <2> QED
    BY <1>9, <2>2, <2>3, <2>4 DEF ReloadsEnd
<1>10. ASSUME Snapshot(r)
       PROVE  Typed /\ (FailsEarly(r) \/ SnapshotTaken(r))
  <2>1. [run[r] EXCEPT !.pc = "apply", !.snapshot = ruleset] \in RunStates
    BY <1>1 DEF RunStates, Pcs
  <2>2. run' = [run EXCEPT ![r] = [run[r] EXCEPT !.pc = "apply", !.snapshot = ruleset]]
          => Becomes(r, [run[r] EXCEPT !.pc = "apply", !.snapshot = ruleset])
    BY <2>1, Replaced
  <2> QED
    BY <1>1, <1>4, <1>10, <2>2 DEF Snapshot, machineVars, FailsEarly, SnapshotTaken
<1>11. ASSUME ApplyNftables(r)
       PROVE  Typed /\ (FailsEarly(r) \/ RulesetTried(r))
  <2> DEFINE tried == [run[r] EXCEPT !.pc = "keep", !.awaiting = TRUE,
                                     !.window = KeepTimeout]
  <2>1. tried \in RunStates
    BY <1>1, WindowsOpen DEF RunStates, Pcs
  <2>2. run' = [run EXCEPT ![r] = tried] => Becomes(r, tried)
    BY <2>1, Replaced
  <2>3. Typed /\ run[r].pc = "apply" /\ UNCHANGED <<disk, running>>
    BY <1>1, <1>11 DEF ApplyNftables
  <2> QED
    BY <1>4, <1>11, <2>2, <2>3 DEF ApplyNftables, FailsEarly, RulesetTried
<1>12. ASSUME Rollback(r)
       PROVE  Typed /\ (RolledBack(r) \/ RollbackFails(r))
  <2> DEFINE back == [run[r] EXCEPT !.pc = "ended", !.awaiting = FALSE,
                                    !.outcome = "rolledback"]
  <2>1. back \in RunStates
    BY <1>1 DEF RunStates, Pcs, Outcomes
  <2>2. run' = [run EXCEPT ![r] = back] => Becomes(r, back)
    BY <2>1, Replaced
  <2>3. Ends(r, "stuck") => Becomes(r, [run[r] EXCEPT !.pc = "ended", !.outcome = "stuck"])
    BY <1>2, EndsTyped
  <2>4. Typed /\ run[r].pc = "rollback" /\ UNCHANGED <<disk, running>>
    BY <1>1, <1>12 DEF Rollback
  <2> QED
    BY <1>12, <2>2, <2>3, <2>4 DEF Rollback, machineVars, RolledBack, RollbackFails
<1> QED
  BY <1>5, <1>6, <1>7, <1>8, <1>9, <1>10, <1>11, <1>12 DEF EngineStep

(* So the engine keeps its types.                                          *)
LEMMA EngineTyped ==
    ASSUME EngineTypeOK, NEW r \in Runs, EngineStep(r)
    PROVE  EngineTypeOK'
<1>1. run' \in [Runs -> RunStates]
  BY EngineEffects
  DEF LoopsOn, FailsEarly, WritesOver, ReloadsOver, SnapshotTaken, RulesetTried,
      RolledBack, RollbackFails, Becomes
<1>2. ruleset' \in Versions
  BY RunTyped, EngineEffects
  DEF EngineTypeOK, machineVars, LoopsOn, FailsEarly, WritesOver, ReloadsOver, SnapshotTaken,
      RulesetTried, RolledBack, RollbackFails
<1> QED
  BY <1>1, <1>2, EngineEffects DEF EngineTypeOK

(* Time keeps them: a context and a window are counted down only while     *)
(* there is something left of them, and no run gets any further.           *)
LEMMA TickTyped ==
    ASSUME EngineTypeOK, Tick
    PROVE  /\ EngineTypeOK'
           /\ \A r \in Runs : \E ctx, window :
                run'[r] = [run[r] EXCEPT !.ctx = ctx, !.window = window]
<1>1. run \in [Runs -> RunStates]
  BY DEF EngineTypeOK
<1>2. ASSUME NEW r \in Runs
      PROVE  [run[r] EXCEPT
                !.ctx = IF Active(r) /\ run[r].ctx > 0 THEN run[r].ctx - 1 ELSE run[r].ctx,
                !.window = IF run[r].pc = "keep" THEN run[r].window - 1
                           ELSE run[r].window] \in RunStates
  <2>1. run[r] \in RunStates /\ (run[r].pc = "keep" => run[r].window > 0)
    BY <1>1 DEF Tick
  <2>2. run[r].ctx \in 0 .. CtxTimeout /\ run[r].window \in 0 .. KeepTimeout
    BY <2>1 DEF RunStates
  <2>3. /\ (IF Active(r) /\ run[r].ctx > 0 THEN run[r].ctx - 1 ELSE run[r].ctx)
             \in 0 .. CtxTimeout
        /\ (IF run[r].pc = "keep" THEN run[r].window - 1 ELSE run[r].window)
             \in 0 .. KeepTimeout
    BY <2>1, <2>2, EngineAssumption
  <2> QED
    BY <2>1, <2>3 DEF RunStates
<1>3. run' \in [Runs -> RunStates]
  BY <1>2 DEF Tick
<1>4. \A r \in Runs : \E ctx, window :
         run'[r] = [run[r] EXCEPT !.ctx = ctx, !.window = window]
  BY DEF Tick
<1> QED
  BY <1>3, <1>4 DEF Tick, machineVars, EngineTypeOK

(* Commit and NotKept, the two answers to the keep question.               *)
LEMMA AnswersTyped ==
    ASSUME EngineTypeOK, NEW r \in Runs
    PROVE  /\ Commit(r) => Becomes(r, [run[r] EXCEPT !.pc = "ended", !.awaiting = FALSE,
                                                    !.outcome = "kept"])
           /\ NotKept(r) => Becomes(r, [run[r] EXCEPT !.pc = "rollback", !.todo = {}])
<1>1. [run[r] EXCEPT !.pc = "ended", !.awaiting = FALSE, !.outcome = "kept"] \in RunStates
  <2>1. "ended" \in Pcs /\ "kept" \in Outcomes /\ FALSE \in BOOLEAN
    BY DEF Pcs, Outcomes
  <2>2. run[r] \in RunStates
    BY RunTyped
  <2> QED
    BY <2>1, <2>2 DEF RunStates
<1>2. "rollback" \in Pcs /\ {} \in SUBSET (Files \cup Reloads)
  BY DEF Pcs
<1>3. Commit(r) => run' = [run EXCEPT ![r] = [run[r] EXCEPT !.pc = "ended",
                                               !.awaiting = FALSE, !.outcome = "kept"]]
  BY DEF Commit
<1>4. Commit(r) => Becomes(r, [run[r] EXCEPT !.pc = "ended", !.awaiting = FALSE,
                                             !.outcome = "kept"])
  BY <1>1, <1>3, Replaced
<1>5. NotKept(r) => Becomes(r, [run[r] EXCEPT !.pc = "rollback", !.todo = {}])
  BY <1>2, MovesTyped DEF NotKept
<1> QED
  BY <1>4, <1>5
=============================================================================
