------------------------------ MODULE RolesHost ------------------------------
(***************************************************************************)
(* The router as the roles wizard sees it: the roles.conf the profile's    *)
(* network script reads, its revert copy, the mapping networkd runs, and   *)
(* the transient systemd unit pair that restores the copy when nobody      *)
(* confirms connectivity.  Nothing here belongs to the tui-router process: *)
(* it all survives the process.                                            *)
(*                                                                         *)
(* systemd and omarchy-router-nics are external.  What they do is taken    *)
(* from how internal/router/roles.go and roles_real.go drive them and from *)
(* the comments there (a unit is collected once it ends, a stop of a       *)
(* collected unit says "not loaded").                                      *)
(***************************************************************************)
EXTENDS Naturals

CONSTANTS
    Assignments,   \* the contents RenderRolesConf produces: one WAN, one LAN
    Empty,         \* the content read from an absent or an empty roles.conf
    RevertDelay,   \* ticks between arming the revert and its firing
    HasSystemdRun  \* systemd-run is installed and a runner for it was built

ASSUME HostAssumption ==
    /\ Empty \notin Assignments
    /\ RevertDelay \in Nat
    /\ HasSystemdRun \in BOOLEAN

Contents == Assignments \cup {Empty}

VARIABLES
    conf,      \* roles.conf
    prevConf,  \* roles.conf.prev, the fixed path the revert copies from
    live,      \* the content whose mapping omarchy-router-nics last applied
    unit       \* the tui-router-roles-revert timer and service

hostVars == <<conf, prevConf, live, unit>>

Phases == {"none", "armed", "copying", "applying", "failed"}

(* from and was are history: the content the arming apply was given as the *)
(* previous one, and the mapping that was live when it armed.              *)
Units == [phase : Phases, left : 0 .. RevertDelay,
          from : Contents, was : Contents]

Ended(phase) == [phase |-> phase, left |-> 0, from |-> Empty, was |-> Empty]

Unloaded == Ended("none")

HostTypeOK ==
    /\ conf \in Contents
    /\ prevConf \in Contents
    /\ live \in Contents
    /\ unit \in Units

(* roles.conf may have been edited by hand, or written and not applied, so *)
(* that it is not what is live; the copy is that of any earlier session.   *)
HostInit ==
    /\ conf \in Contents
    /\ live \in Contents
    /\ prevConf \in Contents
    /\ unit = Unloaded

Firing == unit.phase \in {"copying", "applying"}
Pending == unit.phase = "armed" \/ Firing

(* What a copy that does not come to its end may leave: the old file, an   *)
(* empty one (one cut short counts as that) or the new one.                *)
CutShort(old, new) == {old, Empty, new}

-----------------------------------------------------------------------------
(* systemd-run --on-active refuses a unit name that is still loaded, and a *)
(* unit whose service failed stays loaded.                                 *)
CanArm == unit.phase = "none"

(* Mutation: the delay is lost on the way into the argv.                   *)
ArmedWithoutDelay(from) ==
    unit' = [phase |-> "armed", left |-> 0, from |-> from, was |-> live]

Armed(from) ==
    unit' = [phase |-> "armed", left |-> RevertDelay,
             from |-> from, was |-> live]

(* systemctl stop of the service: stopped half way it leaves what it had   *)
(* done, and a failed one is not unloaded by a stop.                       *)
ServiceStopped ==
    /\ unit' = IF Firing THEN Unloaded ELSE unit
    /\ IF unit.phase = "copying" THEN conf' \in CutShort(conf, prevConf)
       ELSE UNCHANGED conf
    /\ IF unit.phase = "applying" THEN live' \in {live, conf}
       ELSE UNCHANGED live

(* systemctl stop of the timer.  The service of a timer that has elapsed   *)
(* runs on.                                                                *)
TimerStopped ==
    unit' = IF unit.phase = "armed" THEN Unloaded ELSE unit

TimerElapsed == unit.phase = "armed" /\ unit.left = 0

(* The timer elapses and starts the service.                               *)
RevertFires ==
    /\ TimerElapsed
    /\ unit' = [unit EXCEPT !.phase = "copying"]
    /\ UNCHANGED <<conf, prevConf, live>>

(* Mutation: the shell line restores the file and does not re-apply it.    *)
RevertOnlyCopies ==
    /\ unit.phase = "copying"
    /\ conf' = prevConf
    /\ unit' = Unloaded
    /\ UNCHANGED <<prevConf, live>>

(* cp roles.conf.prev roles.conf, the first half of revertShellCommand.    *)
RevertCopies ==
    /\ unit.phase = "copying"
    /\ \/ /\ conf' = prevConf
          /\ unit' = [unit EXCEPT !.phase = "applying"]
       \/ /\ conf' \in CutShort(conf, prevConf)
          /\ unit' = Ended("failed")
    /\ UNCHANGED <<prevConf, live>>

(* omarchy-router-nics --apply, the second half.  Success collects the     *)
(* unit; a failure may have rewritten the mapping or not.                  *)
RevertApplies ==
    /\ unit.phase = "applying"
    /\ \/ /\ live' = conf
          /\ unit' = Unloaded
       \/ /\ live' \in {live, conf}
          /\ unit' = Ended("failed")
    /\ UNCHANGED <<conf, prevConf>>

RevertService == RevertFires \/ RevertCopies \/ RevertApplies
=============================================================================
