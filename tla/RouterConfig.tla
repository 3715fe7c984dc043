----------------------------- MODULE RouterConfig -----------------------------
(***************************************************************************)
(* What a router's configuration files go through: the roles wizard edits  *)
(* roles.conf (the selection of cmd/tui-router/wizard.go), an export packs *)
(* all of them into an artifact, the artifact is damaged or not on its     *)
(* way, and a restore writes what it carries on some machine.  This is     *)
(* about contents: how the commands fail, and the ruleset under its keep   *)
(* window, are in RoleManager and RestoreEngine.                           *)
(***************************************************************************)
EXTENDS Artifact, UnifiedDiff

CONSTANTS
    Machines,   \* the machines: their files and their ports
    MaxEdits    \* how many times the wizard is opened

(* A file is the lines it has.                                             *)
ASSUME ConfigAssumption ==
    /\ MaxEdits \in Nat
    /\ \A machine \in Machines :
         machine.ports \in Seq([name : STRING \ {""}, mac : STRING])
    /\ \A machine \in Machines : \A path \in DOMAIN machine.disk :
         LET text == machine.disk[path] IN
         /\ path.subsystem \in Subsystems
         /\ path = RolesPath => text \in Seq(Lines)
         /\ path # RolesPath => text \in Seq(Words)

VARIABLES
    disk,       \* the files of the machine, and its ruleset
    ports,      \* its network ports
    screen,     \* the wizard
    edits,      \* the times it was opened
    archive,    \* the files of the artifact, << >> before there is one
    origin,     \* history: what it was exported from, and its signer
    damaged,    \* history: something happened to it
    opened,     \* the restore: what Open returned, and the confirmations
    restored    \* the items the restore has written

wizardVars == <<screen, edits>>
archiveVars == <<archive, origin, damaged>>
restoreVars == <<opened, restored>>
vars == <<disk, ports, screen, edits, archive, origin, damaged, opened, restored>>

Roles == {"none", "wan", "lan"}

RolesText(files) == IF RolesPath \in DOMAIN files THEN files[RolesPath] ELSE << >>

Closed == [step |-> "closed", rows |-> << >>, prev |-> << >>, content |-> << >>]

NotOpened == [status |-> "none", sources |-> << >>, verifier |-> NoKey,
              missing |-> {}, agreed |-> FALSE]

TypeOK ==
    /\ \A path \in DOMAIN disk : path.subsystem \in Subsystems
    /\ \E machine \in Machines : ports = machine.ports
    /\ screen.step \in {"closed", "select", "writeConfirm", "written"}
    /\ \A i \in DOMAIN screen.rows :
         /\ screen.rows[i].role \in Roles
         /\ screen.rows[i].byMac => screen.rows[i].mac # ""
    /\ edits \in 0 .. MaxEdits
    /\ damaged \in BOOLEAN
    /\ opened.status \in {"none", "refused", "accepted"}
    /\ opened.missing \cap {ports[i].name : i \in DOMAIN ports} = {}
    /\ opened.agreed \in BOOLEAN
    /\ restored \subseteq Items(opened.sources)

Init ==
    /\ \E machine \in Machines :
         disk = machine.disk /\ ports = machine.ports
    /\ screen = Closed
    /\ edits = 0
    /\ archive = << >>
    /\ origin = [sources |-> << >>, signer |-> NoKey]
    /\ damaged = FALSE
    /\ opened = NotOpened
    /\ restored = {}

-----------------------------------------------------------------------------
(* The wizard's selection.                                                 *)

Lists(set, member) == member # "" /\ member \in ToSet(set)

Row(port, role, byMac) ==
    [name |-> port.name, mac |-> port.mac, role |-> role, byMac |-> byMac]

(* Mutation: a port found by its MAC is listed by its name.                *)
SeedUnpinned(port, conf) ==
    IF Lists(conf.wanIfs, port.name) THEN Row(port, "wan", FALSE)
    ELSE IF Lists(conf.wanMacs, port.mac) THEN Row(port, "wan", FALSE)
    ELSE IF Lists(conf.lanIfs, port.name) THEN Row(port, "lan", FALSE)
    ELSE IF Lists(conf.lanMacs, port.mac) THEN Row(port, "lan", FALSE)
    ELSE Row(port, "none", FALSE)

(* newWizard: the row of a port.  The first set that lists it gives it its *)
(* one role.                                                               *)
Seed(port, conf) ==
    IF Lists(conf.wanIfs, port.name) THEN Row(port, "wan", FALSE)
    ELSE IF Lists(conf.wanMacs, port.mac) THEN Row(port, "wan", TRUE)
    ELSE IF Lists(conf.lanIfs, port.name) THEN Row(port, "lan", FALSE)
    ELSE IF Lists(conf.lanMacs, port.mac) THEN Row(port, "lan", TRUE)
    ELSE Row(port, "none", FALSE)

Seeds(text) ==
    LET conf == ParseRolesConf(text)
    IN  [i \in DOMAIN ports |-> Seed(ports[i], conf)]

ListedNames(rows, role) ==
    FlattenSeq([i \in DOMAIN rows |->
                  IF rows[i].role = role /\ ~rows[i].byMac
                  THEN <<rows[i].name>> ELSE << >>])

ListedMacs(rows, role) ==
    FlattenSeq([i \in DOMAIN rows |->
                  IF rows[i].role = role /\ rows[i].byMac
                  THEN <<rows[i].mac>> ELSE << >>])

(* assignment, with the other lines of the file the wizard was opened on.  *)
Assignment(rows, extras) ==
    [wanIfs |-> ListedNames(rows, "wan"), wanMacs |-> ListedMacs(rows, "wan"),
     lanIfs |-> ListedNames(rows, "lan"), lanMacs |-> ListedMacs(rows, "lan"),
     extras |-> extras]

OnlyScreen == UNCHANGED <<disk, ports, edits, archiveVars, restoreVars>>

(* Bound: MaxEdits sessions of the wizard, before the export.              *)
EditsAllowed == edits < MaxEdits /\ archive = << >>

OpenWizard ==
    /\ screen.step = "closed"
    /\ EditsAllowed
    /\ edits' = edits + 1
    /\ screen' = [Closed EXCEPT !.step = "select",
                                !.rows = Seeds(RolesText(disk)),
                                !.prev = RolesText(disk)]
    /\ UNCHANGED <<disk, ports, archiveVars, restoreVars>>

(* space, w, l and u on one row.                                           *)
SetRole ==
    /\ screen.step = "select"
    /\ \E i \in DOMAIN screen.rows, role \in Roles :
         screen' = [screen EXCEPT !.rows[i].role = role]
    /\ OnlyScreen

(* Mutation: a port without a MAC is pinned too.                           *)
TogglePinAnyway ==
    /\ screen.step = "select"
    /\ \E i \in DOMAIN screen.rows :
         screen' = [screen EXCEPT !.rows[i].byMac = ~@]
    /\ OnlyScreen

TogglePin ==
    /\ screen.step = "select"
    /\ \E i \in DOMAIN screen.rows :
         /\ screen.rows[i].mac # ""
         /\ screen' = [screen EXCEPT !.rows[i].byMac = ~@]
    /\ OnlyScreen

(* buildPreview: both roles, and only names and MACs of the right shape.   *)
BuildPreview ==
    /\ screen.step = "select"
    /\ LET conf == Assignment(screen.rows, ParseRolesConf(screen.prev).extras) IN
         /\ Assigned(conf)
         /\ Validates(conf)
         /\ screen' = [screen EXCEPT !.step = "writeConfirm",
                                     !.content = RenderRolesConf(conf)]
    /\ OnlyScreen

BackToSelect ==
    /\ screen.step = "writeConfirm"
    /\ screen' = [screen EXCEPT !.step = "select"]
    /\ OnlyScreen

WriteRoles ==
    /\ screen.step = "writeConfirm"
    /\ disk' = With(disk, RolesPath, screen.content)
    /\ screen' = [screen EXCEPT !.step = "written"]
    /\ UNCHANGED <<ports, edits, archiveVars, restoreVars>>

CloseWizard ==
    /\ screen.step # "closed"
    /\ screen' = Closed
    /\ OnlyScreen

Wizard ==
    \/ OpenWizard
    \/ SetRole
    \/ TogglePin
    \/ BuildPreview
    \/ BackToSelect
    \/ WriteRoles
    \/ CloseWizard

-----------------------------------------------------------------------------
(* The export, and what the artifact goes through.                         *)
Export ==
    /\ screen.step = "closed"
    /\ archive = << >>
    /\ \E signer \in Keys \cup {NoKey} :
         /\ archive' = Assemble(CollectSources(disk), signer)
         /\ origin' = [sources |-> CollectSources(disk), signer |-> signer]
    /\ UNCHANGED <<disk, ports, wizardVars, damaged, restoreVars>>

Without(function, x) == [y \in DOMAIN function \ {x} |-> function[y]]

(* A manifest that says something else.                                    *)
OtherManifests(manifest) ==
    {[manifest EXCEPT !.schema = @ + 1]}
    \cup {[manifest EXCEPT !.parts = Without(@, path)] :
            path \in DOMAIN manifest.parts}
    \cup {[manifest EXCEPT !.parts[path].subsystem = "unknown"] :
            path \in DOMAIN manifest.parts}

(* One file of the artifact is altered: it is not what it was.             *)
Alterations(path) ==
    CASE path = ManifestPath -> OtherManifests(archive[path])
      [] path = ChecksumPath ->
           {[archive[path] EXCEPT ![covered] = Garbage] :
              covered \in DOMAIN archive[path]}
           \cup {Without(archive[path], covered) : covered \in DOMAIN archive[path]}
      [] path = SignaturePath -> {[archive[path] EXCEPT !.over = Garbage]}
      [] OTHER -> {Append(archive[path], Noise)}

Altered(path) == Alterations(path) \ {archive[path]}

Damage ==
    /\ archive # << >>
    /\ ~damaged
    /\ opened.status = "none"
    /\ \/ \E path \in DOMAIN archive : \E data \in Altered(path) :
            archive' = [archive EXCEPT ![path] = data]
       \/ \E path \in DOMAIN archive : archive' = Without(archive, path)
       \/ archive' = Garbage
    /\ damaged' = TRUE
    /\ UNCHANGED <<disk, ports, wizardVars, origin, restoreVars>>

(* The artifact is taken to a machine.                                     *)
TakeTo ==
    /\ archive # << >>
    /\ opened.status = "none"
    /\ screen.step = "closed"
    /\ \E machine \in Machines :
         disk' = machine.disk /\ ports' = machine.ports
    /\ UNCHANGED <<wizardVars, archiveVars, restoreVars>>

-----------------------------------------------------------------------------
(* The restore.                                                            *)
Present == {ports[i].name : i \in DOMAIN ports}

OpenArtifact ==
    /\ archive # << >>
    /\ opened.status = "none"
    /\ screen.step = "closed"
    /\ \E verifier \in Keys \cup {NoKey} :
         opened' = IF Opens(archive, verifier)
                   THEN LET sources == SourcesFromParts(archive) IN
                        [status |-> "accepted", sources |-> sources,
                         verifier |-> verifier, agreed |-> FALSE,
                         missing |-> MissingRoleDevices(RolesText(sources), Present)]
                   ELSE [NotOpened EXCEPT !.status = "refused"]
    /\ UNCHANGED <<disk, ports, wizardVars, archiveVars, restored>>

Preview == Diff(CollectSources(disk), opened.sources)

(* The order applyRestore writes the subsystems in.                        *)
Rank == [roles |-> 1, sysctl |-> 2, resolved |-> 3, firewall |-> 4,
         networkd |-> 5, dhcpdns |-> 6, wireguard |-> 7, nftables |-> 8]

(* What can have been written when the restore stops, for any reason.      *)
Written ==
    {items \in SUBSET Items(opened.sources) :
        \A item \in items, other \in Items(opened.sources) :
            Rank[other.subsystem] < Rank[item.subsystem] => other \in items}

(* WriteConfig refuses a roles.conf it would not render.                   *)
ToWrite(path) ==
    IF path = RolesPath THEN SafeRolesConf(opened.sources[path])
    ELSE opened.sources[path]

(* The hardware question is asked when a port is missing.                  *)
Restore ==
    /\ opened.status = "accepted"
    /\ restored = {}
    /\ HasChanges(Preview)
    /\ \E items \in Written, agreed \in BOOLEAN :
         /\ agreed <=> opened.missing # {}
         /\ RolesPath \in items => IsSafe(opened.sources[RolesPath])
         /\ disk' = [path \in DOMAIN disk \cup items |->
                       IF path \in items THEN ToWrite(path) ELSE disk[path]]
         /\ restored' = items
         /\ opened' = [opened EXCEPT !.agreed = agreed]
    /\ UNCHANGED <<ports, wizardVars, archiveVars>>

(* The end of a session; the artifact is still there.                      *)
CloseRestore ==
    /\ opened.status # "none"
    /\ opened' = NotOpened
    /\ restored' = {}
    /\ UNCHANGED <<disk, ports, wizardVars, archiveVars>>

Next ==
    \/ Wizard
    \/ Export
    \/ Damage
    \/ TakeTo
    \/ OpenArtifact
    \/ Restore
    \/ CloseRestore

Spec == Init /\ [][Next]_vars

-----------------------------------------------------------------------------
(* What the wizard has written parses to what its rows showed, followed by *)
(* the lines of the file it was opened on that are neither about roles nor *)
(* comments, all of them and in their order (RenderRolesConf,              *)
(* ParseRolesConf).  Comments and blank lines do not come through it:      *)
(* ParseRolesConf skips them (roles.go:98-101), although RolesConf says    *)
(* that a render never drops "anything an operator added by hand".         *)
SavedIsShown ==
    screen.step = "written" =>
        ParseRolesConf(disk[RolesPath])
          = Assignment(screen.rows, ParseRolesConf(screen.prev).extras)

(* Running the wizard again edits: its rows start as the assignment in the *)
(* file, when every port listed there is one of the machine and is listed  *)
(* once (newWizard).                                                       *)
ListedOnce(conf) ==
    LET names == conf.wanIfs \o conf.lanIfs
        macs == conf.wanMacs \o conf.lanMacs
    IN  /\ ToSet(names) \subseteq Present
        /\ ToSet(macs) \subseteq {ports[i].mac : i \in DOMAIN ports} \ {""}
        /\ IsInjective(names)
        /\ IsInjective(macs)
        /\ \A i \in DOMAIN ports : ~(/\ Lists(names, ports[i].name)
                                     /\ Lists(macs, ports[i].mac))

RerunKeepsAssignment ==
    LET conf == ParseRolesConf(RolesText(disk))
        again == Assignment(Seeds(RolesText(disk)), conf.extras)
    IN  ListedOnce(conf) =>
            \A set \in RoleSets : ToSet(again[set]) = ToSet(conf[set])

(* The diff shown before the write is the change and no more: every line   *)
(* removed or added, and none that could be kept (UnifiedDiff).            *)
DiffShowsTheChange ==
    screen.step = "writeConfirm" =>
        TellsTheChange(Diffed(screen.prev, screen.content),
                       screen.prev, screen.content)

(* An artifact that opens is the one that was exported: whatever was       *)
(* altered or lost on the way, what is read back is what was packed, and   *)
(* with --verify it carries the signature of that key (Open).              *)
OpenedIsExported ==
    opened.status = "accepted" =>
        /\ opened.sources = [path \in Items(origin.sources) |->
                               Sanitized(path, PartFiles(origin.sources)[path])]
        /\ opened.verifier \in {NoKey, origin.signer}

(* A machine's own artifact previews no change on it, while it has not     *)
(* been changed and holds no control character (Assemble, Open, Diff).     *)
HasControl(sources) ==
    \E path \in DOMAIN sources \ {RolesPath} :
        \E i \in DOMAIN sources[path] : sources[path][i].tail = "control"

ExportRoundTrips ==
    /\ opened.status = "accepted"
    /\ CollectSources(disk) = origin.sources
    /\ ~HasControl(origin.sources)
    => ~HasChanges(Preview)

(* After a restore that wrote everything, restoring again would write      *)
(* nothing new: only what the machine alone has is listed.                 *)
RestoreIsFixedPoint ==
    /\ restored # {}
    /\ restored = Items(opened.sources)
    => \A path \in DOMAIN Preview : Preview[path] \in {"unchanged", "remove"}

(* After a restore, roles.conf names a port the machine does not have only *)
(* if the operator has agreed to that (MissingRoleDevices).                *)
AbsentPortsWereAgreed ==
    RolesPath \in restored /\ ~opened.agreed =>
        LET conf == ParseRolesConf(disk[RolesPath])
        IN  ToSet(conf.wanIfs \o conf.lanIfs) \subseteq Present

(* An item the preview calls unchanged means the same on the disk after    *)
(* the restore (ChangeUnchanged in preview.go: "a restore leaves an item   *)
(* as it is").  It need not be the same text: roles.conf is written in its *)
(* canonical form, without its comments, and means what it parses to; a    *)
(* tunnel loses its key lines, which no artifact carries; of the others    *)
(* only white space at the ends of lines and empty lines may differ.       *)
Meaning(path, text) ==
    CASE path = RolesPath -> ParseRolesConf(text)
      [] path.subsystem = "wireguard" -> Normalized(path, StripWireguard(text))
      [] OTHER -> Normalized(path, text)

UnchangedIsLeft ==
    [][restored' # {} /\ restored = {} =>
         \A path \in restored' :
             Preview[path] = "unchanged" =>
                 Meaning(path, disk'[path]) = Meaning(path, disk[path])]_vars
=============================================================================
