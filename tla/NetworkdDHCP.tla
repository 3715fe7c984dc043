----------------------------- MODULE NetworkdDHCP -----------------------------
(***************************************************************************)
(* The DHCP part of a snapshot (readDHCP in real.go): which server the     *)
(* machine has, and for systemd-networkd the unit it comes from, with its  *)
(* drop-ins folded in, and the pool that unit works out to (networkd.go).  *)
(* A file is the sequence of its assignments.  Comments, spellings of keys *)
(* and the text around the values are left out.                            *)
(***************************************************************************)
EXTENDS DhcpPool, Sequences, SequencesExt

CONSTANT UnitNames  \* the names of .network units, in their order

(* A machine: its unit files and their drop-ins, each at the pairs of a    *)
(* directory and a unit name that exist; the package that is installed,    *)
(* the services that run, and what networkctl and the lease file tell.     *)

Assignments ==
    [key : {"Address", "ServerAddress"}, value : AddressValues]
    \cup [key : {"PoolOffset", "PoolSize"}, value : Int]
    \cup [key : {"Name", "DHCPServer", "Other"}, value : STRING]

NetworkdFiles == [readable : BOOLEAN, entries : Seq(Assignments)]

HasFiles(machine) ==
    /\ \A site \in DOMAIN machine.units : machine.units[site] \in NetworkdFiles
    /\ \A place \in DOMAIN machine.dropins :
         machine.dropins[place] \in Seq(NetworkdFiles)

(* NetworkdConfigDirs in search order, and in the order of their paths.    *)
NetworkdConfigDirs == <<"/etc", "/run", "/usr/lib", "/lib">>
PathOrder == <<"/etc", "/lib", "/run", "/usr/lib">>

NewUnit == [link |-> "none", address |-> NoAddress, enabled |-> FALSE,
            hasSection |-> FALSE, offset |-> 0, size |-> 0]

(* What is no yes is off, and what is no natural number is the default.    *)
networkdBool(value) == value = "yes"
networkdAtoi(value) == IF value < 0 THEN 0 ELSE value

(* applyNetworkdFile: one assignment.  The first link and the first        *)
(* address count, ServerAddress replaces, and a scalar is what it was set  *)
(* to last.  "Other" is any other key of [DHCPServer].                     *)
Apply(unit, entry) ==
    CASE entry.key = "Name" ->
           [unit EXCEPT !.link = IF @ = "none" THEN entry.value ELSE @]
      [] entry.key = "DHCPServer" ->
           [unit EXCEPT !.enabled = networkdBool(entry.value)]
      [] entry.key = "Address" ->
           [unit EXCEPT !.address = IF @ = NoAddress /\ entry.value.prefixed
                                    THEN entry.value ELSE @]
      [] entry.key = "ServerAddress" ->
           [unit EXCEPT !.address = IF entry.value.prefixed
                                    THEN entry.value ELSE @,
                        !.hasSection = TRUE]
      [] entry.key = "PoolOffset" ->
           [unit EXCEPT !.offset = networkdAtoi(entry.value),
                        !.hasSection = TRUE]
      [] entry.key = "PoolSize" ->
           [unit EXCEPT !.size = networkdAtoi(entry.value),
                        !.hasSection = TRUE]
      [] entry.key = "Other" -> [unit EXCEPT !.hasSection = TRUE]

(* What files assign, one after the other: one that cannot be read is      *)
(* passed over.                                                            *)
Readable(files) ==
    FlattenSeq([j \in DOMAIN files |-> IF files[j].readable THEN files[j].entries
                                       ELSE << >>])

At(function, site) == IF site \in DOMAIN function THEN function[site] ELSE << >>

(* Mutation: the drop-ins in search order, /etc first.                     *)
DropinFilesSearched(machine, name) ==
    FlattenSeq([i \in DOMAIN NetworkdConfigDirs |->
        Readable(At(machine.dropins, <<NetworkdConfigDirs[i], name>>))])

(* What the drop-ins of a unit assign, /lib first and /etc last, and in    *)
(* each directory by name.                                                 *)
DropinFiles(machine, name) ==
    FlattenSeq([i \in DOMAIN NetworkdConfigDirs |->
        Readable(At(machine.dropins, <<Reverse(NetworkdConfigDirs)[i], name>>))])

Folded(entries) ==
    LET read[n \in 0 .. Len(entries)] ==
          IF n = 0 THEN NewUnit ELSE Apply(read[n - 1], entries[n])
    IN  read[Len(entries)]

(* ParseNetworkdUnit: the unit and its drop-ins in read order.             *)
ParseNetworkdUnit(machine, site) ==
    Folded(machine.units[site].entries \o DropinFiles(machine, site[2]))

(* The first directory that has a name claims it, readable or not.         *)
Claimed(machine) ==
    {site \in DOMAIN machine.units :
        \A i, j \in DOMAIN NetworkdConfigDirs :
            /\ NetworkdConfigDirs[i] = site[1]
            /\ <<NetworkdConfigDirs[j], site[2]>> \in DOMAIN machine.units
            => i <= j}

(* networkdDHCPUnits, as the set of their sites.                           *)
DHCPUnits(machine) ==
    {site \in Claimed(machine) :
        /\ machine.units[site].readable
        /\ LET unit == ParseNetworkdUnit(machine, site)
           IN  (unit.hasSection \/ unit.enabled) /\ IsConcrete(unit.address)}

Place(seq, x) == SelectInSeq(seq, LAMBDA y : y = x)

(* The first of some units in the order of their paths.                    *)
FirstPath(sites) ==
    CHOOSE site \in sites : \A other \in sites :
        LET dir(s) == Place(PathOrder, s[1])
            name(s) == Place(UnitNames, s[2])
        IN  \/ dir(site) < dir(other)
            \/ dir(site) = dir(other) /\ name(site) <= name(other)

(* The leases in the text of networkctl, from their heading to the first   *)
(* line that is something else.  The heading's own line may hold one.      *)
CountNetworkctlLeases(lines) ==
    LET Read(so, line) ==
          LET inList == so.inList \/ line.heading
          IN  [count |-> IF inList /\ line.text = "lease" THEN so.count + 1
                         ELSE so.count,
               inList |-> inList /\ line.text # "other"]
    IN  FoldLeft(Read, [count |-> 0, inList |-> FALSE], lines).count

NoDHCP == [server |-> "none", active |-> FALSE, leases |-> -1, link |-> "none",
           unit |-> << >>, pool |-> NoPool]

(* readNetworkdDHCP                                                        *)
ReadNetworkdDHCP(machine, site) ==
    LET unit == ParseNetworkdUnit(machine, site)
        active == unit.enabled /\ "systemd-networkd" \in machine.running
    IN  [server |-> "systemd-networkd", active |-> active,
         link |-> unit.link, unit |-> site,
         pool |-> NetworkdPoolRange(unit.address, unit.offset, unit.size),
         leases |-> IF active /\ unit.link \in DOMAIN machine.networkctl
                    THEN CountNetworkctlLeases(machine.networkctl[unit.link])
                    ELSE -1]

(* readPackagedDHCP                                                        *)
ReadPackagedDHCP(machine) ==
    [NoDHCP EXCEPT !.server = machine.package,
                   !.active = machine.package \in machine.running,
                   !.leases = IF machine.package = "dnsmasq"
                              THEN machine.leaseFile ELSE -1]

(* readDHCP: a unit that turns its server on, then a package, then a unit  *)
(* whose server is off.                                                    *)
ReadDHCP(machine) ==
    LET units == DHCPUnits(machine)
        enabled == {site \in units : ParseNetworkdUnit(machine, site).enabled}
    IN  CASE enabled # {} -> ReadNetworkdDHCP(machine, FirstPath(enabled))
          [] enabled = {} /\ machine.package # "none" -> ReadPackagedDHCP(machine)
          [] enabled = {} /\ machine.package = "none" /\ units # {} ->
               ReadNetworkdDHCP(machine, FirstPath(units))
          [] OTHER -> NoDHCP

-----------------------------------------------------------------------------
(* The number that is assigned to a key last, told from where it is        *)
(* assigned and not by folding: the first of the search directories whose  *)
(* drop-ins assign it has the last word, with the last of those files; the *)
(* unit has it when none does.  0 when there is no such assignment.        *)
Assigned(entries, key) == {k \in DOMAIN entries : entries[k].key = key}

LastOf(entries, key) == networkdAtoi(entries[Max(Assigned(entries, key))].value)

Saying(files, key) ==
    {j \in DOMAIN files : files[j].readable /\ Assigned(files[j].entries, key) # {}}

LastWord(machine, site, key) ==
    LET unit == machine.units[site].entries
        in(i) == At(machine.dropins, <<NetworkdConfigDirs[i], site[2]>>)
        dirs == {i \in DOMAIN NetworkdConfigDirs : Saying(in(i), key) # {}}
        files == in(Min(dirs))
    IN  CASE dirs # {} -> LastOf(files[Max(Saying(files, key))].entries, key)
          [] dirs = {} /\ Assigned(unit, key) # {} -> LastOf(unit, key)
          [] OTHER -> 0
=============================================================================
