------------------------------ MODULE MCCockpit ------------------------------
(* Machines with and without a DHCP server, on addresses of five bits: an  *)
(* address is written by its number, and /27 + n is a prefix of n bits.    *)
EXTENDS Cockpit

Names == <<"10-wan", "20-lan", "30-vm">>

Blocks == [bits \in 0 .. 5 |-> 2 ^ (5 - bits)]

Address(ip, bits) == [prefixed |-> TRUE, alone |-> TRUE, ip |-> ip, bits |-> bits]
Trailed(ip, bits) == [Address(ip, bits) EXCEPT !.alone = FALSE]

Set(key, value) == [key |-> key, value |-> value]
File(entries) == [readable |-> TRUE, entries |-> entries]
Secret == [readable |-> FALSE, entries |-> << >>]

Text(kinds) ==
    [i \in DOMAIN kinds |-> [heading |-> kinds[i] = "heading",
                             text |-> IF kinds[i] = "heading" THEN "lease"
                                      ELSE kinds[i]]]

Bare == [units |-> << >>, dropins |-> << >>, package |-> "none", running |-> {},
         networkctl |-> << >>, leaseFile |-> -1, profile |-> FALSE]

Lan == <<Set("Name", "lan0"), Set("DHCPServer", "yes"), Set("Address", Address(9, 2))>>

(* A router, whose pool a file under /etc has moved.                       *)
Router ==
    [Bare EXCEPT
        !.units = <<"/usr/lib", "20-lan">> :> File(Lan \o <<Set("PoolSize", 2)>>),
        !.dropins =
            (<<"/etc", "20-lan">> :>
               <<File(<<Set("PoolOffset", 4), Set("PoolSize", -1)>>),
                 File(<<Set("PoolOffset", 2)>>)>>)
            @@ (<<"/lib", "20-lan">> :>
                  <<File(<<Set("PoolOffset", 5), Set("Name", "lan1")>>)>>),
        !.running = {"systemd-networkd"},
        !.networkctl = "lan0" :> Text(<<"other", "heading", "lease", "blank",
                                        "lease", "other", "lease">>),
        !.profile = TRUE]

(* Its unit is hidden by one that cannot be read, and dnsmasq is there.    *)
Packaged ==
    [Router EXCEPT
        !.units = @ @@ (<<"/run", "20-lan">> :> Secret),
        !.package = "dnsmasq", !.running = {"dnsmasq"}, !.leaseFile = 2]

(* Two servers that are configured and off, and one that is a template.    *)
Stopped ==
    [Bare EXCEPT
        !.units =
            (<<"/run", "20-lan">> :>
               File(<<Set("Name", "lan0"), Set("ServerAddress", Address(30, 1)),
                      Set("Address", Address(1, 2)), Set("DHCPServer", "odd")>>))
            @@ (<<"/lib", "30-vm">> :>
                  File(<<Set("Address", Address(0, 1)), Set("DHCPServer", "yes")>>))
            @@ (<<"/usr/lib", "20-lan">> :> File(Lan))
            @@ (<<"/usr/lib", "10-wan">> :>
                  File(<<Set("Address", Trailed(17, 3)), Set("Other", "x"),
                         Set("ServerAddress", Address(25, 3))>>)),
        !.dropins = <<"/run", "20-lan">> :> <<Secret, File(<<Set("PoolSize", 12)>>)>>,
        !.profile = TRUE]

(* A pool that leaves no room, and the same server beside a later one.     *)
NoRoom ==
    [Router EXCEPT
        !.dropins = <<"/etc", "20-lan">> :> <<File(<<Set("PoolOffset", 7)>>)>>,
        !.units = @ @@ (<<"/usr/lib", "30-vm">> :> File(Lan)),
        !.networkctl = << >>, !.package = "kea"]

AllFiles == [bare |-> Bare, router |-> Router, packaged |-> Packaged,
             stopped |-> Stopped, noRoom |-> NoRoom]

AllMachines == DOMAIN AllFiles
=============================================================================
