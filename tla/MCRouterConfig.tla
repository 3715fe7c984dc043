---------------------------- MODULE MCRouterConfig ----------------------------
(* Machines whose files were written by hand, by the wizard, or not at all,*)
(* on two kinds of hardware.                                               *)
EXTENDS RouterConfig, TLC

OldPorts == <<[name |-> "eth0", mac |-> "aa"], [name |-> "eth1", mac |-> "bb"]>>
NewPorts == <<[name |-> "enp1", mac |-> "cc"], [name |-> "enp2", mac |-> ""]>>

MacCase == [AA |-> "aa"]

Text(words) == [i \in DOMAIN words |-> Word(words[i], "none")]

Roles1 == <<Line("#", << >>), Line("WAN_IF", <<"eth0">>),
            Line("knob", <<"dhcp">>), Line("LAN_IFS", <<"eth1">>)>>
Roles2 == <<Line("WAN_MACS", <<"AA">>), Line("WAN_MAC", <<"cc">>),
            Line("LAN_IFS", <<"eth1">>)>>
Roles3 == <<Line("LAN_IFS", <<"enp1", "eth9">>), Line("WAN_IFS", <<"enp2">>),
            Line("odd", << >>)>>
Roles4 == <<Line("WAN_IFS", <<"eth0">>), Line("LAN_MACS", <<"aa">>),
            Line("WAN_IF", <<"not a name">>)>>

Wan == Path("networkd", "wan")
Lan == Path("networkd", "lan")
Wg0 == Path("wireguard", "wg0")
Sysctl == Path("sysctl", "")
Nft == Path("nftables", "")

ByHand ==
    [ports |-> OldPorts,
     disk |-> (RolesPath :> Roles1) @@ (Wan :> <<Word("a", "cr"), Word("b", "space")>>)
              @@ (Wg0 :> <<Word("a", "none"), Word("key", "none"), Blank>>)
              @@ (Nft :> Text(<<"a", "b">>))]
ByMac ==
    [ports |-> OldPorts,
     disk |-> (RolesPath :> Roles2) @@ (Sysctl :> <<Word("a", "space"), Blank, Blank>>)
              @@ (Wg0 :> <<Word("key", "space"), Word("b", "none")>>)]
Odd ==
    [ports |-> NewPorts,
     disk |-> (RolesPath :> Roles3)
              @@ (Lan :> <<Word("", "control"), Word("b", "control")>>)
              @@ (Sysctl :> <<Blank>>) @@ (Nft :> Text(<<"b">>))]
OneArmed ==
    [ports |-> OldPorts, disk |-> RolesPath :> Roles4]
Fresh == [ports |-> NewPorts, disk |-> Lan :> Text(<<"a">>)]

AllMachines == {ByHand, ByMac, Odd, OneArmed, Fresh}
=============================================================================
