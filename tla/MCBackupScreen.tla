---------------------------- MODULE MCBackupScreen ----------------------------
(* The parts the artifacts of the runs carry.                              *)
EXTENDS BackupScreen

RulesetOnly == {{"nftables"}}

SomeCarries == {{"nftables"}, {"roles", "nftables"},
                {"networkd", "wireguard", "accounts"},
                {"sysctl", "resolved", "dhcpdns", "firewall", "nftables"}}
=============================================================================
