------------------------------- MODULE DhcpPool -------------------------------
(***************************************************************************)
(* The address range of a systemd-networkd DHCP server, worked out from    *)
(* its address and its pool keys (NetworkdPoolRange in networkd.go).  An   *)
(* address is a number of AddressBits bits, 32 in the code, and a subnet   *)
(* the aligned block of addresses of its prefix length.                    *)
(***************************************************************************)
EXTENDS Integers

CONSTANTS
    AddressBits,  \* the bits of an address
    Addresses,    \* 2^AddressBits
    BlockSize     \* per prefix length, the addresses of a subnet

(* All that the arithmetic rests on: blocks tile the addresses.            *)
ASSUME BlockAssumption ==
    /\ AddressBits \in Nat
    /\ Addresses \in Nat \ {0}
    /\ BlockSize \in [0 .. AddressBits -> Nat \ {0}]
    /\ \A bits \in 0 .. AddressBits :
         \E blocks \in 1 .. Addresses : Addresses = blocks * BlockSize[bits]

(* An Address= value: its first field is an address with a prefix length,  *)
(* and nothing follows it.                                                 *)
AddressValues ==
    [prefixed : BOOLEAN, alone : BOOLEAN, ip : 0 .. Addresses - 1,
     bits : 0 .. AddressBits]

NoAddress == [prefixed |-> FALSE, alone |-> FALSE, ip |-> 0, bits |-> 0]

(* ParsePrefix takes the whole value, and the null address is a template.  *)
IsConcrete(address) == address.prefixed /\ address.alone /\ address.ip # 0

(* The last address of the block is the broadcast address.                 *)
HostCount(bits) == BlockSize[bits] - 1

Subnet(address) == address.ip - (address.ip % BlockSize[address.bits])

FirstHost(offset) == IF offset = 0 THEN 1 ELSE offset

Room(address, offset) == HostCount(address.bits) - FirstHost(offset)

HostsOf(address, offset, size) ==
    IF size = 0 THEN Room(address, offset) ELSE size

IsPool(address, offset, size) ==
    /\ IsConcrete(address)
    /\ address.bits <= AddressBits - 2
    /\ FirstHost(offset) >= 1
    /\ Room(address, offset) >= 1
    /\ HostsOf(address, offset, size) \in 1 .. Room(address, offset)

(* Mutation: the address is not reduced to its subnet.                     *)
AddrAtUnmasked(subnet, offset) == (subnet + 1 + offset) % Addresses

(* Addition of unsigned integers of the width of an address.               *)
AddrAt(subnet, offset) == (subnet + offset) % Addresses

NoPool == [start |-> -1, end |-> -1]

NetworkdPoolRange(address, offset, size) ==
    IF IsPool(address, offset, size)
    THEN [start |-> AddrAt(Subnet(address), FirstHost(offset)),
          end |-> AddrAt(Subnet(address), FirstHost(offset)
                           + HostsOf(address, offset, size) - 1)]
    ELSE NoPool

-----------------------------------------------------------------------------
(* What a pool has to be: a run of addresses strictly inside the subnet of *)
(* the server's address, of the size that was asked for.                   *)
LiesInSubnet(pool, address, offset, size) ==
    /\ Subnet(address) < pool.start
    /\ pool.start <= pool.end
    /\ pool.end < Subnet(address) + HostCount(address.bits)
    /\ pool.start = Subnet(address) + FirstHost(offset)
    /\ size # 0 => pool.end - pool.start + 1 = size
=============================================================================
