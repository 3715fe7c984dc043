----------------------------- MODULE CockpitProofs -----------------------------
(* The event loop, for any machine and any number of loads in flight.      *)
EXTENDS Cockpit, TextProofs

IInv == TypeOK /\ BusyHasProcess /\ LoadingHasLoad

LEMMA LoadKinds ==
    /\ Idle \in Loads /\ Started \in Loads /\ Idle # Started
    /\ \A m \in Machines : Load("sent", m) \in Loads /\ Load("sent", m) # Idle
    /\ \A l \in Loads : l.pc = "started" => l # Idle
    /\ \A l \in Loads : l.pc = "sent" => l.snap \in Machines
<1>1. Idle.pc = "idle" /\ Started.pc = "started"
  BY DEF Idle, Started, Load
<1>2. \A m \in Machines : Load("sent", m).pc = "sent" /\ Load("sent", m).snap = m
  BY DEF Load
<1>3. \A l \in Loads : l = Idle \/ l = Started \/ \E m \in Machines : l = Load("sent", m)
  BY DEF Loads
<1>4. Idle \in Loads /\ Started \in Loads /\ \A m \in Machines : Load("sent", m) \in Loads
  BY DEF Loads
<1> QED
  BY <1>1, <1>2, <1>3, <1>4

(* Starting a load leaves the others, and one that runs.                   *)
LEMMA StartsOne ==
    ASSUME load \in [Slots -> Loads], StartsLoad
    PROVE  load' \in [Slots -> Loads] /\ \E s \in Slots : load'[s] # Idle
  BY LoadKinds DEF StartsLoad

LEMMA InitOK == Init => IInv
<1> SUFFICES ASSUME Init PROVE IInv
  OBVIOUS
<1>1. PICK first \in Slots : load = [s \in Slots |-> IF s = first THEN Started ELSE Idle]
  BY DEF Init
<1>2. load \in [Slots -> Loads] /\ load[first] # Idle
  BY <1>1, LoadKinds
<1> QED
  BY <1>2 DEF Init, IInv, TypeOK, BusyHasProcess, LoadingHasLoad, Screens,
              CockpitScreens, OwningScreens, Processes, Snapshots

-----------------------------------------------------------------------------
(* The loop's own variables after a step that starts no load, and after    *)
(* one that may.                                                           *)
LEMMA Quiet ==
    ASSUME IInv, UNCHANGED <<machine, loading, cur, load, tick>>,
           screen' \in Screens, busy' \in BOOLEAN, process' \in Processes,
           BusyHasProcess',
           screen' \in CockpitScreens => screen \in CockpitScreens
    PROVE  IInv'
  BY DEF IInv, TypeOK, LoadingHasLoad

LEMMA Inductive == IInv /\ [Next]_vars => IInv'
<1> SUFFICES ASSUME IInv, [Next]_vars PROVE IInv'
  OBVIOUS
<1> USE LoadKinds DEF IInv
<1>1. ASSUME NEW s \in Slots, LoadReads(s) PROVE IInv'
  <2>1. load' \in [Slots -> Loads] /\ load'[s] # Idle
    BY <1>1 DEF LoadReads, TypeOK
  <2> QED
    BY <1>1, <2>1 DEF LoadReads, loopVars, TypeOK, BusyHasProcess, LoadingHasLoad
<1>2. ASSUME NEW s \in Slots, LoadArrives(s) PROVE IInv'
  <2>1. load' \in [Slots -> Loads] /\ load[s].snap \in Machines
    BY <1>2 DEF LoadArrives, TypeOK
  <2>2. CASE screen \in OwningScreens
    BY <1>2, <2>1, <2>2 DEF LoadArrives, TypeOK, BusyHasProcess, LoadingHasLoad,
                            CockpitScreens, OwningScreens
  <2>3. CASE screen \notin OwningScreens
    BY <1>2, <2>1, <2>3 DEF LoadArrives, TypeOK, BusyHasProcess, LoadingHasLoad, Snapshots
  <2> QED
    BY <2>2, <2>3
<1>3. CASE TickFires
  BY <1>3 DEF TickFires, loopVars, TypeOK, BusyHasProcess, LoadingHasLoad
<1>4. CASE TickArrives
  <2>1. /\ load' \in [Slots -> Loads]
        /\ load' = load \/ \E s \in Slots : load'[s] # Idle
    BY <1>4, StartsOne DEF TickArrives, TypeOK
  <2> QED
    BY <1>4, <2>1 DEF TickArrives, loopVars, TypeOK, BusyHasProcess, LoadingHasLoad
<1>5. CASE Refresh
  <2>1. load' \in [Slots -> Loads] /\ \E s \in Slots : load'[s] # Idle
    BY <1>5, StartsOne DEF Refresh, TypeOK
  <2> QED
    BY <1>5, <2>1 DEF Refresh, TypeOK, BusyHasProcess, LoadingHasLoad
<1>6. CASE OpenScreen
  <2>1. /\ screen' \in Screens /\ screen = "cockpit" /\ ~busy
        /\ UNCHANGED <<machine, busy, process, loading, cur, load, tick>>
    BY <1>6 DEF OpenScreen, Answers, Screens, CockpitScreens, OwningScreens
  <2>2. BusyHasProcess'
    BY <2>1 DEF BusyHasProcess
  <2> QED
    BY <2>1, <2>2, Quiet DEF TypeOK, CockpitScreens
<1>7. CASE CloseHelp \/ CancelPower
  <2>1. /\ screen' = "cockpit" /\ screen \in CockpitScreens /\ ~busy
        /\ UNCHANGED <<machine, busy, process, loading, cur, load, tick>>
    BY <1>7 DEF CloseHelp, CancelPower, Answers, CockpitScreens, BusyHasProcess
  <2> QED
    BY <2>1, Quiet DEF TypeOK, BusyHasProcess, Screens, CockpitScreens
<1>8. CASE CloseScreen
  <2>1. load' \in [Slots -> Loads] /\ \E s \in Slots : load'[s] # Idle
    BY <1>8, StartsOne DEF CloseScreen, TypeOK
  <2> QED
    BY <1>8, <2>1 DEF CloseScreen, TypeOK, BusyHasProcess, LoadingHasLoad,
                      Screens, CockpitScreens
<1>9. CASE ConfirmPower
  BY <1>9, Quiet DEF ConfirmPower, TypeOK, BusyHasProcess, Screens,
                     CockpitScreens, Processes
<1>10. CASE Launch
  BY <1>10, Quiet DEF Launch, Answers, TypeOK, BusyHasProcess, Processes
<1>11. CASE ToolStarts \/ ToolExits \/ PowerRuns
  <2>1. /\ UNCHANGED <<machine, screen, busy, loading, cur, load, tick>>
        /\ process' \in Processes \ {"none"}
        /\ process # "none"
    BY <1>11 DEF ToolStarts, ToolExits, PowerRuns, Becomes, Processes
  <2> QED
    BY <2>1, Quiet DEF TypeOK, BusyHasProcess
<1>12. CASE Launched
  <2>1. CASE screen \in OwningScreens \cup {"power"}
    BY <1>12, <2>1, Quiet DEF Launched, TypeOK, BusyHasProcess, Processes,
                              OwningScreens
  <2>2. CASE screen \notin OwningScreens \cup {"power"}
    <3>1. /\ load' \in [Slots -> Loads] /\ loading' \in BOOLEAN
          /\ \/ \E s \in Slots : load'[s] # Idle
             \/ UNCHANGED <<loading, load>>
      BY <1>12, <2>2, StartsOne DEF Launched, TypeOK
    <3>2. busy' = FALSE /\ process' = "none" /\ UNCHANGED <<machine, screen, cur, tick>>
      BY <1>12, <2>2 DEF Launched
    <3> QED
      BY <3>1, <3>2 DEF TypeOK, BusyHasProcess, LoadingHasLoad, Processes
  <2> QED
    BY <2>1, <2>2
<1>13. CASE PowerDone
  <2>1. busy => screen \notin OwningScreens
    BY DEF BusyHasProcess, OwningScreens
  <2> QED
    BY <1>13, <2>1, Quiet DEF PowerDone, TypeOK, BusyHasProcess, Processes
<1>14. CASE Quit
  BY <1>14, Quiet DEF Quit, TypeOK, BusyHasProcess, Screens, CockpitScreens
<1>15. CASE MachineChanges
  BY <1>15 DEF MachineChanges, loopVars, TypeOK, BusyHasProcess, LoadingHasLoad
<1>16. CASE Gone \/ UNCHANGED vars
  BY <1>16 DEF Gone, vars, TypeOK, BusyHasProcess, LoadingHasLoad
<1> QED
  BY <1>1, <1>2, <1>3, <1>4, <1>5, <1>6, <1>7, <1>8, <1>9, <1>10, <1>11,
     <1>12, <1>13, <1>14, <1>15, <1>16 DEF Next

LEMMA IInvHolds == Spec => []IInv
  BY InitOK, Inductive, PTL DEF Spec

(* Types, for any machine and any number of loads.                         *)
THEOREM CockpitTyped == Spec => []TypeOK
<1>1. IInv => TypeOK
  BY DEF IInv
<1> QED
  BY <1>1, IInvHolds, PTL

(* A cockpit that ignores the keyboard has a command whose message reaches *)
(* it.                                                                     *)
THEOREM BusyEnds == Spec => []BusyHasProcess
<1>1. IInv => BusyHasProcess
  BY DEF IInv
<1> QED
  BY <1>1, IInvHolds, PTL

(* A cockpit that says it is loading has a load in flight.                 *)
THEOREM LoadingEnds == Spec => []LoadingHasLoad
<1>1. IInv => LoadingHasLoad
  BY DEF IInv
<1> QED
  BY <1>1, IInvHolds, PTL

-----------------------------------------------------------------------------
(* A pool lies in its subnet, for addresses of any number of bits.         *)

LEMMA ProductsGrow ==
    ASSUME NEW a \in Nat, NEW b \in Nat, NEW c \in Nat, a <= b
    PROVE  a * c <= b * c
<1>1. PICK d \in Nat : b = a + d
  BY b - a \in Nat
<1>2. b * c = a * c + d * c
  BY <1>1
<1>3. d * c \in Nat
  OBVIOUS
<1> QED
  BY <1>2, <1>3

(* The block of an address ends within the addresses.                      *)
LEMMA BlockFits ==
    ASSUME NEW address \in AddressValues
    PROVE  /\ BlockSize[address.bits] \in Nat \ {0}
           /\ Subnet(address) \in Nat
           /\ Subnet(address) + BlockSize[address.bits] <= Addresses
<1> DEFINE B == BlockSize[address.bits]
           ip == address.ip
           q == ip \div B
<1>1. ip \in Nat /\ ip < Addresses /\ address.bits \in 0 .. AddressBits
  BY BlockAssumption DEF AddressValues
<1>2. B \in Nat \ {0}
  BY <1>1, BlockAssumption
<1>3. PICK blocks \in Nat : Addresses = blocks * B
  BY <1>1, BlockAssumption
<1> HIDE DEF B, ip
<1>4. q \in Nat /\ ip = B * q + (ip % B) /\ ip % B \in 0 .. B - 1
  BY <1>1, <1>2, Z3
<1>5. q < blocks
  <2> SUFFICES ASSUME blocks <= q PROVE FALSE
    BY <1>3, <1>4
  <2>1. blocks * B <= q * B
    BY <1>2, <1>3, <1>4, ProductsGrow
  <2>2. q * B = B * q
    BY <1>2, <1>4
  <2> QED
    BY <1>1, <1>2, <1>3, <1>4, <2>1, <2>2
<1>6. (q + 1) * B <= blocks * B
  BY <1>2, <1>3, <1>4, <1>5, ProductsGrow
<1>7. (q + 1) * B = B * q + B /\ B * q \in Nat
  BY <1>2, <1>4
<1>8. Subnet(address) = B * q
  BY <1>2, <1>4, <1>7 DEF Subnet, B, ip
<1> QED
  BY <1>2, <1>3, <1>6, <1>7, <1>8 DEF B

(* Whatever the keys say, a pool that is worked out (NetworkdPoolRange) is *)
(* a run of addresses strictly inside the subnet, of the size asked for:   *)
(* the addition of addresses does not wrap around.                         *)
THEOREM PoolLiesInSubnet ==
    ASSUME NEW address \in AddressValues, NEW offset \in Int, NEW size \in Int,
           IsPool(address, offset, size)
    PROVE  LiesInSubnet(NetworkdPoolRange(address, offset, size),
                        address, offset, size)
<1> DEFINE B == BlockSize[address.bits]
           subnet == Subnet(address)
           first == FirstHost(offset)
           hosts == HostsOf(address, offset, size)
<1>1. B \in Nat \ {0} /\ subnet \in Nat /\ subnet + B <= Addresses
  BY BlockFits
<1>2. Addresses \in Nat
  BY BlockAssumption
<1>3. first \in Int /\ first >= 1
  BY DEF IsPool, FirstHost
<1>4. hosts \in Int /\ 1 <= hosts /\ hosts <= B - 1 - first
  BY <1>1, <1>3 DEF IsPool, Room, HostCount, HostsOf
<1>5. hosts = size \/ size = 0
  BY DEF HostsOf
<1> HIDE DEF B, subnet, first, hosts
<1>6. ASSUME NEW n \in Int, 0 <= n, n < B
      PROVE  AddrAt(subnet, n) = subnet + n
  BY <1>1, <1>2, <1>6, (subnet + n) \in 0 .. Addresses - 1 DEF AddrAt
<1>7. AddrAt(subnet, first) = subnet + first
  BY <1>1, <1>3, <1>4, <1>6
<1>8. AddrAt(subnet, first + hosts - 1) = subnet + (first + hosts - 1)
  BY <1>1, <1>3, <1>4, <1>6
<1>9. NetworkdPoolRange(address, offset, size)
        = [start |-> subnet + first, end |-> subnet + (first + hosts - 1)]
  BY <1>7, <1>8 DEF NetworkdPoolRange, subnet, first, hosts
<1> QED
  BY <1>1, <1>3, <1>4, <1>5, <1>9
  DEF LiesInSubnet, HostCount, B, subnet, first

-----------------------------------------------------------------------------
(* The numbers of a unit are the ones assigned last.                       *)

LEMMA MaxIs ==
    ASSUME NEW S \in SUBSET Int, NEW x \in S, \A y \in S : y <= x
    PROVE  Max(S) = x
<1>1. \A z \in S : (\A y \in S : z >= y) => z = x
  OBVIOUS
<1>2. \A y \in S : x >= y
  OBVIOUS
<1> QED
  BY <1>1, <1>2 DEF Max

LEMMA MinIs ==
    ASSUME NEW S \in SUBSET Int, NEW x \in S, \A y \in S : x <= y
    PROVE  Min(S) = x
<1>1. \A z \in S : (\A y \in S : z <= y) => z = x
  OBVIOUS
<1> QED
  BY <1>1 DEF Min

(* What assignments tell of the number of a key.                           *)
Told(entries, key) ==
    IF Assigned(entries, key) = {} THEN 0 ELSE LastOf(entries, key)

LEMMA LastAssigned ==
    ASSUME NEW entries \in Seq(Assignments), NEW key, Assigned(entries, key) # {}
    PROVE  \E k \in Assigned(entries, key) :
             /\ k \in 1 .. Len(entries)
             /\ Max(Assigned(entries, key)) = k
             /\ \A j \in Assigned(entries, key) : j <= k
<1>1. Len(entries) \in Nat /\ Assigned(entries, key) \in SUBSET (0 .. Len(entries))
      /\ Assigned(entries, key) \subseteq 1 .. Len(entries)
  BY LenProperties DEF Assigned
<1> QED
  BY <1>1, LargestIsIn

(* The second of two parts has the last word.                              *)
LEMMA ToldJoin ==
    ASSUME NEW left \in Seq(Assignments), NEW right \in Seq(Assignments), NEW key
    PROVE  /\ Told(left \o right, key)
                = IF Assigned(right, key) = {} THEN Told(left, key) ELSE Told(right, key)
           /\ Assigned(left \o right, key) = {}
                <=> Assigned(left, key) = {} /\ Assigned(right, key) = {}
<1> DEFINE n == Len(left)
           m == Len(right)
           both == left \o right
           L == Assigned(left, key)
           R == Assigned(right, key)
           B == Assigned(both, key)
<1>1. /\ n \in Nat /\ m \in Nat
      /\ DOMAIN left = 1 .. n /\ DOMAIN right = 1 .. m /\ DOMAIN both = 1 .. n + m
      /\ \A i \in 1 .. n + m : both[i] = IF i <= n THEN left[i] ELSE right[i - n]
  BY ConcatProperties, LenProperties
<1> HIDE DEF n, m, both
<1>2. \A i \in 1 .. n : i \in 1 .. n + m /\ both[i] = left[i]
  BY <1>1
<1>3. \A i \in 1 .. m : n + i \in 1 .. n + m /\ both[n + i] = right[i]
  BY <1>1
<1>4. \A i \in 1 .. n + m : i \in 1 .. n \/ (i - n \in 1 .. m /\ i = n + (i - n))
  BY <1>1
<1>5. L \subseteq 1 .. n /\ R \subseteq 1 .. m /\ B \subseteq 1 .. n + m
  BY <1>1 DEF Assigned
<1>6. \A i \in 1 .. n : i \in L <=> i \in B
  BY <1>1, <1>2 DEF Assigned
<1>7. \A i \in 1 .. m : i \in R <=> n + i \in B
  BY <1>1, <1>3 DEF Assigned
<1> HIDE DEF L, R, B
<1>8. B = {} <=> L = {} /\ R = {}
  <2>1. B # {} => L # {} \/ R # {}
    BY <1>4, <1>5, <1>6, <1>7
  <2>2. L # {} \/ R # {} => B # {}
    BY <1>5, <1>6, <1>7
  <2> QED
    BY <2>1, <2>2
<1>9. CASE R # {}
  <2>1. PICK k \in R : k \in 1 .. m /\ Max(R) = k /\ \A j \in R : j <= k
    BY <1>9, LastAssigned DEF R, m
  <2>2. n + k \in B /\ B \in SUBSET Int
    BY <1>1, <1>5, <1>7, <2>1
  <2>3. ASSUME NEW j \in B PROVE j <= n + k
    <3>1. j \in 1 .. n => j <= n + k
      BY <1>1, <2>1
    <3>2. j \notin 1 .. n => j - n \in R
      BY <1>1, <1>4, <1>5, <1>7
    <3> QED
      BY <1>1, <1>5, <2>1, <3>1, <3>2
  <2>4. Max(B) = n + k
    BY <2>2, <2>3, MaxIs
  <2>5. both[n + k] = right[k]
    BY <1>3, <2>1
  <2> QED
    BY <1>8, <1>9, <2>1, <2>4, <2>5 DEF Told, LastOf, B, R, both
<1>10. CASE R = {} /\ L # {}
  <2>1. PICK k \in L : k \in 1 .. n /\ Max(L) = k /\ \A j \in L : j <= k
    BY <1>10, LastAssigned DEF L, n
  <2>2. k \in B /\ B \in SUBSET Int
    BY <1>1, <1>5, <1>6, <2>1
  <2>3. B = L
    <3>1. B \subseteq 1 .. n
      BY <1>4, <1>5, <1>7, <1>10
    <3> QED
      BY <1>5, <1>6, <3>1
  <2>4. both[k] = left[k]
    BY <1>2, <2>1
  <2> QED
    BY <1>10, <2>1, <2>3, <2>4 DEF Told, LastOf, B, L, R, both
<1>11. CASE R = {} /\ L = {}
  BY <1>8, <1>11 DEF Told, B, L, R, both
<1> QED
  BY <1>8, <1>9, <1>10, <1>11 DEF B, L, R, both

LEMMA ToldOne ==
    ASSUME NEW entry \in Assignments, NEW key
    PROVE  /\ <<entry>> \in Seq(Assignments)
           /\ Assigned(<<entry>>, key) = {} <=> entry.key # key
           /\ entry.key = key => Told(<<entry>>, key) = networkdAtoi(entry.value)
<1> DEFINE one == <<entry>>
<1>1. one \in Seq(Assignments) /\ DOMAIN one = {1} /\ one[1] = entry
  OBVIOUS
<1> HIDE DEF one
<1>2. entry.key # key => Assigned(one, key) = {}
  BY <1>1 DEF Assigned
<1>3. ASSUME entry.key = key
      PROVE  Assigned(one, key) = {1} /\ Told(one, key) = networkdAtoi(entry.value)
  <2>1. Assigned(one, key) = {1}
    BY <1>1, <1>3 DEF Assigned
  <2>2. Max({1}) = 1
    BY MaxIs
  <2> QED
    BY <1>1, <2>1, <2>2 DEF Told, LastOf
<1> QED
  BY <1>1, <1>2, <1>3 DEF one

(* The table a unit is folded with.                                        *)
IsRead(table, entries) ==
    table = [n \in 0 .. Len(entries) |->
               IF n = 0 THEN NewUnit ELSE Apply(table[n - 1], entries[n])]

LEMMA ReadExists ==
    \A entries \in Seq(Assignments) : \E table : IsRead(table, entries)
<1> DEFINE shown == {entries \in Seq(Assignments) : \E table : IsRead(table, entries)}
<1>1. << >> \in shown
  <2>1. IsRead([n \in 0 .. 0 |-> NewUnit], << >>)
    BY DEF IsRead
  <2> QED
    BY <2>1
<1>2. ASSUME NEW entries \in shown, NEW entry \in Assignments
      PROVE  Append(entries, entry) \in shown
  <2>1. PICK table : IsRead(table, entries)
    OBVIOUS
  <2> DEFINE n == Len(entries)
             more == Append(entries, entry)
             last == Apply(table[n], entry)
             longer == [i \in 0 .. n + 1 |-> IF i = n + 1 THEN last ELSE table[i]]
  <2>2. n \in Nat /\ Len(more) = n + 1 /\ more[n + 1] = entry /\ more \in Seq(Assignments)
        /\ \A i \in 1 .. n : more[i] = entries[i]
    BY AppendProperties, LenProperties
  <2>3. /\ DOMAIN table = 0 .. n
        /\ \A i \in 0 .. n :
             table[i] = IF i = 0 THEN NewUnit ELSE Apply(table[i - 1], entries[i])
    BY <2>1 DEF IsRead
  <2> HIDE DEF n, more
  <2>4. ASSUME NEW i \in 0 .. n
        PROVE  longer[i] = IF i = 0 THEN NewUnit ELSE Apply(longer[i - 1], more[i])
    <3>1. longer[i] = table[i] /\ (i # 0 => more[i] = entries[i])
      BY <2>2
    <3>2. i # 0 => longer[i - 1] = table[i - 1]
      BY <2>2
    <3> QED
      BY <2>3, <3>1, <3>2
  <2>5. longer[n + 1] = Apply(longer[n], more[n + 1])
    BY <2>2, <2>3
  <2>6. longer = [i \in 0 .. n + 1 |-> longer[i]]
    OBVIOUS
  <2> HIDE DEF longer
  <2>7. \A i \in 0 .. n + 1 :
          longer[i] = IF i = 0 THEN NewUnit ELSE Apply(longer[i - 1], more[i])
    BY <2>2, <2>4, <2>5
  <2>8. IsRead(longer, more)
    BY <2>2, <2>6, <2>7 DEF IsRead
  <2> QED
    BY <2>2, <2>8 DEF more
<1> HIDE DEF shown
<1>3. shown = Seq(Assignments)
  <2>1. shown \in SUBSET Seq(Assignments)
    BY DEF shown
  <2> QED
    BY <1>1, <1>2, <2>1, SequenceInduction
<1> QED
  BY <1>3 DEF shown

LEMMA ReadTable ==
    ASSUME NEW entries \in Seq(Assignments)
    PROVE  \E table : IsRead(table, entries) /\ Folded(entries) = table[Len(entries)]
<1> DEFINE read == CHOOSE table : IsRead(table, entries)
<1>1. IsRead(read, entries)
  BY ReadExists
<1>2. Folded(entries) = read[Len(entries)]
  BY DEF Folded, IsRead
<1> QED
  BY <1>1, <1>2

LEMMA FoldedEmpty == Folded(<< >>) = NewUnit
<1>1. PICK table : IsRead(table, << >>) /\ Folded(<< >>) = table[Len(<< >>)]
  BY ReadTable, EmptySeq
<1> QED
  BY <1>1 DEF IsRead

LEMMA FoldedAppend ==
    ASSUME NEW entries \in Seq(Assignments), NEW entry \in Assignments
    PROVE  Folded(Append(entries, entry)) = Apply(Folded(entries), entry)
<1> DEFINE n == Len(entries)
           more == Append(entries, entry)
<1>1. n \in Nat /\ Len(more) = n + 1 /\ more[n + 1] = entry /\ more \in Seq(Assignments)
      /\ \A i \in 1 .. n : more[i] = entries[i]
  BY AppendProperties, LenProperties
<1>2. PICK longer : IsRead(longer, more) /\ Folded(more) = longer[n + 1]
  BY <1>1, ReadTable
<1>3. PICK table : IsRead(table, entries) /\ Folded(entries) = table[n]
  BY ReadTable
<1>4. \A i \in 0 .. n + 1 :
        longer[i] = IF i = 0 THEN NewUnit ELSE Apply(longer[i - 1], more[i])
  BY <1>1, <1>2 DEF IsRead
<1>5. \A i \in 0 .. n :
        table[i] = IF i = 0 THEN NewUnit ELSE Apply(table[i - 1], entries[i])
  BY <1>3 DEF IsRead
<1> HIDE DEF n, more
<1> DEFINE shown == {i \in Nat : i \in 0 .. n => table[i] = longer[i]}
<1>6. 0 \in shown
  BY <1>1, <1>4, <1>5
<1>7. ASSUME NEW i \in shown PROVE i + 1 \in shown
  <2> SUFFICES ASSUME i + 1 \in 0 .. n PROVE table[i + 1] = longer[i + 1]
    OBVIOUS
  <2>1. /\ i \in Nat /\ i \in 0 .. n /\ i + 1 \in 0 .. n /\ i + 1 \in 0 .. n + 1
        /\ (i + 1) - 1 = i /\ i + 1 # 0 /\ i + 1 \in 1 .. n
    BY <1>1
  <2>2. table[i] = longer[i]
    BY <2>1
  <2> HIDE DEF shown
  <2>3. table[i + 1] = Apply(table[i], entries[i + 1])
    BY <1>5, <2>1
  <2>4. longer[i + 1] = Apply(longer[i], more[i + 1])
    BY <1>4, <2>1
  <2> QED
    BY <1>1, <2>1, <2>2, <2>3, <2>4
<1>8. shown = Nat
  <2>1. shown \in SUBSET Nat
    OBVIOUS
  <2> HIDE DEF shown
  <2> QED
    BY <1>6, <1>7, <2>1, NumberInduction
<1>9. table[n] = longer[n]
  <2>1. n \in shown /\ n \in 0 .. n
    BY <1>1, <1>8
  <2> QED
    BY <2>1
<1> HIDE DEF shown
<1>10. longer[n + 1] = Apply(longer[n], entry)
  <2>1. n + 1 \in 0 .. n + 1 /\ n + 1 # 0 /\ (n + 1) - 1 = n
    BY <1>1
  <2> QED
    BY <1>1, <1>4, <2>1
<1> QED
  BY <1>2, <1>3, <1>9, <1>10 DEF more

(* What a unit can hold.                                                   *)
Units ==
    [link : STRING \cup {"none"}, address : AddressValues, enabled : BOOLEAN,
     hasSection : BOOLEAN, offset : Int, size : Int]

LEMMA AtoiTyped ==
    \A value \in Int : networkdAtoi(value) \in Nat
  BY DEF networkdAtoi

LEMMA NewUnitTyped ==
    NewUnit \in Units /\ NewUnit.offset = 0 /\ NewUnit.size = 0
<1>1. NoAddress \in AddressValues
  BY BlockAssumption DEF NoAddress, AddressValues
<1> QED
  BY <1>1 DEF NewUnit, Units

LEMMA ApplyTyped ==
    ASSUME NEW unit \in Units, NEW entry \in Assignments
    PROVE  /\ Apply(unit, entry) \in Units
           /\ Apply(unit, entry).offset = IF entry.key = "PoolOffset"
                                          THEN networkdAtoi(entry.value)
                                          ELSE unit.offset
           /\ Apply(unit, entry).size = IF entry.key = "PoolSize"
                                        THEN networkdAtoi(entry.value)
                                        ELSE unit.size
<1> USE DEF Units
<1>0. /\ entry.key \in {"Address", "ServerAddress"} => entry.value \in AddressValues
      /\ entry.key \in {"PoolOffset", "PoolSize"} => entry.value \in Int
      /\ entry.key = "Name" => entry.value \in STRING
      /\ entry.key \in {"Address", "ServerAddress", "PoolOffset", "PoolSize",
                        "Name", "DHCPServer", "Other"}
  BY DEF Assignments
<1>1. CASE entry.key = "Address"
  <2>1. \/ Apply(unit, entry) = unit
        \/ Apply(unit, entry) = [unit EXCEPT !.address = entry.value]
    BY <1>1 DEF Apply
  <2> QED
    BY <1>0, <1>1, <2>1
<1>2. CASE entry.key = "ServerAddress"
  <2>1. \/ Apply(unit, entry) = [unit EXCEPT !.hasSection = TRUE]
        \/ Apply(unit, entry) = [unit EXCEPT !.address = entry.value, !.hasSection = TRUE]
    BY <1>2 DEF Apply
  <2> QED
    BY <1>0, <1>2, <2>1
<1>3. CASE entry.key = "PoolOffset"
  <2> DEFINE value == networkdAtoi(entry.value)
  <2>1. Apply(unit, entry) = [unit EXCEPT !.offset = value, !.hasSection = TRUE]
    BY <1>3 DEF Apply
  <2>2. value \in Int
    BY <1>0, <1>3, AtoiTyped
  <2> HIDE DEF value
  <2>3. /\ Apply(unit, entry) \in Units
        /\ Apply(unit, entry).offset = value /\ Apply(unit, entry).size = unit.size
    BY <2>1, <2>2
  <2> QED
    BY <1>3, <2>3 DEF value
<1>4. CASE entry.key = "PoolSize"
  <2> DEFINE value == networkdAtoi(entry.value)
  <2>1. Apply(unit, entry) = [unit EXCEPT !.size = value, !.hasSection = TRUE]
    BY <1>4 DEF Apply
  <2>2. value \in Int
    BY <1>0, <1>4, AtoiTyped
  <2> HIDE DEF value
  <2>3. /\ Apply(unit, entry) \in Units
        /\ Apply(unit, entry).size = value /\ Apply(unit, entry).offset = unit.offset
    BY <2>1, <2>2
  <2> QED
    BY <1>4, <2>3 DEF value
<1>5. CASE entry.key = "Name"
  <2>1. \/ Apply(unit, entry) = unit
        \/ Apply(unit, entry) = [unit EXCEPT !.link = entry.value]
    BY <1>5 DEF Apply
  <2> QED
    BY <1>0, <1>5, <2>1
<1>6. CASE entry.key = "DHCPServer"
  <2> DEFINE on == networkdBool(entry.value)
  <2>1. Apply(unit, entry) = [unit EXCEPT !.enabled = on] /\ on \in BOOLEAN
    BY <1>6 DEF Apply, networkdBool
  <2> HIDE DEF on
  <2> QED
    BY <1>6, <2>1
<1>7. CASE entry.key = "Other"
  <2>1. Apply(unit, entry) = [unit EXCEPT !.hasSection = TRUE]
    BY <1>7 DEF Apply
  <2> QED
    BY <1>7, <2>1
<1> QED
  BY <1>0, <1>1, <1>2, <1>3, <1>4, <1>5, <1>6, <1>7

(* The numbers of a folded unit are what its assignments tell.             *)
LEMMA UnitIsTold ==
    \A entries \in Seq(Assignments) :
        /\ Folded(entries) \in Units
        /\ Folded(entries).offset = Told(entries, "PoolOffset")
        /\ Folded(entries).size = Told(entries, "PoolSize")
<1> DEFINE Right(entries) ==
             /\ Folded(entries) \in Units
             /\ Folded(entries).offset = Told(entries, "PoolOffset")
             /\ Folded(entries).size = Told(entries, "PoolSize")
           shown == {entries \in Seq(Assignments) : Right(entries)}
<1>1. << >> \in shown
  <2>1. \A key : Told(<< >>, key) = 0
    BY DEF Told, Assigned
  <2> QED
    BY <2>1, FoldedEmpty, NewUnitTyped
<1>2. ASSUME NEW entries \in shown, NEW entry \in Assignments
      PROVE  Append(entries, entry) \in shown
  <2> DEFINE more == Append(entries, entry)
  <2>1. entries \in Seq(Assignments) /\ more \in Seq(Assignments) /\ Right(entries)
    BY AppendProperties
  <2> HIDE DEF shown
  <2>2. more = entries \o <<entry>> /\ <<entry>> \in Seq(Assignments)
    BY <2>1, AppendIsConcat, ToldOne
  <2>3. ASSUME NEW key
        PROVE  Told(more, key) = IF entry.key = key THEN networkdAtoi(entry.value)
                                 ELSE Told(entries, key)
    <3>1. Told(entries \o <<entry>>, key)
            = IF Assigned(<<entry>>, key) = {} THEN Told(entries, key)
              ELSE Told(<<entry>>, key)
      BY <2>1, <2>2, ToldJoin
    <3>2. /\ Assigned(<<entry>>, key) = {} <=> entry.key # key
          /\ entry.key = key => Told(<<entry>>, key) = networkdAtoi(entry.value)
      BY ToldOne
    <3> HIDE DEF more
    <3> QED
      BY <2>2, <3>1, <3>2
  <2>4. Folded(more) = Apply(Folded(entries), entry)
    BY <2>1, FoldedAppend
  <2> HIDE DEF more
  <2>5. Right(more)
    BY <2>1, <2>3, <2>4, ApplyTyped
  <2> QED
    BY <2>1, <2>5 DEF shown, more
<1> HIDE DEF shown
<1>3. shown = Seq(Assignments)
  <2>1. shown \in SUBSET Seq(Assignments)
    BY DEF shown
  <2> QED
    BY <1>1, <1>2, <2>1, SequenceInduction
<1> QED
  BY <1>3 DEF shown

-----------------------------------------------------------------------------
(* Which file, of which directory, has the last word.                      *)

(* The pieces of a sequence that assign a key.                             *)
Speaking(pieces, key) == {i \in DOMAIN pieces : Assigned(pieces[i], key) # {}}

ToldPieces(pieces, key) ==
    IF Speaking(pieces, key) = {} THEN 0
    ELSE Told(pieces[Max(Speaking(pieces, key))], key)

(* One more piece.                                                         *)
LEMMA SpeakingAppend ==
    ASSUME NEW pieces \in Seq(Seq(Assignments)), NEW piece \in Seq(Assignments), NEW key
    PROVE  /\ Assigned(piece, key) = {} =>
                /\ Speaking(Append(pieces, piece), key) = Speaking(pieces, key)
                /\ ToldPieces(Append(pieces, piece), key) = ToldPieces(pieces, key)
           /\ Assigned(piece, key) # {} =>
                /\ Speaking(Append(pieces, piece), key) # {}
                /\ ToldPieces(Append(pieces, piece), key) = Told(piece, key)
<1> DEFINE n == Len(pieces)
           more == Append(pieces, piece)
           old == Speaking(pieces, key)
           new == Speaking(more, key)
<1>1. /\ n \in Nat /\ DOMAIN pieces = 1 .. n /\ DOMAIN more = 1 .. n + 1
      /\ more[n + 1] = piece /\ \A i \in 1 .. n : more[i] = pieces[i]
  BY AppendProperties, LenProperties
<1> HIDE DEF n, more
<1>2. old \subseteq 1 .. n /\ new \subseteq 1 .. n + 1
  BY <1>1 DEF Speaking
<1>3. \A i \in 1 .. n : i \in 1 .. n + 1 /\ (i \in old <=> i \in new)
  BY <1>1 DEF Speaking
<1>4. n + 1 \in new <=> Assigned(piece, key) # {}
  BY <1>1 DEF Speaking
<1> HIDE DEF old, new
<1>5. CASE Assigned(piece, key) = {}
  <2>1. \A i \in new : i \in 1 .. n
    BY <1>1, <1>2, <1>4, <1>5
  <2>2. new = old
    BY <1>2, <1>3, <2>1
  <2>3. old # {} => Max(old) \in 1 .. n
    <3> SUFFICES ASSUME old # {} PROVE Max(old) \in 1 .. n
      OBVIOUS
    <3>1. old \in SUBSET (0 .. n)
      BY <1>1, <1>2
    <3> QED
      BY <1>1, <1>2, <3>1, LargestIsIn
  <2>4. ToldPieces(more, key) = ToldPieces(pieces, key)
    BY <1>1, <2>2, <2>3 DEF ToldPieces, old, new
  <2> QED
    BY <1>5, <2>2, <2>4 DEF old, new, more
<1>6. CASE Assigned(piece, key) # {}
  <2>1. n + 1 \in new /\ new \in SUBSET Int /\ \A i \in new : i <= n + 1
    BY <1>1, <1>2, <1>4, <1>6
  <2>2. Max(new) = n + 1
    BY <2>1, MaxIs
  <2>3. ToldPieces(more, key) = Told(piece, key)
    BY <1>1, <2>1, <2>2 DEF ToldPieces, new
  <2> QED
    BY <1>6, <2>1, <2>3 DEF new, more
<1> QED
  BY <1>5, <1>6

(* Assignments in pieces tell what the last piece that assigns the key     *)
(* tells.                                                                  *)
LEMMA ToldFlat ==
    ASSUME NEW key
    PROVE  \A pieces \in Seq(Seq(Assignments)) :
             /\ Told(FlattenSeq(pieces), key) = ToldPieces(pieces, key)
             /\ Assigned(FlattenSeq(pieces), key) = {} <=> Speaking(pieces, key) = {}
<1> DEFINE Right(pieces) ==
             /\ Told(FlattenSeq(pieces), key) = ToldPieces(pieces, key)
             /\ Assigned(FlattenSeq(pieces), key) = {} <=> Speaking(pieces, key) = {}
           shown == {pieces \in Seq(Seq(Assignments)) : Right(pieces)}
<1>1. << >> \in shown
  <2>1. Speaking(<< >>, key) = {} /\ Assigned(<< >>, key) = {}
    BY DEF Speaking, Assigned
  <2> QED
    BY <2>1, FlatEmpty DEF Told, ToldPieces
<1>2. ASSUME NEW pieces \in shown, NEW piece \in Seq(Assignments)
      PROVE  Append(pieces, piece) \in shown
  <2> DEFINE more == Append(pieces, piece)
             flat == FlattenSeq(pieces)
  <2>1. pieces \in Seq(Seq(Assignments)) /\ more \in Seq(Seq(Assignments)) /\ Right(pieces)
    BY AppendProperties
  <2> HIDE DEF shown
  <2>2. FlattenSeq(more) = flat \o piece /\ flat \in Seq(Assignments)
    BY <2>1, FlatAppend, FlatType
  <2>3. /\ Told(flat \o piece, key) = IF Assigned(piece, key) = {} THEN Told(flat, key)
                                      ELSE Told(piece, key)
        /\ Assigned(flat \o piece, key) = {}
             <=> Assigned(flat, key) = {} /\ Assigned(piece, key) = {}
    BY <2>2, ToldJoin
  <2>4. /\ Assigned(piece, key) = {} =>
             /\ Speaking(more, key) = Speaking(pieces, key)
             /\ ToldPieces(more, key) = ToldPieces(pieces, key)
        /\ Assigned(piece, key) # {} =>
             /\ Speaking(more, key) # {}
             /\ ToldPieces(more, key) = Told(piece, key)
    BY <2>1, SpeakingAppend
  <2> HIDE DEF more
  <2>5. Right(more)
    BY <2>1, <2>2, <2>3, <2>4
  <2> QED
    BY <2>1, <2>5 DEF shown, more
<1> HIDE DEF shown
<1>3. shown = Seq(Seq(Assignments))
  <2>1. shown \in SUBSET Seq(Seq(Assignments))
    BY DEF shown
  <2> QED
    BY <1>1, <1>2, <2>1, SequenceInduction
<1> QED
  BY <1>3 DEF shown

(* The files of a directory tell what the last of them that assigns the    *)
(* key tells.                                                              *)
LEMMA ReadableTold ==
    ASSUME NEW files \in Seq(NetworkdFiles), NEW key
    PROVE  /\ Readable(files) \in Seq(Assignments)
           /\ Assigned(Readable(files), key) = {} <=> Saying(files, key) = {}
           /\ Saying(files, key) # {} =>
                Told(Readable(files), key)
                  = LastOf(files[Max(Saying(files, key))].entries, key)
<1> DEFINE pieces == [j \in DOMAIN files |-> IF files[j].readable THEN files[j].entries
                                             ELSE << >>]
<1>1. /\ Len(files) \in Nat /\ DOMAIN files = 1 .. Len(files)
      /\ \A j \in DOMAIN files : files[j] \in NetworkdFiles
  BY LenProperties, ElementOfSeq
<1>2. \A j \in DOMAIN files : pieces[j] \in Seq(Assignments)
  BY <1>1, EmptySeq DEF NetworkdFiles
<1>3. pieces = [j \in 1 .. Len(files) |-> pieces[j]]
  BY <1>1
<1>4. Readable(files) = FlattenSeq(pieces)
  BY DEF Readable
<1>5. DOMAIN pieces = DOMAIN files
  OBVIOUS
<1>6. \A j \in DOMAIN files : /\ files[j].readable => pieces[j] = files[j].entries
                              /\ ~files[j].readable => pieces[j] = << >>
  OBVIOUS
<1> HIDE DEF pieces
<1>7. pieces \in Seq(Seq(Assignments))
  BY <1>1, <1>2, <1>3
<1>8. Assigned(<< >>, key) = {}
  BY DEF Assigned
<1>9. Speaking(pieces, key) = Saying(files, key)
  BY <1>5, <1>6, <1>8 DEF Speaking, Saying
<1>10. /\ Told(FlattenSeq(pieces), key) = ToldPieces(pieces, key)
       /\ Assigned(FlattenSeq(pieces), key) = {} <=> Speaking(pieces, key) = {}
       /\ FlattenSeq(pieces) \in Seq(Assignments)
  BY <1>7, ToldFlat, FlatType
<1>11. ASSUME Saying(files, key) # {}
       PROVE  ToldPieces(pieces, key) = LastOf(files[Max(Saying(files, key))].entries, key)
  <2> DEFINE j == Max(Saying(files, key))
  <2>1. Saying(files, key) \in SUBSET (0 .. Len(files))
    BY <1>1 DEF Saying
  <2>2. j \in Saying(files, key)
    BY <1>1, <1>11, <2>1, LargestIsIn
  <2> HIDE DEF j
  <2>3. pieces[j] = files[j].entries /\ Assigned(files[j].entries, key) # {}
    BY <1>6, <2>2 DEF Saying
  <2> QED
    BY <1>9, <1>11, <2>3 DEF ToldPieces, Told, j
<1> QED
  BY <1>4, <1>9, <1>10, <1>11

(* The drop-ins that are there, a directory after the other in search      *)
(* order, and the search directories that assign a key.                    *)
DropinsIn(host, name) ==
    [i \in DOMAIN NetworkdConfigDirs |-> At(host.dropins, <<NetworkdConfigDirs[i], name>>)]

Assigning(host, name, key) ==
    {i \in DOMAIN NetworkdConfigDirs : Saying(DropinsIn(host, name)[i], key) # {}}

LEMMA DropinsTyped ==
    ASSUME NEW host, HasFiles(host), NEW name
    PROVE  /\ Len(NetworkdConfigDirs) \in Nat
           /\ DOMAIN NetworkdConfigDirs = 1 .. Len(NetworkdConfigDirs)
           /\ \A i \in DOMAIN NetworkdConfigDirs :
                DropinsIn(host, name)[i] \in Seq(NetworkdFiles)
<1>1. NetworkdConfigDirs \in Seq({NetworkdConfigDirs[i] : i \in DOMAIN NetworkdConfigDirs})
  BY DEF NetworkdConfigDirs
<1>2. << >> \in Seq(NetworkdFiles)
  BY EmptySeq
<1> QED
  BY <1>1, <1>2, LenProperties DEF DropinsIn, At, HasFiles

(* The first of the search directories whose drop-ins assign the key has   *)
(* the last word among them.                                               *)
LEMMA DropinsTold ==
    ASSUME NEW host, HasFiles(host), NEW name, NEW key
    PROVE  LET dirs == Assigning(host, name, key)
               files == DropinsIn(host, name)[Min(dirs)]
           IN  /\ DropinFiles(host, name) \in Seq(Assignments)
               /\ Assigned(DropinFiles(host, name), key) = {} <=> dirs = {}
               /\ dirs # {} =>
                    /\ Min(dirs) \in dirs
                    /\ Told(DropinFiles(host, name), key)
                         = LastOf(files[Max(Saying(files, key))].entries, key)
<1> DEFINE n == Len(NetworkdConfigDirs)
           in == DropinsIn(host, name)
           dirs == Assigning(host, name, key)
           pieces == [i \in DOMAIN NetworkdConfigDirs |->
                        Readable(At(host.dropins,
                                    <<Reverse(NetworkdConfigDirs)[i], name>>))]
           speaking == Speaking(pieces, key)
<1>1. /\ n \in Nat /\ DOMAIN NetworkdConfigDirs = 1 .. n
      /\ \A i \in 1 .. n : in[i] \in Seq(NetworkdFiles)
  BY DropinsTyped
<1>2. \A i \in 1 .. n : Reverse(NetworkdConfigDirs)[i] = NetworkdConfigDirs[(n - i) + 1]
  BY DEF Reverse
<1>3. \A i \in 1 .. n : (n - i) + 1 \in 1 .. n /\ (n - ((n - i) + 1)) + 1 = i
  BY <1>1
<1>4. \A i \in 1 .. n :
        in[i] = At(host.dropins, <<NetworkdConfigDirs[i], name>>)
  BY <1>1 DEF DropinsIn
<1>5. DOMAIN pieces = 1 .. n /\ pieces = [i \in 1 .. n |-> pieces[i]]
  BY <1>1
<1>6. \A i \in 1 .. n : pieces[i] = Readable(in[(n - i) + 1])
  <2> SUFFICES ASSUME NEW i \in 1 .. n PROVE pieces[i] = Readable(in[(n - i) + 1])
    OBVIOUS
  <2>1. pieces[i] = Readable(At(host.dropins,
                                <<Reverse(NetworkdConfigDirs)[i], name>>))
    BY <1>1
  <2> HIDE DEF pieces, in, n
  <2> QED
    BY <1>2, <1>3, <1>4, <2>1
<1>7. DropinFiles(host, name) = FlattenSeq(pieces)
  BY DEF DropinFiles
<1> HIDE DEF pieces, in, n
<1>8. \A i \in 1 .. n :
        /\ Readable(in[i]) \in Seq(Assignments)
        /\ Assigned(Readable(in[i]), key) = {} <=> Saying(in[i], key) = {}
        /\ Saying(in[i], key) # {} =>
             Told(Readable(in[i]), key)
               = LastOf(in[i][Max(Saying(in[i], key))].entries, key)
  BY <1>1, ReadableTold
<1>9. pieces \in Seq(Seq(Assignments))
  <2>1. \A i \in 1 .. n : pieces[i] \in Seq(Assignments)
    BY <1>3, <1>6, <1>8
  <2> QED
    BY <1>1, <1>5, <2>1
<1>10. /\ Told(FlattenSeq(pieces), key) = ToldPieces(pieces, key)
       /\ Assigned(FlattenSeq(pieces), key) = {} <=> speaking = {}
       /\ FlattenSeq(pieces) \in Seq(Assignments)
  BY <1>9, ToldFlat, FlatType
<1>11. dirs = {i \in 1 .. n : Saying(in[i], key) # {}}
  BY <1>1 DEF Assigning, in
<1>12. \A i \in 1 .. n : i \in speaking <=> (n - i) + 1 \in dirs
  BY <1>3, <1>5, <1>6, <1>8, <1>11 DEF Speaking
<1>13. dirs \subseteq 1 .. n /\ speaking \subseteq 1 .. n
  BY <1>5, <1>11 DEF Speaking
<1> HIDE DEF dirs, speaking
<1>14. \A i \in dirs : (n - i) + 1 \in speaking
  BY <1>3, <1>12, <1>13
<1>15. ASSUME dirs # {}
       PROVE  /\ speaking # {} /\ Min(dirs) \in dirs
              /\ pieces[Max(speaking)] = Readable(in[Min(dirs)])
  <2> DEFINE last == Max(speaking)
             first == (n - last) + 1
  <2>1. speaking # {} /\ speaking \in SUBSET (0 .. n)
    <3>1. speaking # {}
      BY <1>14, <1>15
    <3>2. 1 .. n \subseteq 0 .. n
      BY <1>1
    <3> QED
      BY <1>13, <3>1, <3>2
  <2>2. last \in speaking /\ \A i \in speaking : i <= last
    BY <1>1, <2>1, LargestIsIn
  <2>3. last \in 1 .. n
    BY <1>13, <2>2
  <2> HIDE DEF last
  <2>4. first \in dirs /\ first \in 1 .. n
    BY <1>3, <1>12, <2>2, <2>3
  <2>5. \A i \in dirs : first <= i
    <3> SUFFICES ASSUME NEW i \in dirs PROVE first <= i
      OBVIOUS
    <3>1. i \in 1 .. n /\ (n - i) + 1 <= last
      BY <1>13, <1>14, <2>2
    <3> QED
      BY <1>1, <2>3, <3>1
  <2>6. Min(dirs) = first
    <3>1. dirs \in SUBSET Int
      BY <1>1, <1>13
    <3> HIDE DEF first
    <3> QED
      BY <2>4, <2>5, <3>1, MinIs
  <2>7. pieces[last] = Readable(in[first])
    BY <1>6, <2>3
  <2> HIDE DEF first
  <2> QED
    BY <2>1, <2>4, <2>6, <2>7 DEF last
<1>16. dirs = {} <=> speaking = {}
  <2>1. speaking # {} => dirs # {}
    BY <1>12, <1>13
  <2> QED
    BY <1>15, <2>1
<1>17. ASSUME dirs # {}
       PROVE  LET files == in[Min(dirs)]
              IN  ToldPieces(pieces, key)
                    = LastOf(files[Max(Saying(files, key))].entries, key)
  <2> DEFINE first == Min(dirs)
  <2>1. first \in 1 .. n /\ Saying(in[first], key) # {}
    BY <1>11, <1>15, <1>17
  <2>2. ToldPieces(pieces, key) = Told(Readable(in[first]), key)
    BY <1>15, <1>17 DEF ToldPieces, speaking
  <2> HIDE DEF first
  <2>3. Told(Readable(in[first]), key)
          = LastOf(in[first][Max(Saying(in[first], key))].entries, key)
    BY <1>8, <2>1
  <2> QED
    BY <2>2, <2>3 DEF first
<1> QED
  BY <1>7, <1>10, <1>15, <1>16, <1>17 DEF dirs, in

(* The numbers of a unit that can be read are the ones assigned last.      *)
LEMMA NumbersAreLast ==
    ASSUME NEW host, HasFiles(host), NEW site \in DOMAIN host.units
    PROVE  LET unit == ParseNetworkdUnit(host, site)
           IN  /\ unit \in Units
               /\ unit.offset = LastWord(host, site, "PoolOffset")
               /\ unit.size = LastWord(host, site, "PoolSize")
<1> DEFINE own == host.units[site].entries
           dropins == DropinFiles(host, site[2])
<1>1. own \in Seq(Assignments) /\ dropins \in Seq(Assignments)
  BY DropinsTold DEF HasFiles, NetworkdFiles
<1>2. own \o dropins \in Seq(Assignments)
  BY <1>1, ConcatProperties
<1>3. ParseNetworkdUnit(host, site) = Folded(own \o dropins)
  BY DEF ParseNetworkdUnit
<1>4. ASSUME NEW key PROVE Told(own \o dropins, key) = LastWord(host, site, key)
  <2> DEFINE dirs == Assigning(host, site[2], key)
             files == DropinsIn(host, site[2])[Min(dirs)]
  <2>1. Told(own \o dropins, key)
          = IF Assigned(dropins, key) = {} THEN Told(own, key) ELSE Told(dropins, key)
    BY <1>1, ToldJoin
  <2>2. /\ Assigned(dropins, key) = {} <=> dirs = {}
        /\ dirs # {} =>
             /\ Min(dirs) \in dirs
             /\ Told(dropins, key) = LastOf(files[Max(Saying(files, key))].entries, key)
    BY DropinsTold
  <2>3. dirs = {i \in DOMAIN NetworkdConfigDirs :
                  Saying(At(host.dropins, <<NetworkdConfigDirs[i], site[2]>>), key)
                    # {}}
    BY DEF Assigning, DropinsIn
  <2>4. dirs # {} => Min(dirs) \in DOMAIN NetworkdConfigDirs
    BY <2>2, <2>3
  <2>5. dirs # {} =>
          files = At(host.dropins, <<NetworkdConfigDirs[Min(dirs)], site[2]>>)
    BY <2>4 DEF DropinsIn
  <2> HIDE DEF dirs, own, dropins
  <2>6. LastWord(host, site, key)
          = CASE dirs # {} -> LastOf(files[Max(Saying(files, key))].entries, key)
              [] dirs = {} /\ Assigned(own, key) # {} -> LastOf(own, key)
              [] OTHER -> 0
    BY <2>3, <2>5 DEF LastWord, own
  <2> QED
    BY <2>1, <2>2, <2>6 DEF Told
<1> HIDE DEF own, dropins
<1> QED
  BY <1>2, <1>3, <1>4, UnitIsTold

-----------------------------------------------------------------------------
(* The server that is shown is one of the machine's units.                 *)

LEMMA PlaceTyped ==
    ASSUME NEW seq, NEW x PROVE Place(seq, x) \in Nat
<1> DEFINE at == {i \in 1 .. Len(seq) : seq[i] = x}
<1>1. Place(seq, x) = IF at # {} THEN Min(at) ELSE 0
  BY DEF Place, SelectInSeq
<1>2. at \in SUBSET Nat
  OBVIOUS
<1> HIDE DEF at
<1>3. at # {} => Min(at) \in Nat
  BY <1>2, LeastIsIn
<1> QED
  BY <1>1, <1>3

LEMMA FirstPathIn ==
    ASSUME NEW sites, sites # {} PROVE FirstPath(sites) \in sites
<1> DEFINE dir(s) == Place(PathOrder, s[1])
           name(s) == Place(UnitNames, s[2])
           dirs == {dir(s) : s \in sites}
           near == {s \in sites : dir(s) = Min(dirs)}
           names == {name(s) : s \in near}
<1>1. \A s : dir(s) \in Nat /\ name(s) \in Nat
  BY PlaceTyped
<1>2. FirstPath(sites) = CHOOSE s \in sites : \A other \in sites :
                           \/ dir(s) < dir(other)
                           \/ dir(s) = dir(other) /\ name(s) <= name(other)
  BY DEF FirstPath
<1> HIDE DEF dir, name
<1>3. dirs \in SUBSET Nat /\ dirs # {}
  BY <1>1
<1>4. Min(dirs) \in dirs /\ \A s \in sites : Min(dirs) <= dir(s)
  <2>1. \A s \in sites : dir(s) \in dirs
    OBVIOUS
  <2> HIDE DEF dirs
  <2> QED
    BY <1>3, <2>1, LeastIsIn
<1>5. near # {} /\ near \subseteq sites
  BY <1>4
<1>6. \A s \in sites : s \notin near => Min(dirs) < dir(s)
  BY <1>1, <1>3, <1>4
<1>7. \A s \in near : dir(s) = Min(dirs)
  OBVIOUS
<1> HIDE DEF dirs, near
<1>8. names \in SUBSET Nat /\ names # {}
  BY <1>1, <1>5
<1>9. Min(names) \in names /\ \A s \in near : Min(names) <= name(s)
  <2>1. \A s \in near : name(s) \in names
    OBVIOUS
  <2> HIDE DEF names
  <2> QED
    BY <1>8, <2>1, LeastIsIn
<1>10. PICK s \in near : name(s) = Min(names)
  BY <1>9
<1>11. s \in sites /\ \A other \in sites :
         dir(s) < dir(other) \/ (dir(s) = dir(other) /\ name(s) <= name(other))
  BY <1>5, <1>6, <1>7, <1>9, <1>10
<1> QED
  BY <1>2, <1>11

(* A pool comes from a unit file.                                          *)
LEMMA PoolComesFromUnit ==
    ASSUME NEW host, ReadDHCP(host).pool # NoPool
    PROVE  LET dhcp == ReadDHCP(host)
               unit == ParseNetworkdUnit(host, dhcp.unit)
           IN  /\ dhcp.unit \in DOMAIN host.units
               /\ dhcp.pool = NetworkdPoolRange(unit.address, unit.offset, unit.size)
<1> DEFINE units == DHCPUnits(host)
           enabled == {site \in units : ParseNetworkdUnit(host, site).enabled}
<1>1. units \subseteq DOMAIN host.units /\ enabled \subseteq units
  BY DEF DHCPUnits, Claimed
<1>2. ASSUME NEW site
      PROVE  LET unit == ParseNetworkdUnit(host, site)
                 dhcp == ReadNetworkdDHCP(host, site)
             IN  /\ dhcp.unit = site
                 /\ dhcp.pool = NetworkdPoolRange(unit.address, unit.offset, unit.size)
  BY DEF ReadNetworkdDHCP
<1>3. NoDHCP.pool = NoPool
  BY DEF NoDHCP
<1>4. ReadPackagedDHCP(host).pool = NoPool
  <2>1. /\ DOMAIN NoDHCP = {"server", "active", "leases", "link", "unit", "pool"}
    BY DEF NoDHCP
  <2> QED
    BY <1>3, <2>1 DEF ReadPackagedDHCP
<1>5. ReadDHCP(host)
        = CASE enabled # {} -> ReadNetworkdDHCP(host, FirstPath(enabled))
            [] enabled = {} /\ host.package # "none" -> ReadPackagedDHCP(host)
            [] enabled = {} /\ host.package = "none" /\ units # {} ->
                 ReadNetworkdDHCP(host, FirstPath(units))
            [] OTHER -> NoDHCP
  BY DEF ReadDHCP
<1> HIDE DEF units, enabled
<1>6. \/ enabled # {} /\ ReadDHCP(host) = ReadNetworkdDHCP(host, FirstPath(enabled))
      \/ units # {} /\ ReadDHCP(host) = ReadNetworkdDHCP(host, FirstPath(units))
  BY <1>3, <1>4, <1>5
<1>7. PICK site \in DOMAIN host.units : ReadDHCP(host) = ReadNetworkdDHCP(host, site)
  BY <1>1, <1>6, FirstPathIn
<1> QED
  BY <1>2, <1>7

(* The pool that is shown is the one that is served, whatever files the    *)
(* machine has.                                                            *)
LEMMA PoolRight ==
    ASSUME NEW host, HasFiles(host), ReadDHCP(host).pool # NoPool
    PROVE  LET dhcp == ReadDHCP(host)
           IN  LiesInSubnet(dhcp.pool, ParseNetworkdUnit(host, dhcp.unit).address,
                            LastWord(host, dhcp.unit, "PoolOffset"),
                            LastWord(host, dhcp.unit, "PoolSize"))
<1> DEFINE dhcp == ReadDHCP(host)
           unit == ParseNetworkdUnit(host, dhcp.unit)
<1>1. /\ dhcp.unit \in DOMAIN host.units
      /\ dhcp.pool = NetworkdPoolRange(unit.address, unit.offset, unit.size)
  BY PoolComesFromUnit
<1>2. /\ unit \in Units
      /\ unit.offset = LastWord(host, dhcp.unit, "PoolOffset")
      /\ unit.size = LastWord(host, dhcp.unit, "PoolSize")
  BY <1>1, NumbersAreLast
<1>3. dhcp.pool # NoPool
  OBVIOUS
<1> HIDE DEF dhcp, unit
<1>4. unit.address \in AddressValues /\ unit.offset \in Int /\ unit.size \in Int
  BY <1>2 DEF Units
<1>5. IsPool(unit.address, unit.offset, unit.size)
  BY <1>1, <1>3 DEF NetworkdPoolRange
<1>6. LiesInSubnet(dhcp.pool, unit.address, unit.offset, unit.size)
  BY <1>1, <1>4, <1>5, PoolLiesInSubnet
<1> QED
  BY <1>2, <1>6 DEF dhcp, unit

(* A pool that is shown is a run of addresses inside the subnet of its     *)
(* server, from the keys assigned last, for any unit files and drop-ins    *)
(* and for addresses of any number of bits (ParseNetworkdUnit,             *)
(* networkdDropinFiles, NetworkdPoolRange).                                *)
THEOREM PoolWasServed == Spec => []PoolIsServed
<1>1. ASSUME TypeOK PROVE PoolIsServed
  <2>1. cur # NoSnapshot => HasFiles(Files[cur])
    BY <1>1, FilesAssumption DEF TypeOK, Snapshots
  <2> QED
    BY <2>1, PoolRight DEF PoolIsServed
<1> QED
  BY <1>1, CockpitTyped, PTL
=============================================================================
