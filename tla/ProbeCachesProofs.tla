--------------------------- MODULE ProbeCachesProofs ---------------------------
(* The probe caches, for any number of loads and any timeouts.             *)
EXTENDS ProbeCaches, TLAPS

(* The age a load can have when it comes to a cache.                       *)
Arrival(c) ==
    IF c = "tailnet" THEN LoadTimeout ELSE LoadTimeout + ProbeTimeout["tailnet"]

Deadline(c) == Arrival(c) + ProbeTimeout[c]

(* A lock is held by a load that asks the tool, within its timeout.        *)
LockInv ==
    \A c \in Caches : lock[c] # NoLoad =>
        /\ at[lock[c]] = c
        /\ lock[c] \in probing
        /\ left[lock[c]] <= ProbeTimeout[c]

(* What a load can still wait for, where it is: when the cache has to be   *)
(* asked it asks itself, and when somebody does it waits for no more than  *)
(* is left of that.                                                        *)
Waits(l, c) ==
    /\ ran[l] <= Deadline(c)
    /\ lock[c] = NoLoad /\ age[c] >= Refresh[c] => ran[l] <= Arrival(c)
    /\ lock[c] \notin {NoLoad, l} =>
         ran[l] + left[lock[c]] <= Deadline(c)

AgeInv ==
    \A l \in Loads :
        /\ at[l] = "idle" => ran[l] = 0
        /\ at[l] = "reads" => ran[l] <= LoadTimeout
        /\ at[l] = "sent" => ran[l] <= Deadline("updates")
        /\ \A c \in Caches : at[l] = c => Waits(l, c)

CalmInv == \A c \in Caches : calm[c] = age[c]

IInv == TypeOK /\ LockInv /\ AgeInv /\ CalmInv

LEMMA Numbers ==
    /\ LoadTimeout \in Nat
    /\ \A c \in Caches : /\ ProbeTimeout[c] \in Nat
                         /\ Refresh[c] \in Nat \ {0}
                         /\ Arrival(c) \in Nat
                         /\ Deadline(c) \in Nat
                         /\ LoadTimeout <= Arrival(c)
                         /\ Arrival(c) <= Deadline(c)
                         /\ Deadline(c) <= Deadline("updates")
    /\ Arrival("tailnet") = LoadTimeout
    /\ Arrival("updates") = Deadline("tailnet")
    /\ "tailnet" \in Caches /\ "updates" \in Caches
  BY CacheAssumption DEF Arrival, Deadline, Caches

LEMMA InitOK == Init => IInv
<1> SUFFICES ASSUME Init PROVE IInv
  OBVIOUS
<1>1. TypeOK
  BY CacheAssumption DEF Init, TypeOK, Places, Caches
<1>2. LockInv /\ CalmInv
  BY DEF Init, LockInv, CalmInv
<1>3. AgeInv
  BY Numbers DEF Init, AgeInv, Caches
<1> QED
  BY <1>1, <1>2, <1>3 DEF IInv

-----------------------------------------------------------------------------
LEMMA Typed ==
    ASSUME TypeOK, [Next]_vars
    PROVE  TypeOK'
<1> USE CacheAssumption DEF TypeOK
<1>1. ASSUME NEW l \in Loads, Start(l) \/ ReadsEnd(l) \/ Deliver(l)
      PROVE  TypeOK'
  BY <1>1 DEF Start, ReadsEnd, Deliver, Goes, Places, Caches
<1>2. ASSUME NEW l \in Loads, NEW c \in Caches, Hit(l, c)
      PROVE  TypeOK'
  BY <1>2 DEF Hit, Locks, Goes, After, Places, Caches
<1>3. ASSUME NEW l \in Loads, NEW c \in Caches, Miss(l, c)
      PROVE  TypeOK'
  BY <1>3 DEF Miss, Locks, Places
<1>4. ASSUME NEW l \in Loads, NEW c \in Caches, ProbeEnds(l, c)
      PROVE  TypeOK'
  <2>1. /\ at' = [at EXCEPT ![l] = After(c)]
        /\ After(c) \in Places
        /\ UNCHANGED ran
        /\ left' \in [Loads -> Nat]
        /\ lock' = [lock EXCEPT ![c] = NoLoad]
        /\ age' \in [Caches -> Nat] /\ calm' \in [Caches -> Nat]
    BY <1>4 DEF ProbeEnds, Finishes, Goes, After, Places, Caches
  <2>2. l \in probing /\ at[l] = c /\ probing' = probing \ {l}
    BY <1>4 DEF ProbeEnds, Finishes
  <2>3. \A k \in probing' : at'[k] = at[k] /\ at[k] # c
    BY <2>1, <2>2
  <2>4. \A k \in probing' : at'[k] \in Caches /\ lock'[at'[k]] = k
    BY <2>1, <2>2, <2>3
  <2> QED
    BY <2>1, <2>2, <2>4
<1>5. ASSUME Tick
      PROVE  TypeOK'
  <2>1. \A l \in probing : left[l] - 1 \in Nat
    BY <1>5 DEF Tick, Overdue
  <2>2. ran' \in [Loads -> Nat]
    BY <1>5 DEF Tick
  <2>3. left' \in [Loads -> Nat]
    BY <1>5, <2>1 DEF Tick
  <2>4. age' \in [Caches -> Nat] /\ calm' \in [Caches -> Nat]
    BY <1>5 DEF Tick, UpTo
  <2> QED
    BY <1>5, <2>2, <2>3, <2>4 DEF Tick
<1>6. CASE UNCHANGED vars
  BY <1>6 DEF vars
<1> QED
  BY <1>1, <1>2, <1>3, <1>4, <1>5, <1>6 DEF Next

LEMMA LocksHeld ==
    ASSUME TypeOK, LockInv, [Next]_vars
    PROVE  LockInv'
<1> USE CacheAssumption DEF TypeOK, LockInv
<1>1. ASSUME NEW l \in Loads, Start(l) \/ ReadsEnd(l) \/ Deliver(l)
      PROVE  LockInv'
  BY <1>1 DEF Start, ReadsEnd, Deliver, Goes, Places, Caches
<1>2. ASSUME NEW l \in Loads, NEW c \in Caches, Hit(l, c)
      PROVE  LockInv'
  BY <1>2 DEF Hit, Locks, Goes
<1>3. ASSUME NEW l \in Loads, NEW c \in Caches, Miss(l, c)
      PROVE  LockInv'
  BY <1>3 DEF Miss, Locks
<1>4. ASSUME NEW l \in Loads, NEW c \in Caches, ProbeEnds(l, c)
      PROVE  LockInv'
  <2>1. /\ at' = [at EXCEPT ![l] = After(c)]
        /\ probing' = probing \ {l}
        /\ lock' = [lock EXCEPT ![c] = NoLoad]
        /\ left' = [left EXCEPT ![l] = 0]
        /\ l \in probing /\ at[l] = c /\ lock[c] = l
    BY <1>4 DEF ProbeEnds, Finishes, Goes
  <2>2. ASSUME NEW d \in Caches, lock'[d] # NoLoad
        PROVE  d # c /\ lock'[d] = lock[d] /\ lock[d] \in Loads \ {l}
    BY <2>1, <2>2
  <2> QED
    BY <2>1, <2>2
<1>5. ASSUME Tick
      PROVE  LockInv'
  BY <1>5 DEF Tick
<1>6. CASE UNCHANGED vars
  BY <1>6 DEF vars
<1> QED
  BY <1>1, <1>2, <1>3, <1>4, <1>5, <1>6 DEF Next

LEMMA Calm ==
    ASSUME TypeOK, CalmInv, [Next]_vars
    PROVE  CalmInv'
<1> USE DEF TypeOK, CalmInv
<1>1. ASSUME NEW l \in Loads, Start(l) \/ ReadsEnd(l) \/ Deliver(l)
      PROVE  CalmInv'
  BY <1>1 DEF Start, ReadsEnd, Deliver
<1>2. ASSUME NEW l \in Loads, NEW c \in Caches, Hit(l, c) \/ Miss(l, c)
      PROVE  CalmInv'
  BY <1>2 DEF Hit, Miss
<1>3. ASSUME NEW l \in Loads, NEW c \in Caches, ProbeEnds(l, c)
      PROVE  CalmInv'
  BY <1>3 DEF ProbeEnds, Finishes
<1>4. CASE Tick
  BY <1>4 DEF Tick
<1>5. CASE UNCHANGED vars
  BY <1>5 DEF vars
<1> QED
  BY <1>1, <1>2, <1>3, <1>4, <1>5 DEF Next

-----------------------------------------------------------------------------
(* The loads that do not move wait as before when nothing else does.       *)
LEMMA Aged ==
    ASSUME IInv, [Next]_vars
    PROVE  AgeInv'
<1> USE Numbers, CacheAssumption DEF IInv
<1>0. TypeOK'
  BY Typed
<1>1. ASSUME NEW l \in Loads, Start(l)
      PROVE  AgeInv'
  BY <1>1 DEF TypeOK, LockInv, AgeInv, Waits, Start, Goes, Places, Caches
<1>2. ASSUME NEW l \in Loads, ReadsEnd(l)
      PROVE  AgeInv'
  <2>1. /\ at' = [at EXCEPT ![l] = "tailnet"]
        /\ ran[l] <= Arrival("tailnet")
        /\ UNCHANGED <<ran, left, lock, age>>
    BY <1>2 DEF AgeInv, ReadsEnd, Goes
  <2> QED
    BY <1>2, <2>1, <1>0 DEF TypeOK, LockInv, AgeInv, Waits, ReadsEnd, Caches, Deadline
<1>3. ASSUME NEW l \in Loads, Deliver(l)
      PROVE  AgeInv'
  <2>1. /\ at' = [at EXCEPT ![l] = "idle"]
        /\ ran' = [ran EXCEPT ![l] = 0]
        /\ UNCHANGED <<left, lock, age>>
    BY <1>3 DEF Deliver, Goes
  <2>2. ASSUME NEW k \in Loads, k # l
        PROVE  at'[k] = at[k] /\ ran'[k] = ran[k]
    BY <2>1, <2>2 DEF TypeOK
  <2>3. at'[l] = "idle" /\ ran'[l] = 0
    BY <2>1 DEF TypeOK
  <2> QED
    BY <2>1, <2>2, <2>3 DEF AgeInv, Waits, Caches
<1>4. ASSUME NEW l \in Loads, NEW c \in Caches, Hit(l, c)
      PROVE  AgeInv'
  <2>1. /\ at' = [at EXCEPT ![l] = After(c)]
        /\ at[l] = c
        /\ ran[l] <= Deadline(c)
        /\ UNCHANGED <<ran, left, lock, age>>
    BY <1>4 DEF AgeInv, Waits, Hit, Locks, Goes
  <2> QED
    BY <1>4, <2>1, <1>0 DEF TypeOK, LockInv, AgeInv, Waits, After, Caches, Deadline, Hit, Locks
<1>5. ASSUME NEW l \in Loads, NEW c \in Caches, Miss(l, c)
      PROVE  AgeInv'
  BY <1>5, <1>0 DEF TypeOK, LockInv, AgeInv, Waits, Miss, Locks, Deadline, Caches
<1>6. ASSUME NEW l \in Loads, NEW c \in Caches, ProbeEnds(l, c)
      PROVE  AgeInv'
  <2>1. /\ at' = [at EXCEPT ![l] = After(c)]
        /\ lock' = [lock EXCEPT ![c] = NoLoad]
        /\ left' = [left EXCEPT ![l] = 0]
        /\ age' = [age EXCEPT ![c] = 0]
        /\ UNCHANGED ran
        /\ at[l] = c /\ lock[c] = l
    BY <1>6 DEF ProbeEnds, Finishes, Goes, TypeOK
  <2>2. ran[l] <= Deadline(c)
    BY <2>1 DEF AgeInv, Waits
  <2>3. ASSUME NEW k \in Loads, k # l
        PROVE  at'[k] = at[k] /\ left'[k] = left[k]
    BY <2>1, <2>3 DEF TypeOK
  <2>4. ASSUME NEW k \in Loads, at'[k] = c
        PROVE  Waits(k, c)'
    <3>1. k # l /\ at[k] = c
      BY <2>1, <2>3, <2>4 DEF After, TypeOK, Caches
    <3>2. ran[k] <= Deadline(c)
      BY <3>1 DEF AgeInv, Waits
    <3>3. lock'[c] = NoLoad /\ age'[c] < Refresh[c]
      BY <2>1 DEF TypeOK
    <3> QED
      BY <2>1, <3>2, <3>3, <1>0 DEF Waits, TypeOK
  <2>5. ASSUME NEW k \in Loads, NEW d \in Caches, d # c, at'[k] = d
        PROVE  Waits(k, d)'
    <3>1. lock'[d] = lock[d] /\ age'[d] = age[d]
      BY <2>1, <2>5 DEF TypeOK
    <3>2. lock[d] # NoLoad => lock[d] \in Loads \ {l}
      BY <2>1, <2>5 DEF LockInv, TypeOK
    <3>3. CASE k = l
      <4>1. d = "updates" /\ c = "tailnet"
        BY <2>1, <2>5, <3>3 DEF After, TypeOK, Caches
      <4>2. ran[l] <= Arrival(d)
        BY <2>2, <4>1
      <4>3. lock[d] # NoLoad => left'[lock[d]] \in Nat /\ left'[lock[d]] <= ProbeTimeout[d]
        BY <2>3, <3>2 DEF LockInv, TypeOK
      <4> QED
        BY <2>1, <3>1, <3>3, <4>2, <4>3 DEF Waits, Deadline, TypeOK
    <3>4. CASE k # l
      <4>1. Waits(k, d)
        BY <2>3, <2>5, <3>4 DEF AgeInv
      <4> QED
        BY <2>1, <2>3, <3>1, <3>2, <4>1 DEF Waits
    <3> QED
      BY <3>3, <3>4
  <2>6. at'[l] \in {"updates", "sent"} /\ (at'[l] = "sent" => c = "updates")
    BY <2>1 DEF After, TypeOK, Caches
  <2> QED
    BY <2>1, <2>2, <2>3, <2>4, <2>5, <2>6 DEF AgeInv
<1>7. CASE Tick
  BY <1>7, <1>0 DEF TypeOK, LockInv, AgeInv, Waits, Tick, Overdue, Runs, Locks, UpTo, Caches
<1>8. CASE UNCHANGED vars
  BY <1>8 DEF vars, AgeInv, Waits
<1> QED
  BY <1>1, <1>2, <1>3, <1>4, <1>5, <1>6, <1>7, <1>8 DEF Next

-----------------------------------------------------------------------------
LEMMA Inductive == IInv /\ [Next]_vars => IInv'
<1> SUFFICES ASSUME IInv, [Next]_vars PROVE IInv'
  OBVIOUS
<1> QED
  BY Typed, LocksHeld, Calm, Aged DEF IInv

LEMMA IInvHolds == Spec => []IInv
  BY InitOK, Inductive, PTL DEF Spec

(* Types, for any number of loads and any timeouts.                        *)
THEOREM CachesTyped == Spec => []TypeOK
<1>1. IInv => TypeOK
  BY DEF IInv
<1> QED
  BY <1>1, IInvHolds, PTL

(* A load runs for no more than its context and the timeouts of the two    *)
(* tools, however many loads wait for the same locks.                      *)
THEOREM LoadsEnd == Spec => []LoadsEndInTime
<1>1. IInv => LoadsEndInTime
  <2> SUFFICES ASSUME IInv, NEW l \in Loads PROVE ran[l] <= Deadline("updates")
    BY DEF LoadsEndInTime, Deadline, Arrival
  <2>1. CASE at[l] \in Caches
    <3>1. ran[l] <= Deadline(at[l])
      BY <2>1 DEF IInv, AgeInv, Waits
    <3> QED
      BY <2>1, <3>1, Numbers DEF IInv, TypeOK
  <2>2. CASE at[l] \notin Caches
    BY <2>2, Numbers DEF IInv, AgeInv, TypeOK, Places
  <2> QED
    BY <2>1, <2>2
<1> QED
  BY <1>1, IInvHolds, PTL

(* A tool is asked by one load at a time, and once in a refresh period.    *)
THEOREM ProbesKeptApart == Spec => ProbesApart
<1> DEFINE Apart == \A l \in probing' \ probing, c \in Caches :
                      at[l] = c => /\ calm[c] >= Refresh[c]
                                   /\ \A k \in probing : at[k] # c
<1>1. IInv /\ [Next]_vars => [Apart]_vars
  <2> SUFFICES ASSUME IInv, Next, NEW l \in probing' \ probing, NEW c \in Caches,
                      at[l] = c
               PROVE  /\ calm[c] >= Refresh[c]
                      /\ \A k \in probing : at[k] # c
    OBVIOUS
  <2>1. PICK k \in Loads, d \in Caches : Miss(k, d) /\ k = l
    BY DEF Next, Start, ReadsEnd, Deliver, Hit, Miss, ProbeEnds, Finishes, Tick
  <2>2. c = d /\ lock[c] = NoLoad /\ age[c] >= Refresh[c]
    BY <2>1 DEF Miss, Locks
  <2> QED
    BY <2>2, CacheAssumption DEF IInv, TypeOK, CalmInv
<1> QED
  BY <1>1, IInvHolds, PTL DEF Spec, ProbesApart
=============================================================================
