----------------------------- MODULE ProbeCaches -----------------------------
(***************************************************************************)
(* The two slow readings of a snapshot: tui-tailscale and tui-update are   *)
(* asked once in a refresh period and remembered, each under a lock that   *)
(* is held while its tool is asked (tailnet_real.go, updates_real.go).     *)
(* Every load of the cockpit goes through both, in this order, under one   *)
(* context that ends LoadTimeout after the load began; the wait for a lock *)
(* does not look at the context.  Time is counted in ticks.                *)
(***************************************************************************)
EXTENDS Integers

CONSTANTS
    Loads,         \* the loads that may be in flight at once
    NoLoad,
    LoadTimeout,   \* the context of a load (app.load)
    ProbeTimeout,  \* per cache, the timeout of its tool
    Refresh        \* per cache, how long what the tool said is good for

Caches == {"tailnet", "updates"}

ASSUME CacheAssumption ==
    /\ NoLoad \notin Loads
    /\ LoadTimeout \in Nat
    /\ ProbeTimeout \in [Caches -> Nat]
    /\ Refresh \in [Caches -> Nat \ {0}]

VARIABLES
    at,       \* where each load is
    ran,      \* per load: how long it has run
    probing,  \* the loads that ask the tool of the cache they are at
    left,     \* per load: what is left of that tool's timeout
    lock,     \* per cache: the load that holds its lock
    age,      \* per cache: the time since it was stamped, up to Refresh
    calm      \* history, per cache: the time since its tool ended, likewise

vars == <<at, ran, probing, left, lock, age, calm>>

Places == {"idle", "reads", "sent"} \cup Caches

TypeOK ==
    /\ at \in [Loads -> Places]
    /\ ran \in [Loads -> Nat]
    /\ probing \subseteq Loads
    /\ left \in [Loads -> Nat]
    /\ lock \in [Caches -> Loads \cup {NoLoad}]
    /\ age \in [Caches -> Nat]
    /\ calm \in [Caches -> Nat]
    /\ \A l \in probing : at[l] \in Caches /\ lock[at[l]] = l

(* A cache that was never stamped is as good as an old one.                *)
Init ==
    /\ at = [l \in Loads |-> "idle"]
    /\ ran = [l \in Loads |-> 0]
    /\ probing = {}
    /\ left = [l \in Loads |-> 0]
    /\ lock = [c \in Caches |-> NoLoad]
    /\ age = Refresh
    /\ calm = Refresh

-----------------------------------------------------------------------------
Goes(l, place) == at' = [at EXCEPT ![l] = place]

After(c) == IF c = "tailnet" THEN "updates" ELSE "sent"

Start(l) ==
    /\ at[l] = "idle"
    /\ Goes(l, "reads")
    /\ UNCHANGED <<ran, probing, left, lock, age, calm>>

(* The other readings, which the context cuts off.                         *)
ReadsEnd(l) ==
    /\ at[l] = "reads"
    /\ Goes(l, "tailnet")
    /\ UNCHANGED <<ran, probing, left, lock, age, calm>>

(* At the lock, when it is free.                                           *)
Locks(l, c) == at[l] = c /\ lock[c] = NoLoad

Hit(l, c) ==
    /\ Locks(l, c)
    /\ age[c] < Refresh[c]
    /\ Goes(l, After(c))
    /\ UNCHANGED <<ran, probing, left, lock, age, calm>>

(* Mutation: the lock is given back while the tool is asked.               *)
MissUnlocked(l, c) ==
    /\ Locks(l, c)
    /\ l \notin probing
    /\ age[c] >= Refresh[c]
    /\ probing' = probing \cup {l}
    /\ left' = [left EXCEPT ![l] = ProbeTimeout[c]]
    /\ UNCHANGED <<at, ran, lock, age, calm>>

(* An old reading: the tool is asked, under the lock.                      *)
Miss(l, c) ==
    /\ Locks(l, c)
    /\ age[c] >= Refresh[c]
    /\ lock' = [lock EXCEPT ![c] = l]
    /\ probing' = probing \cup {l}
    /\ left' = [left EXCEPT ![l] = ProbeTimeout[c]]
    /\ UNCHANGED <<at, ran, age, calm>>

(* The tool has answered or failed, its timeout or the context has ended.  *)
Finishes(l, c) ==
    /\ l \in probing
    /\ at[l] = c
    /\ Goes(l, After(c))
    /\ probing' = probing \ {l}
    /\ left' = [left EXCEPT ![l] = 0]
    /\ lock' = [lock EXCEPT ![c] = NoLoad]
    /\ calm' = [calm EXCEPT ![c] = 0]
    /\ UNCHANGED ran

(* Mutation: a tool that failed is not remembered.                         *)
ProbeEndsUnstamped(l, c) ==
    /\ Finishes(l, c)
    /\ \/ age' = [age EXCEPT ![c] = 0]
       \/ UNCHANGED age

(* Either way the cache is stamped.                                        *)
ProbeEnds(l, c) ==
    /\ Finishes(l, c)
    /\ age' = [age EXCEPT ![c] = 0]

Deliver(l) ==
    /\ at[l] = "sent"
    /\ Goes(l, "idle")
    /\ ran' = [ran EXCEPT ![l] = 0]
    /\ UNCHANGED <<probing, left, lock, age, calm>>

-----------------------------------------------------------------------------
(* Mutation: a tool has no timeout of its own.                             *)
OverdueUntimed(l) ==
    \/ at[l] = "reads" /\ ran[l] >= LoadTimeout
    \/ l \in probing /\ ran[l] >= LoadTimeout
    \/ \E c \in Caches : Locks(l, c)

(* What does not outlive a tick: reads and a tool past the context, a tool *)
(* past its timeout, and a load at a free lock.                            *)
Overdue(l) ==
    \/ at[l] = "reads" /\ ran[l] >= LoadTimeout
    \/ l \in probing /\ (left[l] = 0 \/ ran[l] >= LoadTimeout)
    \/ \E c \in Caches : Locks(l, c)

Runs(l) == at[l] \notin {"idle", "sent"}

UpTo(bound, n) == IF n < bound THEN n + 1 ELSE bound

Tick ==
    /\ \A l \in Loads : ~Overdue(l)
    /\ ran' = [l \in Loads |-> IF Runs(l) THEN ran[l] + 1 ELSE ran[l]]
    /\ left' = [l \in Loads |-> IF l \in probing THEN left[l] - 1 ELSE left[l]]
    /\ age' = [c \in Caches |-> UpTo(Refresh[c], age[c])]
    /\ calm' = [c \in Caches |-> UpTo(Refresh[c], calm[c])]
    /\ UNCHANGED <<at, probing, lock>>

Next ==
    \/ \E l \in Loads : Start(l) \/ ReadsEnd(l) \/ Deliver(l)
    \/ \E l \in Loads, c \in Caches : Hit(l, c) \/ Miss(l, c) \/ ProbeEnds(l, c)
    \/ Tick

Spec == Init /\ [][Next]_vars

-----------------------------------------------------------------------------
(* However many loads are in flight, a tool is asked by one of them at a   *)
(* time, and not again before its refresh period is over (tailnetCache,    *)
(* updatesCache).                                                          *)
ProbesApart ==
    [][\A l \in probing' \ probing, c \in Caches :
         at[l] = c => /\ calm[c] >= Refresh[c]
                      /\ \A k \in probing : at[k] # c]_vars

(* A load outlives its context, as it waits for locks without looking at   *)
(* it, but by no more than the timeouts of the two tools together: loads   *)
(* do not pile up behind a tool that hangs (app.load, tailnetCheckTimeout, *)
(* updatesCheckTimeout).                                                   *)
LoadsEndInTime ==
    \A l \in Loads : ran[l] <=
        LoadTimeout + ProbeTimeout["tailnet"] + ProbeTimeout["updates"]
=============================================================================
