----------------------------- MODULE VmCatalog -----------------------------
(***************************************************************************)
(* What AtlasVM's VM handlers promise about storage: a VM's disks exist, no *)
(* disk has two users, and only a disk nobody uses is ever deleted.  A      *)
(* volume nobody uses may stay behind.                                      *)
(***************************************************************************)
CONSTANTS Names, Vols

VARIABLES
    refs,   \* the volumes each VM uses
    store   \* the volumes that exist

vars == <<refs, store>>

Used == UNION {refs[n] : n \in Names}

TypeOK ==
    /\ refs \in [Names -> SUBSET Vols]
    /\ store \subseteq Vols

Init ==
    /\ refs = [n \in Names |-> {}]
    /\ store = {}

(* vol-create-as, lvcreate *)
Allocate(v) ==
    /\ v \notin store
    /\ store' = store \cup {v}
    /\ UNCHANGED refs

(* defineXML of a new VM *)
Define(n, S) ==
    /\ refs[n] = {}
    /\ S \subseteq store \ Used
    /\ refs' = [refs EXCEPT ![n] = S]
    /\ UNCHANGED store

(* attachDeviceFlags *)
Attach(n, v) ==
    /\ v \in store \ Used
    /\ refs' = [refs EXCEPT ![n] = @ \cup {v}]
    /\ UNCHANGED store

(* virsh detach-disk *)
Detach(n, v) ==
    /\ v \in refs[n]
    /\ refs' = [refs EXCEPT ![n] = @ \ {v}]
    /\ UNCHANGED store

(* undefine *)
Undefine(n) ==
    /\ refs' = [refs EXCEPT ![n] = {}]
    /\ UNCHANGED store

(* vol-delete, lvremove, unlink *)
Reclaim(v) ==
    /\ v \notin Used
    /\ store' = store \ {v}
    /\ UNCHANGED refs

Next ==
    \/ \E v \in Vols : Allocate(v) \/ Reclaim(v)
    \/ \E n \in Names :
          \/ Undefine(n)
          \/ \E v \in Vols : Attach(n, v) \/ Detach(n, v)
          \/ \E S \in SUBSET Vols : Define(n, S)

Spec == Init /\ [][Next]_vars

-----------------------------------------------------------------------------
(* Every disk of every VM exists: nothing in use is deleted, nothing that   *)
(* was deleted is put to use.                                               *)
Backed == Used \subseteq store

(* No volume is a disk of two VMs, a clone's and its source's included.     *)
Private == \A m, n \in Names : m # n => refs[m] \cap refs[n] = {}

(* The catalogue's promise: disks exist and are private.                    *)
Promise == Backed /\ Private

=============================================================================
