------------------------- MODULE NetworksAndVmProofs -------------------------
(***************************************************************************)
(* Proofs about one host's VLAN and storage networks and one VM's           *)
(* interfaces and settings, for any number of networks, profiles, requests, *)
(* snapshots and images.  Each part has an inductive invariant of its own;  *)
(* the theorems at the end put them together under HostSpec.                *)
(***************************************************************************)
EXTENDS MCNetworksAndVm, Naturals, TLAPS

-----------------------------------------------------------------------------
(* The interfaces of the VM.                                                *)

RequestType == [pc : {"idle", "detach", "attach", "reattach", "add", "remove"},
                mac : Macs \cup {NoMac}, old : Nets \cup {NoNet},
                new : Nets \cup {NoNet}, active : BOOLEAN]

(* A switch knows both networks, an addition the one, a removal its MAC.    *)
Named ==
    \A t \in Threads :
       /\ th[t].pc \in {"detach", "attach", "reattach"} =>
             th[t].mac \in Macs /\ th[t].old \in Nets /\ th[t].new \in Nets
       /\ At(t, "add") => th[t].new \in Nets
       /\ At(t, "remove") => th[t].mac \in Macs

(* While a request holds an interface nobody else does, the definition does *)
(* not have it, and the running VM does not if the request is for that too. *)
Single ==
    \A m \in Macs \ missed :
       /\ \A a, b \in conf[m] : a = b
       /\ \A a, b \in live[m] : a = b
       /\ \A t \in Threads : Holds(t, m) =>
             /\ conf[m] = {}
             /\ th[t].active => live[m] = {}
             /\ \A u \in Threads : Holds(u, m) => u = t

(* What a request asked is still so, unless the VM was started or stopped.  *)
Asked == ~raced => \A t \in Threads : ~At(t, "idle") => th[t].active = on

NicsInv == Named /\ Single /\ Asked /\ NicKept /\ LiveMatchesDefinition

LEMMA NicsTypes ==
    ASSUME TypeOK
    PROVE  /\ th \in [Threads -> RequestType]
           /\ conf \in [Macs -> SUBSET Nets] /\ live \in [Macs -> SUBSET Nets]
           /\ netw \in [Nets -> {"on", "off", "gone"}]
           /\ on \in BOOLEAN /\ raced \in BOOLEAN
           /\ owed \subseteq Macs /\ missed \subseteq Macs /\ lost \subseteq Macs
BY DEF TypeOK, RequestType

LEMMA NicsInit == Init => TypeOK /\ NicsInv
<1> SUFFICES ASSUME Init PROVE TypeOK /\ NicsInv
  OBVIOUS
<1>1. TypeOK
  BY DEF Init, TypeOK, Idle, None
<1>2. \A t \in Threads : th[t].pc = "idle"
  BY DEF Init, Idle
<1> QED
  BY <1>1, <1>2 DEF Init, NicsInv, Named, Single, Holds, Asked, NicKept, At,
                    LiveMatchesDefinition, None

-----------------------------------------------------------------------------
(* Steps that touch one request's record alone.                             *)

LEMMA RequestStep ==
    ASSUME TypeOK, NicsInv, NEW t \in Threads, NEW r \in RequestType,
           th' = [th EXCEPT ![t] = r], r.pc \in {"idle", "detach", "add", "remove"},
           At(t, "idle") \/ (r = Idle /\ ~(th[t].pc \in {"attach", "reattach"})),
           r.pc # "idle" => r.active = on,
           r.pc = "detach" => /\ r.mac \in Macs /\ r.old \in Nets /\ r.new \in Nets,
           r.pc = "add" => r.new \in Nets,
           r.pc = "remove" => r.mac \in Macs,
           UNCHANGED <<netw, on, conf, live, owed, raced, missed, lost>>
    PROVE  TypeOK' /\ NicsInv'
<1>1. th \in [Threads -> RequestType]
  BY NicsTypes
<1>2. \A u \in Threads : th'[u] = IF u = t THEN r ELSE th[u]
  BY <1>1
<1>3. th' \in [Threads -> RequestType]
  BY <1>1
<1>4. TypeOK'
  <2>1. \A u \in Threads : th'[u].pc \in {"detach", "attach", "reattach"} =>
           th'[u].old # NoNet /\ th'[u].new # NoNet
    BY <1>2, ConstantsAssumption DEF TypeOK
  <2> QED
    BY <1>3, <2>1 DEF TypeOK, RequestType
<1>5. \A u \in Threads : \A m \in Macs : Holds(u, m)' <=> Holds(u, m)
  BY <1>2 DEF Holds, At, Idle
<1>6. Named' /\ Asked'
  BY <1>2 DEF NicsInv, Named, Asked, At
<1>7. Single'
  <2>1. \A u \in Threads : \A m \in Macs : Holds(u, m) => th'[u].active = th[u].active
    BY <1>2 DEF Holds, At, Idle
  <2> QED
    BY <1>5, <2>1 DEF NicsInv, Single
<1>9. NicKept'
  <2>1. owed \subseteq Macs
    BY NicsTypes
  <2> QED
    BY <1>5, <2>1 DEF NicsInv, NicKept, Has
<1>10. LiveMatchesDefinition'
  BY DEF NicsInv, LiveMatchesDefinition
<1> QED
  BY <1>4, <1>6, <1>7, <1>9, <1>10 DEF NicsInv

LEMMA IdleType == Idle \in RequestType /\ Idle.pc = "idle"
BY DEF Idle, RequestType

LEMMA AskSteps ==
    ASSUME TypeOK, NicsInv, NEW t \in Threads,
           \/ \E m \in Macs, n \in Nets : SwitchNic(t, m, n)
           \/ \E n \in Nets : AddNic(t, n)
           \/ \E m \in Macs : RemoveNic(t, m)
    PROVE  TypeOK' /\ NicsInv'
<1>t. /\ th \in [Threads -> RequestType] /\ on \in BOOLEAN
      /\ conf \in [Macs -> SUBSET Nets] /\ live \in [Macs -> SUBSET Nets]
  BY NicsTypes
<1>1. ASSUME NEW m \in Macs, NEW n \in Nets, SwitchNic(t, m, n) PROVE TypeOK' /\ NicsInv'
  <2>1. PICK old \in Shown(m) :
          th' = [th EXCEPT ![t] = [pc |-> "detach", mac |-> m, old |-> old,
                                   new |-> n, active |-> on]]
    BY <1>1 DEF SwitchNic
  <2> DEFINE r == [pc |-> "detach", mac |-> m, old |-> old, new |-> n, active |-> on]
  <2>2. old \in Nets /\ (on => old \in live[m])
    BY <1>t DEF Shown
  <2>3. r \in RequestType /\ r.pc = "detach" /\ r.mac = m /\ r.old = old /\ r.new = n
        /\ r.active = on
    BY <1>t, <2>2 DEF RequestType
  <2>4. At(t, "idle") /\ UNCHANGED <<netw, on, conf, live, owed, raced, missed, lost>>
    BY <1>1 DEF SwitchNic, Quiet
  <2> HIDE DEF r
  <2> QED
    BY <2>1, <2>2, <2>3, <2>4, RequestStep DEF r
<1>2. ASSUME NEW n \in Nets, AddNic(t, n) PROVE TypeOK' /\ NicsInv'
  <2> DEFINE r == [Idle EXCEPT !.pc = "add", !.new = n, !.active = on]
  <2>1. r \in RequestType /\ r.pc = "add" /\ r.new = n /\ r.active = on
    BY <1>t DEF RequestType, Idle
  <2>2. /\ th' = [th EXCEPT ![t] = r] /\ At(t, "idle")
        /\ UNCHANGED <<netw, on, conf, live, owed, raced, missed, lost>>
    BY <1>2 DEF AddNic, Quiet
  <2> HIDE DEF r
  <2> QED
    BY <2>1, <2>2, RequestStep
<1>3. ASSUME NEW m \in Macs, RemoveNic(t, m) PROVE TypeOK' /\ NicsInv'
  <2> DEFINE r == [Idle EXCEPT !.pc = "remove", !.mac = m, !.active = on]
  <2>1. r \in RequestType /\ r.pc = "remove" /\ r.mac = m /\ r.active = on
    BY <1>t DEF RequestType, Idle
  <2>2. /\ th' = [th EXCEPT ![t] = r] /\ At(t, "idle")
        /\ UNCHANGED <<netw, on, conf, live, owed, raced, missed, lost>>
    BY <1>3 DEF RemoveNic, Quiet
  <2> HIDE DEF r
  <2> QED
    BY <2>1, <2>2, RequestStep
<1> QED
  BY <1>1, <1>2, <1>3

-----------------------------------------------------------------------------
(* libvirt's calls.                                                         *)

(* A detach takes interfaces away, and what is left was there.              *)
LEMMA DetachFacts ==
    ASSUME TypeOK, NEW m \in Macs, NEW active \in BOOLEAN, Detach(m, active),
           CanDetach(m, active)
    PROVE  /\ conf' \in [Macs -> SUBSET Nets] /\ live' \in [Macs -> SUBSET Nets]
           /\ \A k \in Macs : conf'[k] \subseteq conf[k] /\ live'[k] \subseteq live[k]
           /\ \A k \in Macs \ {m} : conf'[k] = conf[k] /\ live'[k] = live[k]
           /\ (\A a, b \in conf[m] : a = b) => conf'[m] = {}
           /\ active /\ (\A a, b \in live[m] : a = b) => live'[m] = {}
           /\ ~active => live' = live
           /\ active /\ live = conf => live' = conf'
           /\ ~on => live' = None
<1>1. PICK n \in conf[m] : /\ conf' = Without(conf, m, n)
                           /\ live' = IF active THEN Without(live, m, n) ELSE live
  BY DEF Detach
<1>2. conf \in [Macs -> SUBSET Nets] /\ live \in [Macs -> SUBSET Nets]
  BY NicsTypes
<1>3. conf'[m] = conf[m] \ {n} /\ \A k \in Macs \ {m} : conf'[k] = conf[k]
  BY <1>1, <1>2 DEF Without
<1>4. /\ conf' \in [Macs -> SUBSET Nets] /\ live' \in [Macs -> SUBSET Nets]
  BY <1>1, <1>2 DEF Without
<1>5. CASE active
  <2>1. /\ live'[m] \in {live[m] \ {n}, {}}
        /\ n \in live[m] => live'[m] = live[m] \ {n}
        /\ n \notin live[m] => live'[m] = {}
        /\ \A k \in Macs \ {m} : live'[k] = live[k]
    BY <1>1, <1>2, <1>5 DEF Without
  <2>2. on
    BY <1>5 DEF CanDetach
  <2>3. ASSUME live = conf PROVE live' = conf'
    BY <1>1, <1>5, <2>3
  <2> QED
    BY <1>3, <1>4, <1>5, <2>1, <2>2, <2>3
<1>6. CASE ~active
  <2>1. live' = live
    BY <1>1, <1>6
  <2>2. ~on => live = None
    BY DEF TypeOK
  <2> QED
    BY <1>3, <1>4, <1>6, <2>1, <2>2
<1> QED
  BY <1>5, <1>6

(* An attach adds one interface where it is for, and nothing elsewhere.     *)
LEMMA AttachFacts ==
    ASSUME TypeOK, NEW m \in Macs, NEW n \in Nets, NEW active \in BOOLEAN,
           CanAttach(n, active), Attach(m, n, active)
    PROVE  /\ conf' \in [Macs -> SUBSET Nets] /\ live' \in [Macs -> SUBSET Nets]
           /\ conf'[m] = conf[m] \cup {n} /\ live'[m] \subseteq live[m] \cup {n}
           /\ \A k \in Macs \ {m} : conf'[k] = conf[k] /\ live'[k] = live[k]
           /\ active => netw[n] = "on"
           /\ ~active => live' = live
           /\ active /\ live = conf => live' = conf'
           /\ ~on => live' = None
           /\ lost' = lost \ {m}
<1>1. conf \in [Macs -> SUBSET Nets] /\ live \in [Macs -> SUBSET Nets]
  BY NicsTypes
<1>2. conf' = [conf EXCEPT ![m] = conf[m] \cup {n}] /\ lost' = lost \ {m}
  BY DEF Attach
<1>3. CASE active
  <2>1. live' = [live EXCEPT ![m] = live[m] \cup {n}]
    BY <1>3 DEF Attach
  <2>2. on /\ netw[n] = "on"
    BY <1>3 DEF CanAttach
  <2> QED
    BY <1>1, <1>2, <1>3, <2>1, <2>2
<1>4. CASE ~active
  <2>1. live' = live /\ (~on => live = None)
    BY <1>4 DEF Attach, TypeOK
  <2> QED
    BY <1>1, <1>2, <1>4, <2>1
<1> QED
  BY <1>3, <1>4

(* TypeOK of a step that writes one request's record and libvirt's state.   *)
LEMMA CallType ==
    ASSUME TypeOK, NEW t \in Threads, NEW r \in RequestType, th' = [th EXCEPT ![t] = r],
           r.pc \in {"detach", "attach", "reattach"} => r.old \in Nets /\ r.new \in Nets,
           conf' \in [Macs -> SUBSET Nets], live' \in [Macs -> SUBSET Nets],
           ~on => live' = None, owed' \subseteq Macs, missed' \subseteq Macs,
           lost' \subseteq Macs, UNCHANGED <<netw, on, raced>>
    PROVE  TypeOK' /\ \A u \in Threads : th'[u] = IF u = t THEN r ELSE th[u]
<1>1. th \in [Threads -> RequestType]
  BY NicsTypes
<1>2. \A u \in Threads : th'[u] = IF u = t THEN r ELSE th[u]
  BY <1>1
<1>3. th' \in [Threads -> RequestType]
  BY <1>1
<1>4. \A u \in Threads : th'[u].pc \in {"detach", "attach", "reattach"} =>
         th'[u].old # NoNet /\ th'[u].new # NoNet
  BY <1>2, ConstantsAssumption DEF TypeOK
<1> QED
  BY <1>2, <1>3, <1>4 DEF TypeOK, RequestType

(* A finished detach, of an interface nobody else holds.                    *)
LEMMA DetachStep ==
    ASSUME TypeOK, NicsInv, NEW t \in Threads,
           \/ At(t, "detach") /\ Goto(t, "attach") /\ owed' = owed
           \/ At(t, "remove") /\ End(t) /\ owed' = owed \ {th[t].mac},
           CanDetach(th[t].mac, th[t].active), Detach(th[t].mac, th[t].active),
           UNCHANGED <<netw, on, raced, missed, lost>>
    PROVE  TypeOK' /\ NicsInv'
<1> DEFINE m == th[t].mac
           r == IF At(t, "detach") THEN [th[t] EXCEPT !.pc = "attach"] ELSE Idle
<1>t. th \in [Threads -> RequestType] /\ owed \subseteq Macs /\ missed \subseteq Macs
      /\ raced \in BOOLEAN /\ on \in BOOLEAN
      /\ conf \in [Macs -> SUBSET Nets] /\ live \in [Macs -> SUBSET Nets]
  BY NicsTypes
<1>0. th[t] \in RequestType /\ th[t].active \in BOOLEAN
  BY <1>t DEF RequestType
<1>1. m \in Macs
  BY DEF NicsInv, Named, At
<1>2. /\ conf' \in [Macs -> SUBSET Nets] /\ live' \in [Macs -> SUBSET Nets]
      /\ \A k \in Macs : conf'[k] \subseteq conf[k] /\ live'[k] \subseteq live[k]
      /\ \A k \in Macs \ {m} : conf'[k] = conf[k] /\ live'[k] = live[k]
      /\ (\A a, b \in conf[m] : a = b) => conf'[m] = {}
      /\ th[t].active /\ (\A a, b \in live[m] : a = b) => live'[m] = {}
      /\ ~th[t].active => live' = live
      /\ th[t].active /\ live = conf => live' = conf'
      /\ ~on => live' = None
  BY <1>0, <1>1, DetachFacts
<1>3. th' = [th EXCEPT ![t] = r]
  BY DEF Goto, End, At
<1>4. /\ r \in RequestType
      /\ r.pc \in {"idle", "attach"}
      /\ r.pc = "attach" => /\ At(t, "detach") /\ r.mac = m /\ r.active = th[t].active
                            /\ r.old = th[t].old /\ r.new = th[t].new
                            /\ r.old \in Nets /\ r.new \in Nets /\ owed' = owed
      /\ r.pc = "idle" => owed' = owed \ {m}
  <2>1. CASE At(t, "detach")
    <3>1. r = [th[t] EXCEPT !.pc = "attach"] /\ owed' = owed
      BY <2>1 DEF At
    <3>2. th[t].old \in Nets /\ th[t].new \in Nets
      BY <2>1 DEF NicsInv, Named, At
    <3>3. /\ r \in RequestType /\ r.pc = "attach" /\ r.mac = m /\ r.active = th[t].active
          /\ r.old = th[t].old /\ r.new = th[t].new
      BY <3>1, <1>0 DEF RequestType
    <3> QED
      BY <2>1, <3>1, <3>2, <3>3
  <2>2. CASE ~At(t, "detach")
    BY <2>2, IdleType
  <2> QED
    BY <2>1, <2>2
<1> HIDE DEF r
<1>5. TypeOK' /\ \A u \in Threads : th'[u] = IF u = t THEN r ELSE th[u]
  BY <1>t, <1>2, <1>3, <1>4, NicsTypes, CallType
<1>6. Named'
  BY <1>1, <1>4, <1>5 DEF NicsInv, Named, At
<1>7. Asked'
  BY <1>4, <1>5 DEF NicsInv, Asked, At
<1>9. \A u \in Threads : \A k \in Macs :
         Holds(u, k)' <=> (IF u = t THEN k = m /\ r.pc = "attach" ELSE Holds(u, k))
  BY <1>4, <1>5 DEF Holds
<1>10. Single'
  <2> SUFFICES ASSUME NEW k \in Macs \ missed
               PROVE  /\ \A a, b \in conf'[k] : a = b
                      /\ \A a, b \in live'[k] : a = b
                      /\ \A u \in Threads : Holds(u, k)' =>
                            /\ conf'[k] = {}
                            /\ th'[u].active => live'[k] = {}
                            /\ \A v \in Threads : Holds(v, k)' => v = u
    BY DEF Single, Holds
  <2>1. /\ \A a, b \in conf[k] : a = b
        /\ \A a, b \in live[k] : a = b
        /\ \A u \in Threads : Holds(u, k) =>
              /\ conf[k] = {}
              /\ th[u].active => live[k] = {}
              /\ \A v \in Threads : Holds(v, k) => v = u
    BY DEF NicsInv, Single
  <2>2. CASE k # m
    BY <2>1, <2>2, <1>2, <1>5, <1>9
  <2>3. CASE k = m
    <3>1. conf[m] # {}
      BY DEF CanDetach, Has
    <3>2. \A u \in Threads : ~Holds(u, m)
      BY <2>1, <2>3, <3>1
    <3> QED
      BY <2>1, <2>3, <3>2, <1>2, <1>4, <1>5, <1>9
  <2> QED
    BY <2>2, <2>3
<1>11. NicKept'
  <2>1. ASSUME NEW k \in owed' \ lost
        PROVE  conf'[k] # {} \/ \E u \in Threads : Holds(u, k)'
    <3>1. k \in owed /\ k \in Macs
      BY <2>1, <1>t, <1>4
    <3>2. conf[k] # {} \/ \E u \in Threads : Holds(u, k)
      BY <2>1, <3>1 DEF NicsInv, NicKept, Has
    <3>3. CASE k # m
      BY <3>1, <3>2, <3>3, <1>2, <1>9, <1>4 DEF Holds, At
    <3>4. CASE k = m
      BY <3>4, <3>1, <2>1, <1>4, <1>9
    <3> QED
      BY <3>3, <3>4
  <2> QED
    BY <2>1 DEF NicKept, Has, Holds
<1>12. LiveMatchesDefinition'
  <2>1. ASSUME on, ~raced PROVE live' = conf'
    <3>1. live = conf /\ th[t].active
      BY <2>1 DEF NicsInv, LiveMatchesDefinition, Asked, At
    <3> QED
      BY <3>1, <1>2
  <2> QED
    BY <2>1 DEF LiveMatchesDefinition
<1> QED
  BY <1>5, <1>6, <1>7, <1>10, <1>11, <1>12 DEF NicsInv

(* A request that goes back to the old network: its interface is detached,  *)
(* or it takes it that it is.                                               *)
LEMMA GoBackStep ==
    ASSUME TypeOK, NicsInv, NEW t \in Threads, Goto(t, "reattach"),
           \/ At(t, "attach") /\ missed' = missed
           \/ At(t, "detach") /\ missed' = missed \cup {th[t].mac},
           UNCHANGED <<netw, on, conf, live, owed, raced, lost>>
    PROVE  TypeOK' /\ NicsInv'
<1> DEFINE m == th[t].mac
           r == [th[t] EXCEPT !.pc = "reattach"]
<1>t. th \in [Threads -> RequestType] /\ owed \subseteq Macs /\ missed \subseteq Macs
      /\ conf \in [Macs -> SUBSET Nets] /\ live \in [Macs -> SUBSET Nets]
  BY NicsTypes
<1>0. th[t] \in RequestType
  BY <1>t
<1>1. m \in Macs /\ th[t].old \in Nets /\ th[t].new \in Nets
  BY DEF NicsInv, Named, At
<1>2. /\ r \in RequestType /\ r.pc = "reattach" /\ r.mac = m /\ r.active = th[t].active
      /\ r.old = th[t].old /\ r.new = th[t].new
  BY <1>0 DEF RequestType
<1>3. th' = [th EXCEPT ![t] = r]
  BY DEF Goto
<1> HIDE DEF r
<1>4. (~on => live' = None) /\ missed' \subseteq Macs /\ lost' \subseteq Macs
  BY <1>t, <1>1, NicsTypes DEF TypeOK
<1>5. TypeOK' /\ \A u \in Threads : th'[u] = IF u = t THEN r ELSE th[u]
  BY <1>t, <1>1, <1>2, <1>3, <1>4, CallType
<1>6. Named'
  BY <1>1, <1>2, <1>5 DEF NicsInv, Named, At
<1>7. Asked'
  BY <1>2, <1>5 DEF NicsInv, Asked, At
<1>9. \A u \in Threads : \A k \in Macs :
         /\ Holds(u, k) => Holds(u, k)' /\ th'[u].active = th[u].active
         /\ k \notin missed' => (Holds(u, k)' => Holds(u, k))
  BY <1>2, <1>5 DEF Holds, At
<1>10. Single'
  BY <1>9 DEF NicsInv, Single
<1>11. NicKept'
  BY <1>9, <1>t DEF NicsInv, NicKept, Has
<1>12. LiveMatchesDefinition'
  BY DEF NicsInv, LiveMatchesDefinition
<1> QED
  BY <1>5, <1>6, <1>7, <1>10, <1>11, <1>12 DEF NicsInv

(* A request that ends: by attaching the interface it holds, to the new     *)
(* network or back to the old one, or with nothing done.                    *)
LEMMA EndStep ==
    ASSUME TypeOK, NicsInv, NEW t \in Threads, End(t), th[t].pc \in {"attach", "reattach"},
           \/ \E n \in {th[t].old, th[t].new} :
                 CanAttach(n, th[t].active) /\ Attach(th[t].mac, n, th[t].active)
           \/ /\ lost' = IF Has(conf, th[t].mac)
                             \/ \E u \in Threads \ {t} : Holds(u, th[t].mac)
                          THEN lost ELSE lost \cup {th[t].mac}
              /\ UNCHANGED <<conf, live>>,
           UNCHANGED <<netw, on, owed, raced, missed>>
    PROVE  TypeOK' /\ NicsInv'
<1> DEFINE m == th[t].mac
           act == th[t].active
           fails == /\ lost' = IF conf[m] # {} \/ \E u \in Threads \ {t} : Holds(u, m)
                               THEN lost ELSE lost \cup {m}
                    /\ conf' = conf /\ live' = live
<1>t. th \in [Threads -> RequestType] /\ owed \subseteq Macs /\ missed \subseteq Macs
      /\ conf \in [Macs -> SUBSET Nets] /\ live \in [Macs -> SUBSET Nets]
      /\ lost \subseteq Macs /\ raced \in BOOLEAN /\ on \in BOOLEAN
  BY NicsTypes
<1>1. m \in Macs /\ th[t].old \in Nets /\ th[t].new \in Nets /\ act \in BOOLEAN
  BY <1>t DEF NicsInv, Named, At, RequestType
<1>2. th' = [th EXCEPT ![t] = Idle]
  BY DEF End
<1>3. \/ \E n \in Nets :
           /\ conf'[m] = conf[m] \cup {n} /\ live'[m] \subseteq live[m] \cup {n}
           /\ conf' \in [Macs -> SUBSET Nets] /\ live' \in [Macs -> SUBSET Nets]
           /\ act => netw[n] = "on"
           /\ \A k \in Macs \ {m} : conf'[k] = conf[k] /\ live'[k] = live[k]
           /\ ~act => live' = live
           /\ act /\ live = conf => live' = conf'
           /\ ~on => live' = None
           /\ lost' = lost \ {m}
      \/ fails
  <2>1. CASE \E n \in {th[t].old, th[t].new} : CanAttach(n, act) /\ Attach(m, n, act)
    <3>1. PICK n \in {th[t].old, th[t].new} : CanAttach(n, act) /\ Attach(m, n, act)
      BY <2>1
    <3>2. n \in Nets
      BY <1>1
    <3> QED
      BY <3>1, <3>2, <1>1, AttachFacts
  <2> QED
    BY <2>1 DEF Has
<1>4. /\ conf' \in [Macs -> SUBSET Nets] /\ live' \in [Macs -> SUBSET Nets]
      /\ (~on => live' = None) /\ lost' \subseteq Macs
  <2>1. CASE fails
    BY <2>1, <1>1, <1>t DEF TypeOK
  <2>2. CASE ~fails
    <3> HIDE DEF fails
    <3> QED
      BY <2>2, <1>1, <1>3, <1>t
  <2> QED
    BY <2>1, <2>2
<1>5. TypeOK' /\ \A u \in Threads : th'[u] = IF u = t THEN Idle ELSE th[u]
  BY <1>t, <1>2, <1>4, IdleType, CallType
<1>6. Named' /\ Asked'
  BY <1>5, IdleType DEF NicsInv, Named, Asked, At
<1>7. \A u \in Threads : \A k \in Macs : Holds(u, k)' <=> u # t /\ Holds(u, k)
  BY <1>5, IdleType DEF Holds
<1>9. Single'
  <2> SUFFICES ASSUME NEW k \in Macs \ missed
               PROVE  /\ \A a, b \in conf'[k] : a = b
                      /\ \A a, b \in live'[k] : a = b
                      /\ \A u \in Threads : Holds(u, k)' =>
                            /\ conf'[k] = {}
                            /\ th'[u].active => live'[k] = {}
                            /\ \A v \in Threads : Holds(v, k)' => v = u
    BY DEF Single, Holds
  <2>1. /\ \A a, b \in conf[k] : a = b
        /\ \A a, b \in live[k] : a = b
        /\ \A u \in Threads : Holds(u, k) =>
              /\ conf[k] = {}
              /\ th[u].active => live[k] = {}
              /\ \A v \in Threads : Holds(v, k) => v = u
    BY DEF NicsInv, Single
  <2>2. CASE k # m
    BY <2>1, <2>2, <1>3, <1>5, <1>7
  <2>3. CASE k = m
    <3>1. Holds(t, k)
      BY <2>3 DEF Holds
    <3>2. conf[k] = {} /\ (act => live[k] = {}) /\ \A u \in Threads : Holds(u, k) => u = t
      BY <2>1, <3>1
    <3>3. \A u \in Threads : ~Holds(u, k)'
      BY <3>2, <1>7
    <3>4. (\A a, b \in conf'[k] : a = b) /\ \A a, b \in live'[k] : a = b
      BY <3>2, <2>1, <2>3, <1>1, <1>3
    <3> QED
      BY <3>3, <3>4
  <2> QED
    BY <2>2, <2>3
<1>10. NicKept'
  <2>1. ASSUME NEW k \in owed \ lost'
        PROVE  conf'[k] # {} \/ \E u \in Threads : Holds(u, k)'
    <3>1. CASE fails
      <4>1. k \in Macs /\ k \notin lost
        BY <2>1, <3>1, <1>t
      <4>2. conf[k] # {} \/ \E u \in Threads : Holds(u, k)
        BY <2>1, <4>1 DEF NicsInv, NicKept, Has
      <4>3. CASE k = m
        <5>1. conf[m] # {} \/ \E u \in Threads \ {t} : Holds(u, m)
          BY <4>3, <3>1, <2>1
        <5> QED
          BY <5>1, <4>3, <3>1, <1>1, <1>7
      <4>4. CASE k # m
        <5>1. ~Holds(t, k)
          BY <4>4 DEF Holds
        <5> QED
          BY <5>1, <4>1, <4>2, <3>1, <1>7
      <4> QED
        BY <4>3, <4>4
    <3>2. CASE ~fails
      <4> HIDE DEF fails
      <4>1. PICK n \in Nets : /\ conf'[m] = conf[m] \cup {n} /\ lost' = lost \ {m}
                              /\ \A j \in Macs \ {m} : conf'[j] = conf[j]
        BY <1>3, <3>2
      <4>2. CASE k = m
        BY <4>1, <4>2
      <4>3. CASE k # m
        <5>1. k \in owed \ lost /\ k \in Macs
          BY <2>1, <4>1, <4>3, <1>t
        <5>2. conf[k] # {} \/ \E u \in Threads : Holds(u, k)
          BY <5>1 DEF NicsInv, NicKept, Has
        <5> QED
          BY <5>1, <5>2, <4>1, <4>3, <1>7 DEF Holds
      <4> QED
        BY <4>2, <4>3
    <3> QED
      BY <3>1, <3>2
  <2> QED
    BY <2>1 DEF NicKept, Has, Holds
<1>11. LiveMatchesDefinition'
  <2>1. ASSUME on, ~raced PROVE live' = conf'
    <3>1. live = conf /\ act
      BY <2>1 DEF NicsInv, LiveMatchesDefinition, Asked, At
    <3> QED
      BY <3>1, <1>3
  <2> QED
    BY <2>1 DEF LiveMatchesDefinition
<1> QED
  BY <1>5, <1>6, <1>9, <1>10, <1>11 DEF NicsInv

(* A new interface has a MAC that no other has.                             *)
LEMMA AddStep ==
    ASSUME TypeOK, NicsInv, NEW t \in Threads, At(t, "add"), End(t), NEW m \in FreshMacs,
           CanAttach(th[t].new, th[t].active), Attach(m, th[t].new, th[t].active),
           owed' = owed \cup {m}, UNCHANGED <<netw, on, raced, missed>>
    PROVE  TypeOK' /\ NicsInv'
<1> DEFINE n == th[t].new
           act == th[t].active
<1>t. th \in [Threads -> RequestType] /\ owed \subseteq Macs /\ missed \subseteq Macs
      /\ lost \subseteq Macs
      /\ conf \in [Macs -> SUBSET Nets] /\ live \in [Macs -> SUBSET Nets]
      /\ raced \in BOOLEAN /\ on \in BOOLEAN
  BY NicsTypes
<1>1. n \in Nets /\ act \in BOOLEAN
  BY <1>t DEF NicsInv, Named, At, RequestType
<1>2. m \in Macs /\ conf[m] = {} /\ live[m] = {} /\ \A u \in Threads : th[u].mac # m
  BY DEF FreshMacs, Has
<1>3. /\ conf' \in [Macs -> SUBSET Nets] /\ live' \in [Macs -> SUBSET Nets]
      /\ conf'[m] = conf[m] \cup {n} /\ live'[m] \subseteq live[m] \cup {n}
      /\ act => netw[n] = "on"
      /\ \A k \in Macs \ {m} : conf'[k] = conf[k] /\ live'[k] = live[k]
      /\ ~act => live' = live
      /\ act /\ live = conf => live' = conf'
      /\ ~on => live' = None
      /\ lost' = lost \ {m}
  BY <1>1, <1>2, AttachFacts
<1>4. th' = [th EXCEPT ![t] = Idle] /\ owed' \subseteq Macs /\ lost' \subseteq Macs
  BY <1>t, <1>2, <1>3 DEF End
<1>5. TypeOK' /\ \A u \in Threads : th'[u] = IF u = t THEN Idle ELSE th[u]
  BY <1>t, <1>3, <1>4, IdleType, CallType
<1>6. Named' /\ Asked'
  BY <1>5, IdleType DEF NicsInv, Named, Asked, At
<1>7. \A u \in Threads : \A k \in Macs : /\ Holds(u, k)' <=> Holds(u, k)
                                         /\ Holds(u, k) => k # m /\ th'[u] = th[u]
  BY <1>2, <1>5, IdleType DEF Holds, At
<1>9. Single'
  <2> SUFFICES ASSUME NEW k \in Macs \ missed
               PROVE  /\ \A a, b \in conf'[k] : a = b
                      /\ \A a, b \in live'[k] : a = b
                      /\ \A u \in Threads : Holds(u, k)' =>
                            /\ conf'[k] = {}
                            /\ th'[u].active => live'[k] = {}
                            /\ \A v \in Threads : Holds(v, k)' => v = u
    BY DEF Single, Holds
  <2>1. /\ \A a, b \in conf[k] : a = b
        /\ \A a, b \in live[k] : a = b
        /\ \A u \in Threads : Holds(u, k) =>
              /\ conf[k] = {}
              /\ th[u].active => live[k] = {}
              /\ \A v \in Threads : Holds(v, k) => v = u
    BY DEF NicsInv, Single
  <2>2. CASE k # m
    BY <2>1, <2>2, <1>3, <1>5, <1>7
  <2>3. CASE k = m
    BY <2>3, <1>2, <1>3, <1>7
  <2> QED
    BY <2>2, <2>3
<1>10. NicKept'
  <2>1. ASSUME NEW k \in owed' \ lost'
        PROVE  conf'[k] # {} \/ \E u \in Threads : Holds(u, k)'
    <3>1. CASE k = m
      BY <3>1, <1>3
    <3>2. CASE k # m
      <4>1. k \in owed \ lost /\ k \in Macs
        BY <2>1, <3>2, <1>3, <1>t
      <4>2. conf[k] # {} \/ \E u \in Threads : Holds(u, k)
        BY <2>1, <4>1 DEF NicsInv, NicKept, Has
      <4> QED
        BY <4>1, <4>2, <3>2, <1>3, <1>7
    <3> QED
      BY <3>1, <3>2
  <2> QED
    BY <2>1 DEF NicKept, Has, Holds
<1>11. LiveMatchesDefinition'
  <2>1. ASSUME on, ~raced PROVE live' = conf'
    <3>1. live = conf /\ act
      BY <2>1 DEF NicsInv, LiveMatchesDefinition, Asked, At
    <3> QED
      BY <3>1, <1>3
  <2> QED
    BY <2>1 DEF LiveMatchesDefinition
<1> QED
  BY <1>5, <1>6, <1>9, <1>10, <1>11 DEF NicsInv

LEMMA CallSteps ==
    ASSUME TypeOK, NicsInv, NEW t \in Threads,
           SwitchDetach(t) \/ SwitchAttach(t) \/ SwitchReattach(t) \/ AddAttach(t)
              \/ RemoveDetach(t)
    PROVE  TypeOK' /\ NicsInv'
<1>1. CASE SwitchDetach(t)
  <2>1. CASE CanDetach(th[t].mac, th[t].active) /\ Detach(th[t].mac, th[t].active)
             /\ Goto(t, "attach") /\ UNCHANGED missed
    BY <1>1, <2>1, DetachStep DEF SwitchDetach
  <2>2. CASE th[t].active /\ End(t) /\ UNCHANGED <<missed, conf, live>>
    BY <1>1, <2>2, IdleType, RequestStep DEF SwitchDetach, End, At
  <2>3. CASE Goto(t, "reattach") /\ missed' = missed \cup {th[t].mac} /\ UNCHANGED <<conf, live>>
    BY <1>1, <2>3, GoBackStep DEF SwitchDetach
  <2> QED
    BY <1>1, <2>1, <2>2, <2>3 DEF SwitchDetach
<1>2. CASE SwitchAttach(t)
  <2>1. CASE CanAttach(th[t].new, th[t].active) /\ Attach(th[t].mac, th[t].new, th[t].active)
             /\ End(t)
    BY <1>2, <2>1, EndStep DEF SwitchAttach, At
  <2>2. CASE UNCHANGED <<conf, live, lost>> /\ Goto(t, "reattach")
    BY <1>2, <2>2, GoBackStep DEF SwitchAttach
  <2> QED
    BY <1>2, <2>1, <2>2 DEF SwitchAttach
<1>3. CASE SwitchReattach(t)
  BY <1>3, EndStep DEF SwitchReattach, At
<1>4. CASE AddAttach(t)
  <2>1. CASE CanAttach(th[t].new, th[t].active)
             /\ \E m \in FreshMacs : Attach(m, th[t].new, th[t].active) /\ owed' = owed \cup {m}
    BY <1>4, <2>1, AddStep DEF AddAttach
  <2>2. CASE UNCHANGED <<conf, live, owed, lost>>
    BY <1>4, <2>2, IdleType, RequestStep DEF AddAttach, End, At
  <2> QED
    BY <1>4, <2>1, <2>2 DEF AddAttach
<1>5. CASE RemoveDetach(t)
  <2>1. CASE /\ CanDetach(th[t].mac, th[t].active) /\ Detach(th[t].mac, th[t].active)
             /\ owed' = owed \ {th[t].mac}
    BY <1>5, <2>1, DetachStep DEF RemoveDetach
  <2>2. CASE Quiet
    BY <1>5, <2>2, IdleType, RequestStep DEF RemoveDetach, End, At, Quiet
  <2> QED
    BY <1>5, <2>1, <2>2 DEF RemoveDetach
<1> QED
  BY <1>1, <1>2, <1>3, <1>4, <1>5

-----------------------------------------------------------------------------
(* The VM's and the networks' starts and stops.                             *)

LEMMA VmSteps ==
    ASSUME TypeOK, NicsInv, VmStart \/ VmStop
    PROVE  TypeOK' /\ NicsInv'
<1>t. /\ raced \in BOOLEAN
      /\ conf \in [Macs -> SUBSET Nets] /\ live \in [Macs -> SUBSET Nets]
  BY NicsTypes
<1>1. /\ UNCHANGED <<netw, conf, th, owed, missed, lost>>
      /\ raced' = (raced \/ Busy)
      /\ \/ ~on /\ on' = TRUE /\ live' = conf
                /\ \A m \in Macs : \A n \in conf[m] : netw[n] = "on"
         \/ on /\ on' = FALSE /\ live' = None
  BY DEF VmStart, VmStop
<1>2. TypeOK'
  BY <1>t, <1>1 DEF TypeOK, None
<1>3. Named'
  BY <1>1 DEF NicsInv, Named, At
<1>4. Asked'
  BY <1>1 DEF Asked, Busy, At
<1>5. \A k \in Macs : live'[k] = conf[k] \/ live'[k] = {}
  BY <1>1 DEF None
<1>6. Single'
  BY <1>1, <1>5 DEF NicsInv, Single, Holds
<1>8. NicKept'
  BY <1>1, <1>t DEF NicsInv, NicKept, Has, Holds
<1>9. LiveMatchesDefinition'
  BY <1>1 DEF LiveMatchesDefinition
<1> QED
  BY <1>2, <1>3, <1>4, <1>6, <1>8, <1>9 DEF NicsInv

LEMMA NetworkSteps ==
    ASSUME TypeOK, NicsInv, NEW n \in Nets,
           NetworkStart(n) \/ \E how \in {"off", "gone"} : NetworkStop(n, how)
    PROVE  TypeOK' /\ NicsInv'
<1>1. /\ UNCHANGED <<on, conf, live, th, owed, raced, missed, lost>>
      /\ \E how \in {"on", "off", "gone"} : netw' = [netw EXCEPT ![n] = how]
  BY DEF NetworkStart, NetworkStop
<1>2. netw' \in [Nets -> {"on", "off", "gone"}]
  BY <1>1, NicsTypes
<1>3. TypeOK'
  BY <1>1, <1>2 DEF TypeOK
<1> QED
  BY <1>1, <1>3 DEF NicsInv, Named, Single, Asked, NicKept, LiveMatchesDefinition,
                    Holds, At, Has

(* What AtlasVM's death leaves of the requests is what they have detached.  *)
LEMMA DeathStep ==
    ASSUME TypeOK, NicsInv, AtlasDies
    PROVE  TypeOK' /\ NicsInv'
<1>1. /\ UNCHANGED <<netw, on, conf, live, owed, raced, missed>>
      /\ th' = [t \in Threads |-> Idle]
      /\ lost' = lost \cup {m \in Macs : conf[m] = {} /\ \E t \in Threads : Holds(t, m)}
  BY DEF AtlasDies, Quiet, Has
<1>2. \A t \in Threads : th'[t] = Idle /\ Idle \in RequestType /\ Idle.pc = "idle"
  BY <1>1, IdleType
<1>3. TypeOK'
  <2>1. th' \in [Threads -> RequestType] /\ lost' \subseteq Macs
    BY <1>1, <1>2, NicsTypes
  <2> QED
    BY <1>1, <1>2, <2>1 DEF TypeOK, RequestType
<1>4. Named' /\ Asked' /\ LiveMatchesDefinition'
  BY <1>1, <1>2 DEF NicsInv, Named, Asked, LiveMatchesDefinition, At
<1>5. Single'
  BY <1>1, <1>2 DEF NicsInv, Single, Holds
<1>6. NicKept'
  <2>1. ASSUME NEW m \in owed \ lost' PROVE conf[m] # {}
    <3>1. m \in owed \ lost /\ m \in Macs
      BY <2>1, <1>1, NicsTypes
    <3>2. conf[m] # {} \/ \E t \in Threads : Holds(t, m)
      BY <3>1 DEF NicsInv, NicKept, Has
    <3> QED
      BY <3>1, <3>2, <2>1, <1>1
  <2> QED
    BY <2>1, <1>1 DEF NicKept, Has
<1> QED
  BY <1>3, <1>4, <1>5, <1>6 DEF NicsInv

LEMMA NicsStep == TypeOK /\ NicsInv /\ [Next]_vars => TypeOK' /\ NicsInv'
<1> SUFFICES ASSUME TypeOK, NicsInv, [Next]_vars PROVE TypeOK' /\ NicsInv'
  OBVIOUS
<1>1. CASE \E t \in Threads : \/ \E m \in Macs, n \in Nets : SwitchNic(t, m, n)
                              \/ \E n \in Nets : AddNic(t, n)
                              \/ \E m \in Macs : RemoveNic(t, m)
  BY <1>1, AskSteps
<1>2. CASE \E t \in Threads : SwitchDetach(t) \/ SwitchAttach(t) \/ SwitchReattach(t)
                                 \/ AddAttach(t) \/ RemoveDetach(t)
  BY <1>2, CallSteps
<1>3. CASE VmStart \/ VmStop
  BY <1>3, VmSteps
<1>4. CASE \E n \in Nets : NetworkStart(n) \/ \E how \in {"off", "gone"} : NetworkStop(n, how)
  BY <1>4, NetworkSteps
<1>6. CASE AtlasDies
  BY <1>6, DeathStep
<1>5. CASE UNCHANGED vars
  BY <1>5 DEF vars, TypeOK, NicsInv, Named, Single, Holds, Asked, NicKept, At, Has,
              LiveMatchesDefinition
<1> QED
  BY <1>1, <1>2, <1>3, <1>4, <1>5, <1>6 DEF Next

LEMMA NicsInvFits ==
    ASSUME TypeOK, NicsInv
    PROVE  NicsRight
<1>1. OneNicPerMac
  BY DEF NicsInv, Single, OneNicPerMac
<1> QED
  BY <1>1 DEF NicsInv, NicsRight

-----------------------------------------------------------------------------
(* The settings of the VM.                                                  *)

(* A request that is to change the size names one.                          *)
SettingsTypes == C!TypeOK /\ \A t \in Threads : vmTh[t].pc = "size" => vmTh[t].size \in Pair

(* While a VM runs that no request has been overtaken by: a request that    *)
(* asked sees it as running, and a snapshot of one agrees with itself.      *)
Seen(t) == /\ vmTh[t].pc # "size"
           /\ vmTh[t].pc = "flags" => vmTh[t].live
           /\ vmTh[t].pc = "media" => vmTh[t].flag

Sized(c) == [iso |-> c.iso, size |-> c.size]

SnapshotsAgree ==
    \A s \in Snaps : snaps[s] # NoSnap /\ snaps[s].machine # NoRun /\ ~snaps[s].crossed =>
        snaps[s].machine = Sized(snaps[s].conf)

(* Who has read the description last knows whether it has the marker.       *)
Marked(t) == vmTh[t].pc = "writeEdit" /\ t \notin vmStale => vmTh[t].flag = vmConf.template

SettingsInv ==
    /\ SettingsTypes
    /\ C!On /\ ~crossed => machine = Sized(vmConf) /\ \A t \in Threads : Seen(t)
    /\ SnapshotsAgree
    /\ \A t \in Threads : Marked(t)

LEMMA SettingsInit == C!Init => SettingsInv
<1> SUFFICES ASSUME C!Init PROVE SettingsInv
  OBVIOUS
<1>1. PICK s \in Pair : vmConf = [iso |-> NoIso, size |-> s, template |-> FALSE]
  BY DEF C!Init
<1>2. vmConf \in C!Confs
  BY <1>1 DEF C!Confs
<1>3. /\ machine = NoRun /\ isos = {} /\ crossed = FALSE /\ vmStale = {}
      /\ snaps \in [Snaps -> C!Snapshots \cup {NoSnap}] /\ \A i \in Snaps : snaps[i] = NoSnap
      /\ vmTh = [t \in Threads |-> C!Idle]
  BY DEF C!Init
<1>4. C!Idle \in C!Requested /\ C!Idle.pc = "idle"
  BY DEF C!Idle, C!Requested
<1>5. vmTh \in [Threads -> C!Requested] /\ \A t \in Threads : vmTh[t].pc = "idle"
  BY <1>3, <1>4
<1> QED
  BY <1>2, <1>3, <1>5 DEF SettingsInv, SettingsTypes, C!TypeOK, C!On, SnapshotsAgree, Marked

(* A request of the VM moves on, with a definition and a machine that fit.  *)
LEMMA SettingsMove ==
    ASSUME SettingsInv, NEW t \in Threads, NEW k \in C!Requested, C!Goto(t, k),
           k.pc = "size" => k.size \in Pair,
           vmConf' \in C!Confs, machine' \in C!Machines \cup {NoRun},
           C!On' <=> C!On, C!On /\ ~crossed => machine' = Sized(vmConf'),
           C!On /\ ~crossed => Seen(t)',
           Marked(t)',
           \/ UNCHANGED vmConf /\ (vmStale' = vmStale \/ vmStale' = vmStale \ {t})
           \/ vmConf'.template = vmConf.template /\ UNCHANGED vmStale
           \/ vmStale' = C!Overtaken(t),
           vmTh[t].pc # "writeEdit" \/ vmStale' \subseteq vmStale \ {t} \/ vmStale' = C!Overtaken(t),
           UNCHANGED <<isos, snaps, crossed>>
    PROVE  SettingsInv'
<1>1. /\ vmTh \in [Threads -> C!Requested] /\ vmTh'[t] = k
      /\ \A u \in Threads : u # t => vmTh'[u] = vmTh[u]
  BY DEF SettingsInv, SettingsTypes, C!TypeOK, C!Goto
<1>2. vmTh' \in [Threads -> C!Requested]
  BY <1>1 DEF C!Goto
<1>3. vmStale' \subseteq {u \in Threads : vmTh'[u].pc = "writeEdit"}
  <2>1. vmStale \subseteq {u \in Threads : vmTh[u].pc = "writeEdit"}
    BY DEF SettingsInv, SettingsTypes, C!TypeOK
  <2> QED
    BY <1>1, <2>1 DEF C!Overtaken, C!At
<1>4. C!TypeOK'
  BY <1>2, <1>3 DEF SettingsInv, SettingsTypes, C!TypeOK, C!On
<1>5. SettingsTypes'
  BY <1>1, <1>4 DEF SettingsInv, SettingsTypes
<1>6. ASSUME NEW u \in Threads PROVE Marked(u)' /\ (C!On /\ ~crossed => Seen(u)')
  <2>1. CASE u = t
    BY <2>1
  <2>2. CASE u # t
    BY <1>1, <2>2 DEF SettingsInv, Marked, Seen, C!Overtaken, C!At
  <2> QED
    BY <2>1, <2>2
<1>7. SnapshotsAgree'
  BY DEF SettingsInv, SnapshotsAgree
<1> QED
  BY <1>5, <1>6, <1>7 DEF SettingsInv

(* A move that leaves definition and machine as they are.                   *)
LEMMA SettingsQuiet ==
    ASSUME SettingsInv, NEW t \in Threads, NEW k \in C!Requested, C!Goto(t, k),
           k.pc = "size" => k.size \in Pair,
           C!On /\ ~crossed => /\ k.pc # "size"
                               /\ k.pc = "flags" => k.live
                               /\ k.pc = "media" => k.flag,
           k.pc = "writeEdit" => k.flag = vmConf.template,
           vmStale' = vmStale \/ vmStale' = vmStale \ {t},
           vmTh[t].pc # "writeEdit" \/ vmStale' = vmStale \ {t},
           UNCHANGED <<vmConf, machine, isos, snaps, crossed>>
    PROVE  SettingsInv'
<1>1. vmTh'[t] = k
  BY DEF SettingsInv, SettingsTypes, C!TypeOK, C!Goto
<1>2. /\ vmConf' \in C!Confs /\ machine' \in C!Machines \cup {NoRun} /\ (C!On' <=> C!On)
      /\ C!On /\ ~crossed => machine' = Sized(vmConf')
  BY DEF SettingsInv, SettingsTypes, C!TypeOK, C!On, Sized
<1>3. (C!On /\ ~crossed => Seen(t)') /\ Marked(t)'
  BY <1>1 DEF Seen, Marked
<1> QED
  BY <1>2, <1>3, SettingsMove

LEMMA SettingsRequests ==
    ASSUME SettingsInv, NEW t \in Threads, C!Requests(t)
    PROVE  SettingsInv'
<1>1. ASSUME NEW i \in Isos \cup {NoIso}, NEW running \in BOOLEAN, C!Media(t, i, running)
      PROVE  SettingsInv'
  <2> DEFINE k == [C!Idle EXCEPT !.pc = "flags", !.iso = i, !.live = running]
  <2>1. k \in C!Requested /\ k.pc = "flags" /\ k.live = running
    BY DEF C!Requested, C!Idle
  <2>2. /\ vmTh[t].pc = "idle" /\ ~(C!On /\ ~running) /\ C!Goto(t, k)
        /\ UNCHANGED <<vmConf, machine, isos, snaps, crossed, vmStale>>
    BY <1>1 DEF C!Media, C!At
  <2> HIDE DEF k
  <2> QED
    BY <2>1, <2>2, SettingsQuiet
<1>2. ASSUME NEW s \in Pair, NEW marked \in BOOLEAN, C!Edit(t, s, marked)
      PROVE  SettingsInv'
  <2> DEFINE k == [C!Idle EXCEPT !.pc = IF s = vmConf.size THEN "readEdit" ELSE "size",
                                 !.size = s, !.live = marked]
  <2>1. /\ k \in C!Requested /\ k.size = s
        /\ k.pc = IF s = vmConf.size THEN "readEdit" ELSE "size"
    BY DEF C!Requested, C!Idle
  <2>2. /\ vmTh[t].pc = "idle" /\ ~(C!On /\ s # vmConf.size) /\ C!Goto(t, k)
        /\ UNCHANGED <<vmConf, machine, isos, snaps, crossed, vmStale>>
    BY <1>2 DEF C!Edit, C!At
  <2> HIDE DEF k
  <2> QED
    BY <2>1, <2>2, SettingsQuiet
<1>3. ASSUME NEW enabled \in BOOLEAN, C!Mark(t, enabled)
      PROVE  SettingsInv'
  <2> DEFINE k == [C!Idle EXCEPT !.pc = "writeMark", !.flag = enabled]
  <2>1. k \in C!Requested /\ k.pc = "writeMark"
    BY DEF C!Requested, C!Idle
  <2>2. /\ vmTh[t].pc = "idle" /\ C!Goto(t, k)
        /\ UNCHANGED <<vmConf, machine, isos, snaps, crossed, vmStale>>
    BY <1>3 DEF C!Mark, C!At
  <2> HIDE DEF k
  <2> QED
    BY <2>1, <2>2, SettingsQuiet
<1> QED
  BY <1>1, <1>2, <1>3 DEF C!Requests

LEMMA SettingsIdle ==
    /\ C!Idle \in C!Requested /\ C!Idle.pc = "idle"
  BY DEF C!Idle, C!Requested

LEMMA MediaFlagsStep ==
    ASSUME SettingsInv, NEW t \in Threads, C!MediaFlags(t)
    PROVE  SettingsInv'
<1> DEFINE k == [vmTh[t] EXCEPT !.pc = "media", !.flag = C!On /\ vmTh[t].live]
<1>1. vmTh[t] \in C!Requested /\ vmTh[t].pc = "flags" /\ C!Goto(t, k)
      /\ UNCHANGED <<vmConf, machine, isos, snaps, crossed, vmStale>>
  BY DEF C!MediaFlags, C!At, SettingsInv, SettingsTypes, C!TypeOK
<1>2. (C!On /\ vmTh[t].live) \in BOOLEAN
  BY DEF C!On
<1>3. k \in C!Requested /\ k.pc = "media" /\ (k.flag <=> (C!On /\ vmTh[t].live))
  BY <1>1, <1>2 DEF C!Requested
<1>4. C!On /\ ~crossed => vmTh[t].live
  BY <1>1 DEF SettingsInv, Seen
<1> HIDE DEF k
<1> QED
  BY <1>1, <1>3, <1>4, SettingsQuiet

LEMMA MediaUpdateStep ==
    ASSUME SettingsInv, NEW t \in Threads, C!MediaUpdate(t)
    PROVE  SettingsInv'
<1>1. /\ vmTh[t] \in C!Requested /\ vmTh[t].pc = "media" /\ C!Goto(t, C!Idle)
      /\ UNCHANGED <<isos, snaps, crossed, vmStale>>
      /\ vmConf \in C!Confs /\ machine \in C!Machines \cup {NoRun}
  BY DEF C!MediaUpdate, C!At, SettingsInv, SettingsTypes, C!TypeOK
<1>2. CASE UNCHANGED <<vmConf, machine>>
  BY <1>1, <1>2, SettingsIdle, SettingsQuiet
<1>3. CASE /\ vmTh[t].flag => C!On
           /\ vmConf' = [vmConf EXCEPT !.iso = vmTh[t].iso]
           /\ machine' = IF vmTh[t].flag THEN [machine EXCEPT !.iso = vmTh[t].iso] ELSE machine
  <2>1. vmTh[t].iso \in Isos \cup {NoIso} /\ vmTh[t].flag \in BOOLEAN
    BY <1>1 DEF C!Requested
  <2>2. /\ vmConf' \in C!Confs /\ vmConf'.template = vmConf.template
        /\ vmConf'.iso = vmTh[t].iso /\ vmConf'.size = vmConf.size
    BY <1>1, <1>3, <2>1 DEF C!Confs
  <2>3. CASE vmTh[t].flag
    <3>1. machine \in C!Machines /\ machine' = [machine EXCEPT !.iso = vmTh[t].iso]
      BY <1>1, <1>3, <2>3 DEF C!On
    <3>2. /\ machine' \in C!Machines /\ machine'.iso = vmTh[t].iso /\ machine'.size = machine.size
      BY <2>1, <3>1 DEF C!Machines
    <3>3. C!On /\ C!On'
      BY <1>3, <2>3, <3>2, InstancesAssumption DEF C!On, C!ConstantsAssumption
    <3>4. machine = Sized(vmConf) => machine' = Sized(vmConf')
      BY <2>2, <3>2 DEF Sized, C!Machines
    <3>5. C!On /\ ~crossed => machine' = Sized(vmConf')
      BY <3>4 DEF SettingsInv
    <3>6. Seen(t)' /\ Marked(t)'
      BY <1>1, SettingsIdle DEF Seen, Marked, C!Goto, SettingsInv, SettingsTypes, C!TypeOK
    <3> QED
      BY <1>1, <2>2, <3>2, <3>3, <3>5, <3>6, SettingsIdle, SettingsMove
  <2>4. CASE ~vmTh[t].flag
    <3>1. ~(C!On /\ ~crossed) /\ UNCHANGED machine
      BY <1>1, <1>3, <2>1, <2>4 DEF SettingsInv, Seen
    <3>2. C!On' <=> C!On
      BY <3>1 DEF C!On
    <3>3. Marked(t)'
      BY <1>1, SettingsIdle DEF Marked, C!Goto, SettingsInv, SettingsTypes, C!TypeOK
    <3> QED
      BY <1>1, <2>2, <3>1, <3>2, <3>3, SettingsIdle, SettingsMove
  <2> QED
    BY <2>3, <2>4
<1> QED
  BY <1>2, <1>3 DEF C!MediaUpdate

(* The marker, or the size, is written to the definition alone.             *)
LEMMA SettingsWrite ==
    ASSUME SettingsInv, NEW t \in Threads, NEW k \in C!Requested, C!Goto(t, k),
           k.pc \in {"idle", "readEdit"},
           vmConf' \in C!Confs,
           C!On /\ ~crossed => Sized(vmConf') = Sized(vmConf),
           \/ vmConf'.template = vmConf.template /\ UNCHANGED vmStale /\ vmTh[t].pc # "writeEdit"
           \/ vmStale' = C!Overtaken(t),
           UNCHANGED <<machine, isos, snaps, crossed>>
    PROVE  SettingsInv'
<1>1. vmTh'[t] = k
  BY DEF SettingsInv, SettingsTypes, C!TypeOK, C!Goto
<1>2. /\ machine' \in C!Machines \cup {NoRun} /\ (C!On' <=> C!On)
      /\ C!On /\ ~crossed => machine' = Sized(vmConf')
  BY DEF SettingsInv, SettingsTypes, C!TypeOK, C!On
<1>3. Seen(t)' /\ Marked(t)'
  BY <1>1 DEF Seen, Marked
<1> QED
  BY <1>2, <1>3, SettingsMove

LEMMA EditSizeStep ==
    ASSUME SettingsInv, NEW t \in Threads, C!EditSize(t)
    PROVE  SettingsInv'
<1>1. /\ vmTh[t] \in C!Requested /\ vmTh[t].pc = "size" /\ vmTh[t].size \in Pair
      /\ vmConf \in C!Confs /\ ~(C!On /\ ~crossed)
      /\ UNCHANGED <<machine, isos, snaps, crossed, vmStale>>
  BY DEF C!EditSize, C!At, SettingsInv, SettingsTypes, C!TypeOK, Seen
<1>2. CASE UNCHANGED vmConf /\ C!Goto(t, C!Idle)
  BY <1>1, <1>2, SettingsIdle, SettingsQuiet
<1>3. CASE /\ vmConf' = [vmConf EXCEPT !.size = vmTh[t].size]
           /\ C!Goto(t, [vmTh[t] EXCEPT !.pc = "readEdit"])
  <2> DEFINE k == [vmTh[t] EXCEPT !.pc = "readEdit"]
  <2>1. k \in C!Requested /\ k.pc = "readEdit" /\ C!Goto(t, k)
    BY <1>1, <1>3 DEF C!Requested
  <2>2. vmConf' \in C!Confs /\ vmConf'.template = vmConf.template
    BY <1>1, <1>3 DEF C!Confs
  <2> HIDE DEF k
  <2> QED
    BY <1>1, <2>1, <2>2, SettingsWrite
<1> QED
  BY <1>2, <1>3 DEF C!EditSize

LEMMA EditReadStep ==
    ASSUME SettingsInv, NEW t \in Threads, C!EditRead(t)
    PROVE  SettingsInv'
<1> DEFINE k == [vmTh[t] EXCEPT !.pc = "writeEdit", !.flag = vmConf.template]
<1>1. /\ vmTh[t] \in C!Requested /\ vmTh[t].pc = "readEdit" /\ C!Goto(t, k)
      /\ vmConf \in C!Confs
      /\ UNCHANGED <<vmConf, machine, isos, snaps, crossed, vmStale>>
  BY DEF C!EditRead, C!At, SettingsInv, SettingsTypes, C!TypeOK
<1>2. k \in C!Requested /\ k.pc = "writeEdit" /\ k.flag = vmConf.template
  BY <1>1 DEF C!Requested, C!Confs
<1> HIDE DEF k
<1> QED
  BY <1>1, <1>2, SettingsQuiet

LEMMA WritesStep ==
    ASSUME SettingsInv, NEW t \in Threads, C!EditWrite(t) \/ C!MarkWrite(t)
    PROVE  SettingsInv'
<1>1. /\ vmTh[t] \in C!Requested /\ vmTh[t].pc \in {"writeEdit", "writeMark"}
      /\ vmConf \in C!Confs /\ C!Goto(t, C!Idle)
      /\ UNCHANGED <<machine, isos, snaps, crossed>>
  BY DEF C!EditWrite, C!MarkWrite, C!At, SettingsInv, SettingsTypes, C!TypeOK
<1>2. CASE UNCHANGED vmConf /\ vmStale' = vmStale \ {t}
  BY <1>1, <1>2, SettingsIdle, SettingsQuiet
<1>3. ASSUME NEW mark \in BOOLEAN, vmConf' = [vmConf EXCEPT !.template = mark],
             vmStale' = C!Overtaken(t)
      PROVE  SettingsInv'
  <2>1. vmConf' \in C!Confs /\ Sized(vmConf') = Sized(vmConf)
    BY <1>1, <1>3 DEF C!Confs, Sized
  <2> QED
    BY <1>1, <1>3, <2>1, SettingsIdle, SettingsWrite
<1>4. (vmTh[t].flag \/ vmTh[t].live) \in BOOLEAN /\ vmTh[t].flag \in BOOLEAN
  BY <1>1 DEF C!Requested
<1> QED
  BY <1>2, <1>3, <1>4 DEF C!EditWrite, C!MarkWrite

LEMMA SnapshotSteps ==
    ASSUME SettingsInv, NEW s \in Snaps,
           C!CreateSnapshot(s) \/ C!Revert(s) \/ C!DeleteSnapshot(s)
    PROVE  SettingsInv'
<1>1. /\ snaps \in [Snaps -> C!Snapshots \cup {NoSnap}] /\ vmConf \in C!Confs
      /\ machine \in C!Machines \cup {NoRun} /\ crossed \in BOOLEAN
      /\ UNCHANGED <<isos, vmTh>>
  BY DEF SettingsInv, SettingsTypes, C!TypeOK, C!CreateSnapshot, C!Revert, C!DeleteSnapshot
<1>2. CASE C!CreateSnapshot(s)
  <2> DEFINE k == [conf |-> vmConf, machine |-> machine, crossed |-> crossed]
  <2>1. k \in C!Snapshots /\ k.conf = vmConf /\ k.machine = machine /\ k.crossed = crossed
    BY <1>1 DEF C!Snapshots
  <2>2. /\ snaps' = [snaps EXCEPT ![s] = k]
        /\ UNCHANGED <<vmConf, machine, isos, vmTh, crossed, vmStale>>
    BY <1>2 DEF C!CreateSnapshot
  <2> HIDE DEF k
  <2>3. SettingsTypes'
    BY <2>1, <2>2 DEF SettingsInv, SettingsTypes, C!TypeOK
  <2>4. SnapshotsAgree'
    BY <1>1, <2>1, <2>2 DEF SettingsInv, SnapshotsAgree, C!On
  <2> QED
    BY <2>2, <2>3, <2>4 DEF SettingsInv, C!On, Seen, Marked
<1>3. CASE C!DeleteSnapshot(s)
  <2>1. /\ snaps' = [snaps EXCEPT ![s] = NoSnap]
        /\ UNCHANGED <<vmConf, machine, isos, vmTh, crossed, vmStale>>
    BY <1>3 DEF C!DeleteSnapshot
  <2>2. SettingsTypes'
    BY <2>1 DEF SettingsInv, SettingsTypes, C!TypeOK
  <2>3. SnapshotsAgree'
    BY <1>1, <2>1 DEF SettingsInv, SnapshotsAgree
  <2> QED
    BY <2>1, <2>2, <2>3 DEF SettingsInv, C!On, Seen, Marked
<1>4. CASE C!Revert(s)
  <2>1. snaps[s] \in C!Snapshots /\ snaps[s] # NoSnap
    BY <1>1, <1>4 DEF C!Revert
  <2>2. /\ vmConf' = snaps[s].conf /\ vmConf' \in C!Confs
        /\ machine' = snaps[s].machine /\ machine' \in C!Machines \cup {NoRun}
    BY <1>4, <2>1 DEF C!Revert, C!Snapshots
  <2>3. /\ crossed' = (snaps[s].machine # NoRun /\ (snaps[s].crossed \/ C!Pending))
        /\ vmStale' = vmStale \cup {t \in Threads : C!At(t, "writeEdit")}
        /\ UNCHANGED <<isos, snaps, vmTh>>
    BY <1>4 DEF C!Revert
  <2>4. SettingsTypes'
    BY <2>2, <2>3 DEF SettingsInv, SettingsTypes, C!TypeOK, C!At
  <2>5. SnapshotsAgree'
    BY <2>3 DEF SettingsInv, SnapshotsAgree
  <2>6. \A t \in Threads : Marked(t)'
    BY <2>3 DEF Marked, C!At
  <2>7. C!On' /\ ~crossed' => machine' = Sized(vmConf') /\ \A t \in Threads : vmTh[t].pc = "idle"
    BY <2>1, <2>2, <2>3 DEF SettingsInv, SnapshotsAgree, C!On, C!Pending, C!At
  <2>8. C!On' /\ ~crossed' => \A t \in Threads : Seen(t)'
    BY <2>3, <2>7 DEF Seen
  <2> QED
    BY <2>4, <2>5, <2>6, <2>7, <2>8 DEF SettingsInv
<1> QED
  BY <1>2, <1>3, <1>4

LEMMA PowerSteps ==
    ASSUME SettingsInv, C!Start \/ C!Stop
    PROVE  SettingsInv'
<1>1. UNCHANGED <<vmConf, isos, snaps, vmTh, vmStale>> /\ vmConf \in C!Confs
  BY DEF C!Start, C!Stop, SettingsInv, SettingsTypes, C!TypeOK
<1>2. (\A t \in Threads : Marked(t)') /\ SnapshotsAgree'
  BY <1>1 DEF SettingsInv, Marked, SnapshotsAgree
<1>3. CASE C!Stop
  <2>1. machine' = NoRun /\ crossed' = FALSE
    BY <1>3 DEF C!Stop
  <2>2. SettingsTypes' /\ ~C!On'
    BY <1>1, <2>1 DEF SettingsInv, SettingsTypes, C!TypeOK, C!On
  <2> QED
    BY <1>2, <2>2 DEF SettingsInv
<1>4. CASE C!Start
  <2>1. machine' = Sized(vmConf) /\ crossed' = C!Pending
    BY <1>4 DEF C!Start, Sized
  <2>2. machine' \in C!Machines /\ machine' # NoRun
    BY <1>1, <2>1, InstancesAssumption DEF Sized, C!Confs, C!Machines, C!ConstantsAssumption
  <2>3. SettingsTypes'
    <3>1. crossed' \in BOOLEAN
      BY <2>1 DEF C!Pending
    <3> QED
      BY <1>1, <2>2, <3>1 DEF SettingsInv, SettingsTypes, C!TypeOK
  <2>4. ~crossed' => \A t \in Threads : vmTh[t].pc = "idle"
    BY <2>1 DEF C!Pending, C!At
  <2>5. ~crossed' => \A t \in Threads : Seen(t)'
    BY <1>1, <2>4 DEF Seen
  <2> QED
    BY <1>1, <1>2, <2>1, <2>3, <2>5 DEF SettingsInv
<1> QED
  BY <1>3, <1>4

LEMMA SettingsStep == SettingsInv /\ [C!Next]_(C!vars) => SettingsInv'
<1> SUFFICES ASSUME SettingsInv, [C!Next]_(C!vars) PROVE SettingsInv'
  OBVIOUS
<1>1. ASSUME NEW t \in Threads, C!Calls(t) PROVE SettingsInv'
  BY <1>1, MediaFlagsStep, MediaUpdateStep, EditSizeStep, EditReadStep, WritesStep
     DEF C!Calls
<1>2. ASSUME NEW i \in Isos, C!UploadIso(i) \/ C!DeleteIso(i) PROVE SettingsInv'
  BY <1>2 DEF C!UploadIso, C!DeleteIso, SettingsInv, SettingsTypes, C!TypeOK, C!On, Seen,
              SnapshotsAgree, Marked
<1>3. CASE UNCHANGED C!vars
  BY <1>3 DEF C!vars, SettingsInv, SettingsTypes, C!TypeOK, C!On, Seen, SnapshotsAgree, Marked
<1> QED
  BY <1>1, <1>2, <1>3, SettingsRequests, SnapshotSteps, PowerSteps DEF C!Next

(* Who takes the marker away.                                               *)
LEMMA UnmarkedBy ==
    ASSUME SettingsInv, C!Next, vmConf.template, ~vmConf'.template
    PROVE  \/ \E s \in Snaps : C!Revert(s)
           \/ \E t \in Threads : C!At(t, "writeMark") /\ C!MarkWrite(t)
           \/ \E t \in vmStale : C!EditWrite(t)
<1>1. vmConf \in C!Confs /\ vmTh \in [Threads -> C!Requested]
  BY DEF SettingsInv, SettingsTypes, C!TypeOK
<1>2. ASSUME NEW t \in Threads, C!Requests(t) PROVE FALSE
  BY <1>2 DEF C!Requests, C!Media, C!Edit, C!Mark
<1>3. ASSUME NEW t \in Threads, C!MediaFlags(t) \/ C!MediaUpdate(t) \/ C!EditSize(t) \/ C!EditRead(t)
      PROVE  FALSE
  BY <1>1, <1>3 DEF C!MediaFlags, C!MediaUpdate, C!EditSize, C!EditRead, C!Confs
<1>4. ASSUME NEW t \in Threads, C!EditWrite(t) PROVE t \in vmStale
  <2>1. vmConf' = [vmConf EXCEPT !.template = vmTh[t].flag \/ vmTh[t].live]
    BY <1>4 DEF C!EditWrite
  <2>2. vmTh[t].pc = "writeEdit" /\ vmTh[t].flag \in BOOLEAN /\ vmTh[t].live \in BOOLEAN
    BY <1>1, <1>4 DEF C!EditWrite, C!At, C!Requested
  <2>3. vmConf'.template = (vmTh[t].flag \/ vmTh[t].live)
    BY <1>1, <2>1 DEF C!Confs
  <2>4. Marked(t)
    BY DEF SettingsInv
  <2> QED
    BY <2>2, <2>3, <2>4 DEF Marked
<1>5. ASSUME NEW t \in Threads, C!MarkWrite(t) PROVE C!At(t, "writeMark")
  BY <1>5 DEF C!MarkWrite
<1>6. ASSUME NEW s \in Snaps, C!CreateSnapshot(s) \/ C!DeleteSnapshot(s) PROVE FALSE
  BY <1>6 DEF C!CreateSnapshot, C!DeleteSnapshot
<1>7. ASSUME C!Start \/ C!Stop \/ \E i \in Isos : C!UploadIso(i) \/ C!DeleteIso(i) PROVE FALSE
  BY <1>7 DEF C!Start, C!Stop, C!UploadIso, C!DeleteIso
<1> QED
  BY <1>2, <1>3, <1>4, <1>5, <1>6, <1>7 DEF C!Next, C!Calls

-----------------------------------------------------------------------------
(* The storage networks.                                                    *)

FileTexts == [netdev : (S!Interfaces \X {"tag"}) \cup {NoFile},
              parent : (Parents \X S!Interfaces) \cup {NoFile},
              network : (S!Interfaces \X Addrs) \cup {NoFile}]

(* A profile names the interface its mode gives it, and a VLAN has a tag.   *)
Proper(n, p) ==
    p # NoProfile => /\ p \in S!Profiles
                     /\ p.iface = S!InterfaceName(n, p.mode, p.parent, p.tag)
                     /\ p.mode = "vlan" => p.tag = "tag"

ApplierPcs == {"idle", "apply", "note", "query", "netdev", "parent", "network", "restart"}
Appliers == [pc : ApplierPcs, name : Pair \cup {NoName},
             snap : [Pair -> S!Profiles \cup {NoProfile}], todo : SUBSET Pair]

(* A request knows the network it is at, has read proper profiles, and      *)
(* writes the files its network's mode needs.                               *)
Applier(k) == /\ k \in Appliers
              /\ k.pc # "idle" => k.name \in Pair
              /\ \A n \in Pair : Proper(n, k.snap[n])
              /\ k.pc \notin {"idle", "apply"} => k.snap[k.name] # NoProfile
              /\ k.pc = "note" => k.snap[k.name].mode = "existing"
              /\ k.pc = "query" => k.snap[k.name].mode = "dedicated"
              /\ k.pc \in {"netdev", "parent"} => k.snap[k.name].mode = "vlan"

StorageTypes ==
    /\ S!TypeOK
    /\ \A n \in Pair : Proper(n, profile[n])
    /\ netTh \in [Threads -> Appliers] /\ \A r \in Threads : Applier(netTh[r])

(* Profiles that differ in nothing but whether they were applied.           *)
Same(p, q) == /\ p = NoProfile <=> q = NoProfile
              /\ p # NoProfile => /\ p.mode = q.mode /\ p.parent = q.parent
                                  /\ p.tag = q.tag /\ p.addr = q.addr
                                  /\ p.iface = q.iface

(* The names of which a request's copy is still what the profiles say.      *)
Fresh(r) == Pair \ (netStale[r] \cup netLost)

Agree(r) ==
    \A m \in Fresh(r) :
       /\ Same(netTh[r].snap[m], profile[m])
       /\ netTh[r].snap[m] # NoProfile /\ netTh[r].snap[m].applied =>
             S!Matches(m, netTh[r].snap[m])

(* A row of files matches a profile.                                        *)
MatchedBy(row, p) ==
    /\ p.mode = "vlan" => row.netdev = S!Text(p, "netdev") /\ row.parent = S!Text(p, "parent")
    /\ p.mode # "existing" => row.network = S!Text(p, "network")

(* The files a request has written are still as it wrote them.              *)
Progress(r) ==
    LET n == netTh[r].name
        p == netTh[r].snap[n]
    IN  n \in Fresh(r) =>
          /\ netTh[r].pc = "parent" => files[n].netdev = S!Text(p, "netdev")
          /\ netTh[r].pc = "network" /\ p.mode = "vlan" =>
                files[n].netdev = S!Text(p, "netdev") /\ files[n].parent = S!Text(p, "parent")
          /\ netTh[r].pc = "restart" => S!Matches(n, p)

StorageInv == /\ StorageTypes /\ S!AppliedMatches
              /\ \A r \in Threads : S!Holds(r) => Agree(r) /\ Progress(r)

LEMMA StorageVars ==
    ASSUME StorageTypes
    PROVE  /\ profile \in [Pair -> S!Profiles \cup {NoProfile}]
           /\ files \in [Pair -> FileTexts]
           /\ netTh \in [Threads -> Appliers]
           /\ netStale \in [Threads -> SUBSET Pair] /\ netLost \subseteq Pair
           /\ netRequests \in 0..MaxApplies /\ route \in Parents \cup {NoRoute}
BY DEF StorageTypes, S!TypeOK, FileTexts

LEMMA StorageTypesNext ==
    ASSUME profile' \in [Pair -> S!Profiles \cup {NoProfile}],
           files' \in [Pair -> FileTexts], route' \in Parents \cup {NoRoute},
           netTh' \in [Threads -> Appliers], netRequests' \in 0..MaxApplies,
           netStale' \in [Threads -> SUBSET Pair], netLost' \subseteq Pair
    PROVE  S!TypeOK'
<1>1. \A r \in Threads : netTh'[r] \in Appliers
  OBVIOUS
<1>2. \A r \in Threads :
         /\ netTh'[r].pc \in {"idle", "apply", "note", "query", "netdev", "parent",
                              "network", "restart"}
         /\ netTh'[r].name \in Pair \cup {NoName} /\ netTh'[r].todo \subseteq Pair
  BY <1>1 DEF Appliers, ApplierPcs
<1> QED
  BY <1>2 DEF S!TypeOK, FileTexts

LEMMA ApplierIdle ==
    /\ Applier(S!Idle) /\ S!Idle.pc = "idle"
    /\ \A n \in Pair, rest \in SUBSET Pair :
         LET k == [S!Idle EXCEPT !.pc = "apply", !.name = n, !.todo = rest]
         IN  Applier(k) /\ k.pc = "apply"
    /\ \A n \in Pair : LET k == [S!Idle EXCEPT !.pc = "apply", !.name = n]
                       IN  Applier(k) /\ k.pc = "apply"
<1> DEFINE blank == [m \in Pair |-> NoProfile]
<1>1. blank \in [Pair -> S!Profiles \cup {NoProfile}] /\ \A m \in Pair : Proper(m, blank[m])
  BY DEF Proper
<1>2. S!Idle = [pc |-> "idle", name |-> NoName, snap |-> blank, todo |-> {}]
  BY DEF S!Idle
<1> HIDE DEF blank
<1>3. S!Idle \in Appliers /\ S!Idle.snap = blank /\ S!Idle.pc = "idle"
  BY <1>1, <1>2 DEF Appliers, ApplierPcs
<1>4. ASSUME NEW n \in Pair, NEW rest \in SUBSET Pair
      PROVE  LET k == [S!Idle EXCEPT !.pc = "apply", !.name = n, !.todo = rest]
             IN  Applier(k) /\ k.pc = "apply"
  <2> DEFINE k == [S!Idle EXCEPT !.pc = "apply", !.name = n, !.todo = rest]
  <2>1. k \in Appliers /\ k.snap = blank /\ k.pc = "apply" /\ k.name = n
    BY <1>2, <1>3 DEF Appliers, ApplierPcs
  <2> HIDE DEF k
  <2>2. Applier(k) /\ k.pc = "apply"
    BY <1>1, <2>1 DEF Applier
  <2> QED
    BY <2>2 DEF k
<1>5. ASSUME NEW n \in Pair
      PROVE  LET k == [S!Idle EXCEPT !.pc = "apply", !.name = n]
             IN  Applier(k) /\ k.pc = "apply"
  <2> DEFINE k == [S!Idle EXCEPT !.pc = "apply", !.name = n]
  <2>1. k \in Appliers /\ k.snap = blank /\ k.pc = "apply" /\ k.name = n
    BY <1>2, <1>3 DEF Appliers, ApplierPcs
  <2> HIDE DEF k
  <2>2. Applier(k) /\ k.pc = "apply"
    BY <1>1, <2>1 DEF Applier
  <2> QED
    BY <2>2 DEF k
<1>6. Applier(S!Idle) /\ S!Idle.pc = "idle"
  BY <1>1, <1>3 DEF Applier
<1> QED
  BY <1>4, <1>5, <1>6

LEMMA StorageInit == S!ConstantsAssumption /\ S!Init => StorageInv
<1> SUFFICES ASSUME S!ConstantsAssumption, S!Init PROVE StorageInv
  OBVIOUS
<1>1. /\ netTh = [r \in Threads |-> S!Idle] /\ profile = [n \in Pair |-> NoProfile]
      /\ files = [n \in Pair |-> S!NoFiles] /\ route \in Parents \cup {NoRoute}
      /\ netRequests = 0 /\ MaxApplies \in Nat
      /\ netStale = [r \in Threads |-> {}] /\ netLost = {}
  BY DEF S!Init, S!ConstantsAssumption
<1>2. netTh \in [Threads -> Appliers] /\ \A r \in Threads : Applier(netTh[r]) /\ netTh[r].pc = "idle"
  BY <1>1, ApplierIdle DEF Applier
<1>3. S!NoFiles \in FileTexts
  BY DEF S!NoFiles, FileTexts
<1>4. S!TypeOK
  <2>1. \A r \in Threads : S!Idle \in Appliers /\ netTh[r] = S!Idle
    BY <1>1, ApplierIdle DEF Applier
  <2>2. \A r \in Threads : netTh[r].pc = "idle" /\ netTh[r].name \in Pair \cup {NoName}
                           /\ netTh[r].todo \subseteq Pair
    BY <1>2, <2>1 DEF Appliers
  <2> QED
    BY <1>1, <1>3, <2>2 DEF S!TypeOK, FileTexts
<1> QED
  BY <1>1, <1>2, <1>4 DEF StorageInv, StorageTypes, S!Holds, S!AppliedMatches, Proper

(* Same is an equivalence, and what it relates has the same texts.          *)
LEMMA SameMatches ==
    ASSUME NEW n \in Pair, NEW p, NEW q, Same(p, q), p # NoProfile
    PROVE  /\ S!Matches(n, p) <=> S!Matches(n, q)
           /\ \A f \in {"netdev", "parent", "network"} : S!Text(p, f) = S!Text(q, f)
BY DEF Same, S!Matches, S!Text

(* Another request's step leaves a request's copy what it was, if it        *)
(* changes no profile the copy is fresh of but for its mark, and no file    *)
(* but to what the copy says.                                               *)
LEMMA OthersKeep ==
    ASSUME StorageTypes, NEW q \in Threads, S!Holds(q), Agree(q), Progress(q),
           netTh'[q] = netTh[q],
           \A m \in Fresh(q)' :
              /\ m \in Fresh(q)
              /\ Same(profile[m], profile'[m])
              /\ files'[m].netdev \in {files[m].netdev, S!Text(netTh[q].snap[m], "netdev")}
              /\ files'[m].parent \in {files[m].parent, S!Text(netTh[q].snap[m], "parent")}
              /\ files'[m].network \in {files[m].network, S!Text(netTh[q].snap[m], "network")}
    PROVE  Agree(q)' /\ Progress(q)'
<1> DEFINE snap == netTh[q].snap
<1>1. Applier(netTh[q])
  BY DEF StorageTypes
<1>2. \A m \in Fresh(q)' : S!Matches(m, snap[m]) => S!Matches(m, snap[m])'
  BY DEF S!Matches, S!Text, Fresh
<1>3. Agree(q)'
  <2>1. \A m \in Fresh(q)' : Same(snap[m], profile'[m])
    BY DEF Agree, Same, Fresh
  <2> QED
    BY <1>2, <2>1 DEF Agree, S!Matches, S!Text, Same, Fresh
<1>4. Progress(q)'
  BY <1>2 DEF Progress, S!Matches, S!Text, Fresh
<1> QED
  BY <1>3, <1>4

(* A request ends or takes up the next network, or has died.                *)
LEMMA ProceedKeeps ==
    ASSUME StorageTypes, NEW r \in Threads, S!Proceed(r)
    PROVE  \E k : Applier(k) /\ k.pc \in {"idle", "apply"} /\ netTh' = [netTh EXCEPT ![r] = k]
<1>1. CASE netTh[r].todo = {}
  BY <1>1, ApplierIdle DEF S!Proceed
<1>2. CASE netTh[r].todo # {}
  <2>1. PICK n \in netTh[r].todo : netTh' = [netTh EXCEPT ![r] =
            [S!Idle EXCEPT !.pc = "apply", !.name = n, !.todo = netTh[r].todo \ {n}]]
    BY <1>2 DEF S!Proceed
  <2>2. n \in Pair /\ netTh[r].todo \ {n} \in SUBSET Pair
    BY DEF StorageTypes, S!TypeOK
  <2> QED
    BY <2>1, <2>2, ApplierIdle
<1> QED
  BY <1>1, <1>2

(* The files stay, and one request goes on to where it holds no copy.       *)
LEMMA StorageTurn ==
    ASSUME StorageInv, NEW r \in Threads, NEW k, Applier(k), k.pc \in {"idle", "apply"},
           netTh' = [netTh EXCEPT ![r] = k],
           profile' \in [Pair -> S!Profiles \cup {NoProfile}],
           \A n \in Pair : Proper(n, profile'[n]),
           netStale' \in [Threads -> SUBSET Pair], netLost' \subseteq Pair,
           netRequests' \in 0..MaxApplies, UNCHANGED <<files, route>>,
           \A q \in Threads \ {r} : S!Holds(q) =>
              \A m \in Fresh(q)' : m \in Fresh(q) /\ Same(profile[m], profile'[m]),
           S!AppliedMatches'
    PROVE  StorageInv'
<1>1. StorageTypes /\ \A q \in Threads : S!Holds(q) => Agree(q) /\ Progress(q)
  BY DEF StorageInv
<1>2. /\ netTh'[r] = k /\ \A q \in Threads : q # r => netTh'[q] = netTh[q]
      /\ netTh' \in [Threads -> Appliers] /\ \A q \in Threads : Applier(netTh'[q])
  BY <1>1 DEF StorageTypes, Applier
<1>3. StorageTypes'
  <2>1. files \in [Pair -> FileTexts] /\ route \in Parents \cup {NoRoute}
    BY <1>1, StorageVars
  <2>2. S!TypeOK'
    BY <1>2, <2>1, StorageTypesNext
  <2> QED
    BY <1>2, <2>2 DEF StorageTypes
<1>4. ASSUME NEW q \in Threads, S!Holds(q)' PROVE Agree(q)' /\ Progress(q)'
  <2>1. q # r /\ S!Holds(q) /\ netTh'[q] = netTh[q]
    BY <1>2, <1>4 DEF S!Holds
  <2>2. \A m \in Fresh(q)' : m \in Fresh(q) /\ Same(profile[m], profile'[m])
    BY <2>1
  <2>3. Agree(q) /\ Progress(q)
    BY <1>1, <2>1
  <2> QED
    BY <1>1, <2>1, <2>2, <2>3, OthersKeep
<1> QED
  BY <1>3, <1>4 DEF StorageInv

LEMMA SameSame == \A p : Same(p, p)
BY DEF Same

(* save_storage_network and delete_storage_network.                         *)
LEMMA StorageEdits ==
    ASSUME StorageInv, NEW r \in Threads, NEW n \in Pair,
           \/ \E mode \in {"existing", "vlan", "dedicated"}, p \in Parents,
                 t \in {"tag"} \cup {NoTag}, a \in Addrs : S!SaveNetwork(r, n, mode, p, t, a)
           \/ S!DeleteNetwork(r, n)
    PROVE  StorageInv'
<1>0. StorageTypes /\ Applier(netTh[r]) /\ \A m \in Pair : Proper(m, profile[m])
  BY DEF StorageInv, StorageTypes
<1>1. /\ netTh[r].pc = "idle" /\ UNCHANGED <<files, route, netTh>> /\ S!Overtake(r, {n})
      /\ netLost' = netLost \ {n} /\ netRequests < MaxApplies /\ netRequests' = netRequests + 1
  BY DEF S!SaveNetwork, S!DeleteNetwork, S!At, S!Requested
<1>2. PICK k : /\ k = NoProfile \/ (Proper(n, k) /\ k \in S!Profiles /\ k.applied = FALSE)
               /\ profile' = [profile EXCEPT ![n] = k]
  <2>1. CASE S!DeleteNetwork(r, n)
    BY <2>1 DEF S!DeleteNetwork
  <2>2. ASSUME NEW mode \in {"existing", "vlan", "dedicated"}, NEW p \in Parents,
               NEW t \in {"tag"} \cup {NoTag}, NEW a \in Addrs, S!SaveNetwork(r, n, mode, p, t, a)
        PROVE  \E k : /\ Proper(n, k) /\ k \in S!Profiles /\ k.applied = FALSE
                      /\ profile' = [profile EXCEPT ![n] = k]
    <3> DEFINE k == [mode |-> mode, parent |-> p, tag |-> t, addr |-> a,
                     iface |-> S!InterfaceName(n, mode, p, t), applied |-> FALSE]
    <3>1. (mode = "vlan" <=> t # NoTag) /\ profile' = [profile EXCEPT ![n] = k]
      BY <2>2 DEF S!SaveNetwork
    <3>2. S!InterfaceName(n, mode, p, t) \in S!Interfaces
      <4>1. CASE mode = "vlan"
        BY <3>1, <4>1 DEF S!Interfaces
      <4>2. CASE mode # "vlan"
        BY <4>2 DEF S!Interfaces, S!InterfaceName
      <4> QED
        BY <4>1, <4>2
    <3>3. k \in S!Profiles
      BY <3>2 DEF S!Profiles
    <3>4. Proper(n, k)
      BY <3>1, <3>3 DEF Proper
    <3> QED
      BY <3>1, <3>3, <3>4
  <2> QED
    BY <2>1, <2>2
<1>3. /\ profile' \in [Pair -> S!Profiles \cup {NoProfile}] /\ profile'[n] = k
      /\ \A m \in Pair : m # n => profile'[m] = profile[m]
  BY <1>0, <1>2, StorageVars
<1>4. \A m \in Pair : Proper(m, profile'[m])
  BY <1>0, <1>2, <1>3 DEF Proper
<1>5. S!AppliedMatches'
  BY <1>1, <1>2, <1>3 DEF StorageInv, S!AppliedMatches, S!Matches
<1>6. netTh' = [netTh EXCEPT ![r] = netTh[r]] /\ netTh[r].pc \in {"idle", "apply"}
  BY <1>0, <1>1, StorageVars
<1>7. /\ netStale' \in [Threads -> SUBSET Pair] /\ netLost' \subseteq Pair
      /\ \A q \in Threads \ {r} : S!Holds(q) => netStale'[q] = netStale[q] \cup {n}
  BY <1>0, <1>1, StorageVars DEF S!Overtake
<1>8. ASSUME NEW q \in Threads \ {r}, S!Holds(q), NEW m \in Fresh(q)'
      PROVE  m \in Fresh(q) /\ Same(profile[m], profile'[m])
  BY <1>1, <1>3, <1>7, <1>8, SameSame DEF Fresh
<1>9. netRequests' \in 0..MaxApplies
  BY <1>0, <1>1, StorageVars, InstancesAssumption DEF S!ConstantsAssumption
<1> QED
  BY <1>0, <1>1, <1>3, <1>4, <1>5, <1>6, <1>7, <1>8, <1>9, StorageTurn

(* Steps that move one request where it holds no copy and change nothing    *)
(* else the properties look at.                                             *)
LEMMA StorageMove ==
    ASSUME StorageInv, NEW r \in Threads, NEW k, Applier(k), k.pc \in {"idle", "apply"},
           netTh' = [netTh EXCEPT ![r] = k], netRequests' \in 0..MaxApplies,
           netStale' \in [Threads -> SUBSET Pair],
           \A q \in Threads \ {r} : netStale'[q] = netStale[q],
           UNCHANGED <<profile, files, route, netLost>>
    PROVE  StorageInv'
<1>1. /\ profile' \in [Pair -> S!Profiles \cup {NoProfile}] /\ netLost' \subseteq Pair
      /\ \A n \in Pair : Proper(n, profile'[n])
  BY StorageVars DEF StorageInv, StorageTypes
<1>2. \A q \in Threads \ {r} : S!Holds(q) =>
         \A m \in Fresh(q)' : m \in Fresh(q) /\ Same(profile[m], profile'[m])
  BY SameSame DEF Fresh
<1>3. S!AppliedMatches'
  BY DEF StorageInv, S!AppliedMatches, S!Matches
<1> QED
  BY <1>1, <1>2, <1>3, StorageTurn

LEMMA StorageStarts ==
    ASSUME StorageInv, NEW r \in Threads,
           (\E n \in Pair : S!StartApply(r, n)) \/ S!Reconcile(r)
    PROVE  StorageInv'
<1>1. /\ UNCHANGED <<profile, files, route, netStale, netLost>>
      /\ netRequests < MaxApplies /\ netRequests' = netRequests + 1
  BY DEF S!StartApply, S!Reconcile, S!Requested
<1>2. PICK k : Applier(k) /\ k.pc = "apply" /\ netTh' = [netTh EXCEPT ![r] = k]
  <2>1. ASSUME NEW n \in Pair, S!StartApply(r, n)
        PROVE  \E k : Applier(k) /\ k.pc = "apply" /\ netTh' = [netTh EXCEPT ![r] = k]
    BY <2>1, ApplierIdle DEF S!StartApply
  <2>2. CASE S!Reconcile(r)
    <3>1. PICK n \in Pair : netTh' = [netTh EXCEPT ![r] =
              [S!Idle EXCEPT !.pc = "apply", !.name = n,
                             !.todo = {m \in Pair \ {n} : profile[m] # NoProfile}]]
      BY <2>2 DEF S!Reconcile
    <3>2. {m \in Pair \ {n} : profile[m] # NoProfile} \in SUBSET Pair
      OBVIOUS
    <3> QED
      BY <3>1, <3>2, ApplierIdle
  <2> QED
    BY <2>1, <2>2
<1>3. netRequests' \in 0..MaxApplies /\ netStale' \in [Threads -> SUBSET Pair]
  BY <1>1, StorageVars, InstancesAssumption DEF StorageInv, S!ConstantsAssumption
<1> QED
  BY <1>1, <1>2, <1>3, StorageMove

(* A request goes on with a copy in its hands; at most one file changes.    *)
LEMMA StorageWork ==
    ASSUME StorageInv, NEW r \in Threads, NEW k, Applier(k), netTh' = [netTh EXCEPT ![r] = k],
           netStale' \in [Threads -> SUBSET Pair], netLost' \subseteq Pair,
           netLost \subseteq netLost', files' \in [Pair -> FileTexts],
           UNCHANGED <<profile, route, netRequests>>,
           \A q \in Threads \ {r} : netStale'[q] = netStale[q],
           \A q \in Threads \ {r} : S!Holds(q) => \A m \in Fresh(q)' :
              /\ files'[m].netdev \in {files[m].netdev, S!Text(netTh[q].snap[m], "netdev")}
              /\ files'[m].parent \in {files[m].parent, S!Text(netTh[q].snap[m], "parent")}
              /\ files'[m].network \in {files[m].network, S!Text(netTh[q].snap[m], "network")},
           S!Holds(r)' => Agree(r)' /\ Progress(r)',
           S!AppliedMatches'
    PROVE  StorageInv'
<1>1. StorageTypes /\ \A q \in Threads : S!Holds(q) => Agree(q) /\ Progress(q)
  BY DEF StorageInv
<1>2. /\ netTh'[r] = k /\ \A q \in Threads : q # r => netTh'[q] = netTh[q]
      /\ netTh' \in [Threads -> Appliers] /\ \A q \in Threads : Applier(netTh'[q])
  BY <1>1 DEF StorageTypes, Applier
<1>3. StorageTypes'
  <2>1. /\ profile \in [Pair -> S!Profiles \cup {NoProfile}] /\ route \in Parents \cup {NoRoute}
        /\ netRequests \in 0..MaxApplies
    BY <1>1, StorageVars
  <2>2. S!TypeOK'
    BY <1>2, <2>1, StorageTypesNext
  <2> QED
    BY <1>1, <1>2, <2>2 DEF StorageTypes
<1>4. ASSUME NEW q \in Threads, S!Holds(q)' PROVE Agree(q)' /\ Progress(q)'
  <2>1. CASE q = r
    BY <2>1, <1>4
  <2>2. CASE q # r
    <3>1. S!Holds(q) /\ netTh'[q] = netTh[q]
      BY <1>2, <1>4, <2>2 DEF S!Holds
    <3>2. \A m \in Fresh(q)' : m \in Fresh(q) /\ Same(profile[m], profile'[m])
      BY <2>2, SameSame DEF Fresh
    <3>3. Agree(q) /\ Progress(q)
      BY <1>1, <3>1
    <3> QED
      BY <1>1, <2>2, <3>1, <3>2, <3>3, OthersKeep
  <2> QED
    BY <2>1, <2>2
<1> QED
  BY <1>3, <1>4 DEF StorageInv

LEMMA ReadStep ==
    ASSUME StorageInv, NEW r \in Threads, S!ReadProfiles(r)
    PROVE  StorageInv'
<1>0. StorageTypes /\ Applier(netTh[r]) /\ \A m \in Pair : Proper(m, profile[m])
  BY DEF StorageInv, StorageTypes
<1>1. /\ netTh[r].pc = "apply" /\ netStale' = [netStale EXCEPT ![r] = {}]
      /\ UNCHANGED <<profile, files, route, netRequests, netLost>>
  BY DEF S!ReadProfiles, S!At
<1>2. PICK n \in Pair : n = netTh[r].name
  BY <1>0, <1>1 DEF Applier
<1>3. /\ netStale' \in [Threads -> SUBSET Pair] /\ netStale'[r] = {}
      /\ \A q \in Threads \ {r} : netStale'[q] = netStale[q]
      /\ netRequests' \in 0..MaxApplies
  BY <1>0, <1>1, StorageVars
<1>4. CASE profile[n] = NoProfile
  <2>1. S!Proceed(r)
    BY <1>2, <1>4 DEF S!ReadProfiles
  <2> QED
    BY <1>0, <1>1, <1>3, <2>1, ProceedKeeps, StorageMove
<1>5. CASE profile[n] # NoProfile
  <2>1. PICK pc : /\ pc = CASE profile[n].mode = "existing" -> "note"
                            [] profile[n].mode = "dedicated" -> "query"
                            [] OTHER -> "netdev"
                  /\ netTh' = [netTh EXCEPT ![r].snap = profile, ![r].pc = pc]
    BY <1>2, <1>5 DEF S!ReadProfiles
  <2>2. /\ pc \in {"note", "query", "netdev"}
        /\ pc = "note" => profile[n].mode = "existing"
        /\ pc = "query" => profile[n].mode = "dedicated"
        /\ pc = "netdev" => profile[n].mode = "vlan"
    <3>1. profile[n].mode \in {"existing", "vlan", "dedicated"}
      BY <1>0, <1>5 DEF Proper, S!Profiles
    <3> QED
      BY <2>1, <3>1
  <2> DEFINE k == [netTh[r] EXCEPT !.snap = profile, !.pc = pc]
  <2>3. netTh' = [netTh EXCEPT ![r] = k]
    BY <2>1, <1>0, StorageVars
  <2>4. k \in Appliers /\ k.pc = pc /\ k.name = n /\ k.snap = profile
    BY <1>0, <1>2, <2>2, StorageVars DEF Appliers, ApplierPcs, Applier
  <2> HIDE DEF k
  <2>5. Applier(k)
    BY <1>0, <1>5, <2>2, <2>4 DEF Applier
  <2>6. netTh'[r] = k
    BY <1>0, <2>3, StorageVars
  <2>7. Agree(r)'
    BY <1>1, <2>4, <2>6, SameSame DEF Agree, Fresh, StorageInv, S!AppliedMatches, S!Matches
  <2>8. Progress(r)'
    BY <2>2, <2>4, <2>6 DEF Progress
  <2>9. S!AppliedMatches'
    BY <1>1 DEF StorageInv, S!AppliedMatches, S!Matches
  <2>10. netLost' \subseteq Pair /\ netLost \subseteq netLost' /\ files' \in [Pair -> FileTexts]
    BY <1>0, <1>1, StorageVars
  <2>11. \A q \in Threads \ {r} : S!Holds(q) => \A m \in Fresh(q)' :
            /\ files'[m].netdev \in {files[m].netdev, S!Text(netTh[q].snap[m], "netdev")}
            /\ files'[m].parent \in {files[m].parent, S!Text(netTh[q].snap[m], "parent")}
            /\ files'[m].network \in {files[m].network, S!Text(netTh[q].snap[m], "network")}
    BY <1>1
  <2> QED
    BY <1>1, <1>3, <2>3, <2>5, <2>7, <2>8, <2>9, <2>10, <2>11, StorageWork
<1> QED
  BY <1>4, <1>5

LEMMA QueryStep ==
    ASSUME StorageInv, NEW r \in Threads, S!QueryRoute(r)
    PROVE  StorageInv'
<1>0. StorageTypes /\ Applier(netTh[r])
  BY DEF StorageInv, StorageTypes
<1>1. /\ netTh[r].pc = "query"
      /\ UNCHANGED <<profile, files, route, netRequests, netStale, netLost>>
      /\ S!Proceed(r) \/ netTh' = [netTh EXCEPT ![r].pc = "network"]
  BY DEF S!QueryRoute, S!At
<1>2. /\ netStale' \in [Threads -> SUBSET Pair] /\ netRequests' \in 0..MaxApplies
      /\ netLost' \subseteq Pair /\ files' \in [Pair -> FileTexts]
  BY <1>0, <1>1, StorageVars
<1>3. CASE S!Proceed(r)
  BY <1>0, <1>1, <1>2, <1>3, ProceedKeeps, StorageMove
<1>4. CASE netTh' = [netTh EXCEPT ![r].pc = "network"]
  <2> DEFINE k == [netTh[r] EXCEPT !.pc = "network"]
  <2>1. netTh' = [netTh EXCEPT ![r] = k]
    BY <1>4, <1>0, StorageVars
  <2>2. /\ k \in Appliers /\ k.pc = "network" /\ k.name = netTh[r].name
        /\ k.snap = netTh[r].snap
    BY <1>0 DEF Appliers, ApplierPcs, Applier
  <2> HIDE DEF k
  <2>3. Applier(k) /\ k.snap[k.name].mode = "dedicated"
    BY <1>0, <1>1, <2>2 DEF Applier
  <2>4. netTh'[r] = k
    BY <1>0, <2>1, StorageVars
  <2>5. Agree(r)'
    <3>1. Agree(r)
      BY <1>1 DEF StorageInv, S!Holds
    <3> QED
      BY <1>1, <2>2, <2>4, <3>1 DEF Agree, Fresh, S!Matches
  <2>6. Progress(r)'
    BY <2>2, <2>3, <2>4 DEF Progress
  <2>7. S!AppliedMatches'
    BY <1>1 DEF StorageInv, S!AppliedMatches, S!Matches
  <2>8. \A q \in Threads \ {r} : S!Holds(q) => \A m \in Fresh(q)' :
            /\ files'[m].netdev \in {files[m].netdev, S!Text(netTh[q].snap[m], "netdev")}
            /\ files'[m].parent \in {files[m].parent, S!Text(netTh[q].snap[m], "parent")}
            /\ files'[m].network \in {files[m].network, S!Text(netTh[q].snap[m], "network")}
    BY <1>1
  <2>9. netLost \subseteq netLost' /\ \A q \in Threads \ {r} : netStale'[q] = netStale[q]
    BY <1>1
  <2> QED
    BY <1>1, <1>2, <2>1, <2>3, <2>5, <2>6, <2>7, <2>8, <2>9, StorageWork
<1> QED
  BY <1>1, <1>3, <1>4

(* A file is written with the text every fresh copy of its network has, or  *)
(* its network is lost.                                                     *)
LEMMA WriteStep ==
    ASSUME StorageInv, NEW r \in Threads, NEW f \in {"netdev", "parent", "network"},
           S!WriteFile(r, f)
    PROVE  StorageInv'
<1>0. StorageTypes /\ Applier(netTh[r])
  BY DEF StorageInv, StorageTypes
<1>1. PICK n \in Pair : n = netTh[r].name
  BY <1>0 DEF Applier, S!WriteFile, S!At
<1>2. /\ netTh[r].pc = f /\ netTh' = [netTh EXCEPT ![r].pc = S!Then(f)]
      /\ files' = [files EXCEPT ![n][f] = S!Text(netTh[r].snap[n], f)]
      /\ netLost' = (IF n \in netStale[r] THEN netLost \cup {n} ELSE netLost)
      /\ UNCHANGED <<profile, route, netRequests, netStale>>
  BY <1>1 DEF S!WriteFile, S!At
<1>3. Agree(r) /\ Progress(r) /\ netTh[r].snap[n] # NoProfile
  BY <1>0, <1>1, <1>2 DEF StorageInv, S!Holds, Applier
<1>4. /\ netStale' \in [Threads -> SUBSET Pair] /\ netLost' \subseteq Pair
      /\ netLost \subseteq netLost'
  BY <1>0, <1>1, <1>2, StorageVars
<1>p. PICK p : p = netTh[r].snap[n]
  OBVIOUS
<1>k. PICK k : k = [netTh[r] EXCEPT !.pc = S!Then(f)]
  OBVIOUS
<1>5. /\ files' \in [Pair -> FileTexts]
      /\ \A m \in Pair \ {n} : files'[m] = files[m]
      /\ files'[n].netdev = (IF f = "netdev" THEN S!Text(p, f) ELSE files[n].netdev)
      /\ files'[n].parent = (IF f = "parent" THEN S!Text(p, f) ELSE files[n].parent)
      /\ files'[n].network = (IF f = "network" THEN S!Text(p, f) ELSE files[n].network)
  <2>1. PICK row : row = [files[n] EXCEPT ![f] = S!Text(p, f)]
    OBVIOUS
  <2>2. files' = [files EXCEPT ![n] = row]
    BY <1>2, <1>p, <2>1
  <2>3. /\ p \in S!Profiles /\ (p.mode = "vlan" => p.tag = "tag")
        /\ f # "network" => p.mode = "vlan"
    BY <1>0, <1>1, <1>2, <1>3, <1>p DEF Applier, Proper
  <2>4. files \in [Pair -> FileTexts]
    BY <1>0, StorageVars
  <2>5. /\ p.iface \in S!Interfaces /\ p.parent \in Parents /\ p.addr \in Addrs
        /\ f = "netdev" => p.tag = "tag"
    BY <2>3 DEF S!Profiles
  <2>6. files[n] \in FileTexts
    BY <2>4
  <2>7. CASE f = "netdev"
    <3>1. row = [files[n] EXCEPT !.netdev = <<p.iface, p.tag>>] /\ S!Text(p, f) = <<p.iface, p.tag>>
      BY <2>1, <2>7 DEF S!Text
    <3>2. /\ row \in FileTexts /\ row.netdev = S!Text(p, f)
          /\ row.parent = files[n].parent /\ row.network = files[n].network
      BY <2>5, <2>6, <2>7, <3>1 DEF FileTexts
    <3> QED
      BY <2>2, <2>4, <2>7, <3>2
  <2>8. CASE f = "parent"
    <3>1. row = [files[n] EXCEPT !.parent = <<p.parent, p.iface>>] /\ S!Text(p, f) = <<p.parent, p.iface>>
      BY <2>1, <2>8 DEF S!Text
    <3>2. /\ row \in FileTexts /\ row.parent = S!Text(p, f)
          /\ row.netdev = files[n].netdev /\ row.network = files[n].network
      BY <2>5, <2>6, <2>8, <3>1 DEF FileTexts
    <3> QED
      BY <2>2, <2>4, <2>8, <3>2
  <2>9. CASE f = "network"
    <3>1. row = [files[n] EXCEPT !.network = <<p.iface, p.addr>>] /\ S!Text(p, f) = <<p.iface, p.addr>>
      BY <2>1, <2>9 DEF S!Text
    <3>2. /\ row \in FileTexts /\ row.network = S!Text(p, f)
          /\ row.netdev = files[n].netdev /\ row.parent = files[n].parent
      BY <2>5, <2>6, <2>9, <3>1 DEF FileTexts
    <3> QED
      BY <2>2, <2>4, <2>9, <3>2
  <2> QED
    BY <2>7, <2>8, <2>9
<1>6. netTh' = [netTh EXCEPT ![r] = k]
  BY <1>0, <1>2, <1>k, StorageVars
<1>7. /\ k \in Appliers /\ k.name = n /\ k.snap = netTh[r].snap
      /\ f = "netdev" => k.pc = "parent"
      /\ f = "parent" => k.pc = "network"
      /\ f = "network" => k.pc = "restart"
  BY <1>0, <1>1, <1>k DEF Appliers, ApplierPcs, Applier, S!Then
<1>8. Applier(k) /\ (f # "network" => p.mode = "vlan")
  BY <1>0, <1>1, <1>2, <1>7, <1>p DEF Applier
<1>9. netTh'[r] = k
  BY <1>0, <1>6, StorageVars
<1>10. n \notin netLost' => n \in Fresh(r) /\ Same(p, profile[n])
  BY <1>2, <1>3, <1>p DEF Agree, Fresh
<1>11. ASSUME NEW q \in Threads \ {r}, S!Holds(q), NEW m \in Fresh(q)'
       PROVE  /\ files'[m].netdev \in {files[m].netdev, S!Text(netTh[q].snap[m], "netdev")}
              /\ files'[m].parent \in {files[m].parent, S!Text(netTh[q].snap[m], "parent")}
              /\ files'[m].network \in {files[m].network, S!Text(netTh[q].snap[m], "network")}
  <2>1. CASE m # n
    BY <1>5, <2>1 DEF Fresh
  <2>2. CASE m = n
    <3>1. n \notin netLost' /\ m \in Fresh(q)
      BY <1>2, <1>11, <1>4, <2>2 DEF Fresh
    <3>2. Same(netTh[q].snap[n], profile[n])
      BY <1>11, <2>2, <3>1 DEF StorageInv, Agree
    <3>3. S!Text(netTh[q].snap[n], f) = S!Text(p, f)
      BY <1>3, <1>10, <1>p, <3>1, <3>2 DEF Same, S!Text
    <3> QED
      BY <1>5, <2>2, <3>3
  <2> QED
    BY <2>1, <2>2
<1>12. ASSUME NEW m \in Pair \ netLost', NEW q, Same(q, profile[m]), q # NoProfile,
              MatchedBy(files[m], q)
       PROVE  MatchedBy(files'[m], q)
  <2>1. CASE m # n
    BY <1>5, <1>12, <2>1
  <2>2. CASE m = n
    <3>1. S!Text(p, f) = S!Text(q, f)
      BY <1>10, <1>12, <2>2 DEF Same, S!Text
    <3> QED
      BY <1>5, <1>12, <2>2, <3>1 DEF MatchedBy
  <2> QED
    BY <2>1, <2>2
<1>13. S!AppliedMatches'
  <2>1. ASSUME NEW m \in Pair \ netLost', profile[m] # NoProfile, profile[m].applied
        PROVE  MatchedBy(files'[m], profile[m])
    <3>1. MatchedBy(files[m], profile[m])
      BY <1>4, <2>1 DEF StorageInv, S!AppliedMatches, S!Matches, MatchedBy
    <3> QED
      BY <1>12, <2>1, <3>1, SameSame
  <2> QED
    BY <1>2, <2>1 DEF S!AppliedMatches, S!Matches, MatchedBy
<1>14. Agree(r)'
  <2>1. ASSUME NEW m \in Fresh(r)'
        PROVE  /\ Same(k.snap[m], profile[m])
               /\ k.snap[m] # NoProfile /\ k.snap[m].applied => MatchedBy(files'[m], k.snap[m])
    <3>1. m \in Fresh(r) /\ m \in Pair \ netLost'
      BY <1>2, <1>4, <2>1 DEF Fresh
    <3>2. /\ Same(k.snap[m], profile[m])
          /\ k.snap[m] # NoProfile /\ k.snap[m].applied => MatchedBy(files[m], k.snap[m])
      BY <1>3, <1>7, <3>1 DEF Agree, S!Matches, MatchedBy
    <3> QED
      BY <1>12, <3>1, <3>2
  <2> QED
    BY <1>2, <1>9, <2>1 DEF Agree, S!Matches, MatchedBy
<1>15. Progress(r)'
  <2>1. n \in Fresh(r)' => n \in Fresh(r)
    BY <1>2, <1>4 DEF Fresh
  <2>2. n \in Fresh(r) =>
          /\ f = "parent" => files[n].netdev = S!Text(p, "netdev")
          /\ f = "network" /\ p.mode = "vlan" =>
                files[n].netdev = S!Text(p, "netdev") /\ files[n].parent = S!Text(p, "parent")
    BY <1>1, <1>2, <1>3, <1>p DEF Progress
  <2>3. k.snap[n] = p
    BY <1>7, <1>p
  <2> QED
    BY <1>5, <1>7, <1>9, <2>1, <2>2, <2>3 DEF Progress, S!Matches, S!Text
<1> QED
  BY <1>2, <1>4, <1>5, <1>6, <1>8, <1>11, <1>13, <1>14, <1>15, StorageWork

(* The copy written back agrees with the profiles but for marks its network *)
(* or an earlier one has earned, or the name is lost.                       *)
LEMMA ApplyDoneStep ==
    ASSUME StorageInv, NEW r \in Threads, S!ApplyDone(r)
    PROVE  StorageInv'
<1>0. StorageTypes /\ Applier(netTh[r])
  BY DEF StorageInv, StorageTypes
<1>1. PICK n \in Pair : n = netTh[r].name
  BY <1>0 DEF Applier, S!ApplyDone
<1>a. PICK old : old = netTh[r].snap
  OBVIOUS
<1>2. /\ netTh[r].pc \in {"note", "restart"} /\ old[n] # NoProfile
      /\ profile' = [old EXCEPT ![n].applied = TRUE]
      /\ netLost' = netLost \cup netStale[r]
      /\ S!Overtake(r, netStale[r]) /\ S!Proceed(r) /\ UNCHANGED <<files, route, netRequests>>
  BY <1>0, <1>1, <1>a DEF S!ApplyDone, Applier
<1>3. /\ old \in [Pair -> S!Profiles \cup {NoProfile}] /\ \A m \in Pair : Proper(m, old[m])
      /\ old[n] \in S!Profiles
  BY <1>0, <1>2, <1>a DEF Applier, Appliers, Proper
<1>4. profile' = [old EXCEPT ![n] = [old[n] EXCEPT !.applied = TRUE]]
  BY <1>2, <1>3
<1>5. [old[n] EXCEPT !.applied = TRUE] \in S!Profiles
  BY <1>3 DEF S!Profiles
<1>6. /\ profile' \in [Pair -> S!Profiles \cup {NoProfile}]
      /\ \A m \in Pair : m # n => profile'[m] = old[m]
      /\ profile'[n] = [old[n] EXCEPT !.applied = TRUE]
  BY <1>3, <1>4, <1>5
<1>7. /\ profile'[n].mode = old[n].mode /\ profile'[n].iface = old[n].iface
      /\ profile'[n].parent = old[n].parent /\ profile'[n].tag = old[n].tag
      /\ profile'[n].addr = old[n].addr /\ profile'[n] # NoProfile
  <2>1. profile'[n] \in S!Profiles /\ NoProfile \notin S!Profiles
    BY <1>5, <1>6, InstancesAssumption DEF S!ConstantsAssumption
  <2> QED
    BY <1>3, <1>6, <2>1 DEF S!Profiles
<1>8. \A m \in Pair : Same(old[m], profile'[m])
  BY <1>2, <1>6, <1>7, SameSame DEF Same
<1>9. \A m \in Pair : Proper(m, profile'[m])
  <2>1. /\ old[n].iface = S!InterfaceName(n, old[n].mode, old[n].parent, old[n].tag)
        /\ old[n].mode = "vlan" => old[n].tag = "tag"
    BY <1>2, <1>3 DEF Proper
  <2>2. profile'[n] \in S!Profiles
    BY <1>5, <1>6
  <2>3. Proper(n, profile'[n])
    BY <1>7, <2>1, <2>2 DEF Proper
  <2> QED
    BY <1>3, <1>6, <2>3
<1>10. Agree(r) /\ Progress(r)
  BY <1>2 DEF StorageInv, S!Holds
<1>11. \A m \in Pair \ netLost' : m \in Fresh(r) /\ Same(old[m], profile[m])
  BY <1>2, <1>10, <1>a DEF Agree, Fresh
<1>12. S!AppliedMatches'
  <2>1. ASSUME NEW m \in Pair \ netLost', profile'[m] # NoProfile, profile'[m].applied
        PROVE  S!Matches(m, old[m])
    <3>1. CASE m # n
      BY <1>6, <1>10, <1>11, <1>a, <2>1, <3>1 DEF Agree
    <3>2. CASE m = n /\ netTh[r].pc = "restart"
      BY <1>1, <1>10, <1>11, <1>a, <2>1, <3>2 DEF Progress
    <3>3. CASE m = n /\ netTh[r].pc = "note"
      <4>1. old[n].mode = "existing"
        BY <1>0, <1>1, <1>a, <3>3 DEF Applier
      <4> QED
        BY <3>3, <4>1 DEF S!Matches
    <3> QED
      BY <1>2, <3>1, <3>2, <3>3
  <2>2. ASSUME NEW m \in Pair \ netLost', profile'[m] # NoProfile, profile'[m].applied
        PROVE  S!Matches(m, profile[m])'
    <3>1. S!Matches(m, old[m]) /\ Same(old[m], profile'[m]) /\ old[m] # NoProfile
      BY <1>8, <2>1, <2>2 DEF Same
    <3> QED
      BY <1>2, <3>1 DEF S!Matches, S!Text, Same
  <2> QED
    BY <2>2 DEF S!AppliedMatches
<1>13. /\ netStale' \in [Threads -> SUBSET Pair] /\ netLost' \subseteq Pair
       /\ netRequests' \in 0..MaxApplies
       /\ \A q \in Threads \ {r} : S!Holds(q) => netStale'[q] = netStale[q] \cup netStale[r]
  BY <1>0, <1>2, StorageVars DEF S!Overtake
<1>14. ASSUME NEW q \in Threads \ {r}, S!Holds(q), NEW m \in Fresh(q)'
       PROVE  m \in Fresh(q) /\ Same(profile[m], profile'[m])
  <2>1. m \in Fresh(q) /\ m \in Pair \ netLost'
    BY <1>2, <1>13, <1>14 DEF Fresh
  <2> QED
    BY <1>8, <1>11, <2>1 DEF Same
<1> QED
  BY <1>0, <1>2, <1>6, <1>9, <1>12, <1>13, <1>14, ProceedKeeps, StorageTurn

LEMMA FailStep ==
    ASSUME StorageInv, NEW r \in Threads, S!ApplyFails(r)
    PROVE  StorageInv'
<1>1. StorageTypes /\ S!Proceed(r) /\ UNCHANGED <<profile, files, route, netRequests, netStale, netLost>>
  BY DEF StorageInv, S!ApplyFails
<1>2. netStale' \in [Threads -> SUBSET Pair] /\ netRequests' \in 0..MaxApplies
  BY <1>1, StorageVars
<1> QED
  BY <1>1, <1>2, ProceedKeeps, StorageMove

LEMMA StorageStep == StorageInv /\ [S!Next]_(S!vars) => StorageInv'
<1> SUFFICES ASSUME StorageInv, [S!Next]_(S!vars) PROVE StorageInv'
  OBVIOUS
<1>1. CASE S!StorageNetworkRequests
  BY <1>1, StorageEdits, StorageStarts DEF S!StorageNetworkRequests
<1>2. CASE S!MoveRoute
  <2>1. /\ route' \in Parents \cup {NoRoute}
        /\ UNCHANGED <<profile, files, netTh, netRequests, netStale, netLost>>
    BY <1>2 DEF S!MoveRoute
  <2> QED
    BY <2>1 DEF StorageInv, StorageTypes, S!TypeOK, S!Holds, Agree, Progress, Fresh,
                S!AppliedMatches, S!Matches
<1>3. CASE S!AtlasDies
  <2>1. /\ netTh' = [r \in Threads |-> S!Idle]
        /\ UNCHANGED <<profile, files, route, netRequests, netStale, netLost>>
    BY <1>3 DEF S!AtlasDies
  <2>2. /\ netTh' \in [Threads -> Appliers] /\ \A r \in Threads : Applier(netTh'[r])
        /\ \A r \in Threads : netTh'[r].pc = "idle"
    BY <2>1, ApplierIdle DEF Applier
  <2>3. StorageTypes /\ S!AppliedMatches
    BY DEF StorageInv
  <2>4. S!TypeOK'
    BY <2>1, <2>2, <2>3, StorageVars, StorageTypesNext
  <2> QED
    BY <2>1, <2>2, <2>3, <2>4 DEF StorageInv, StorageTypes, S!Holds, S!AppliedMatches, S!Matches
<1>4. CASE UNCHANGED S!vars
  BY <1>4 DEF S!vars, StorageInv, StorageTypes, S!TypeOK, S!Holds, Agree, Progress, Fresh,
              S!AppliedMatches, S!Matches
<1> QED
  BY <1>1, <1>2, <1>3, <1>4, ReadStep, QueryStep, WriteStep, ApplyDoneStep, FailStep DEF S!Next

-----------------------------------------------------------------------------
(* The VLAN networks.                                                       *)

(* The record of a wired network names its parent and its bridge, that of a *)
(* VLAN its interface too: the one the tag gives it, if there is a tag.     *)
Good(r) ==
    /\ r.type \in {"vlan", "bridge"} => r.parent \in Parents /\ r.bridge \in Twins
    /\ r.type = "vlan" => /\ r.vif # NoVif
                          /\ r.tag # NoTag => r.vif = V!Vif(r.parent, r.tag)
    /\ r.type # "vlan" => r.vif = NoVif

Hosts == [bridges : SUBSET Twins, tagOf : [V!Vifs -> Pair \cup {NoTag}],
          master : [V!Ports -> Twins \cup {NoBridge}]]

(* Ports are on bridges there are, and a VLAN interface has the name its    *)
(* tag gives it.                                                            *)
Sound(h) ==
    /\ h \in Hosts
    /\ \A x \in V!Ports : h.master[x] # NoBridge =>
           h.master[x] \in h.bridges /\ (x \in V!Vifs => h.tagOf[x] # NoTag)
    /\ \A v \in V!Vifs : h.tagOf[v] # NoTag => v = V!Vif(v[1], h.tagOf[v])

Copies == [snap : [V!Networks -> V!Records \cup {NoRec}], todo : SUBSET V!Networks,
           failed : SUBSET V!Networks, clean : BOOLEAN, boot : BOOLEAN]

VlanTypes ==
    /\ meta \in [V!Networks -> V!Records \cup {NoRec}]
    /\ net \in [V!Networks -> [def : BOOLEAN, on : BOOLEAN, auto : BOOLEAN]]
    /\ recon \in Copies /\ long \subseteq Parents /\ requests \in 0..MaxRequests
    /\ orphans \subseteq V!Networks
    /\ \A n \in V!Networks : (meta[n] # NoRec => Good(meta[n]))
                          /\ (recon.snap[n] # NoRec => Good(recon.snap[n]))
    /\ Sound(host)

(* A reconciliation nobody interferes with has the records to come as they  *)
(* are, and those it has been through are wired.                            *)
Restoring ==
    recon.clean =>
       /\ \A n \in recon.todo : recon.snap[n] = meta[n]
       /\ \A n \in V!Networks \ (recon.todo \cup recon.failed) :
             V!Recorded(n) /\ V!Alone(n) => V!Wired(n)

(* Since the reboot nothing but records has made links.                     *)
FromRecords ==
    /\ \A x \in V!Ports : host.master[x] # NoBridge =>
          \E n \in V!Networks : V!Recorded(n) /\ V!Uplink(meta[n]) = x
                                /\ meta[n].bridge = host.master[x]
    /\ \A v \in V!Vifs : host.tagOf[v] # NoTag =>
          \E n \in V!Networks : /\ meta[n] # NoRec /\ meta[n].type = "vlan"
                                /\ meta[n].vif = v /\ meta[n].tag = host.tagOf[v]

Booting ==
    recon.boot =>
       /\ recon.clean /\ FromRecords
       /\ \A n \in V!Networks \ (recon.todo \cup recon.failed) :
             meta[n] # NoRec /\ meta[n].type = "vlan" => host.tagOf[meta[n].vif] # NoTag

VlanInv == VlanTypes /\ V!MetaBacked /\ Restoring /\ Booting

LEMMA VlanTypesFit == VlanTypes => V!TypeOK
<1> SUFFICES ASSUME VlanTypes PROVE V!TypeOK
  OBVIOUS
<1>1. ASSUME NEW n \in V!Networks, meta[n] # NoRec, meta[n].type = "vlan"
      PROVE  meta[n].vif # NoVif /\ meta[n].bridge # NoBridge
  BY <1>1, InstancesAssumption DEF VlanTypes, Good, V!ConstantsAssumption
<1> QED
  BY <1>1 DEF VlanTypes, Sound, Hosts, V!TypeOK

LEMMA VifShape ==
    ASSUME NEW p \in Parents, NEW t \in Pair
    PROVE  V!Vif(p, t) \in V!Vifs /\ V!Vif(p, t)[1] = p
  BY DEF V!Vif, V!Vifs

LEMMA VlanInit == V!Init => VlanInv
<1> SUFFICES ASSUME V!Init PROVE VlanInv
  OBVIOUS
<1>1. /\ meta = [n \in V!Networks |-> NoRec] /\ net = [n \in V!Networks |-> V!Undefined]
      /\ host = V!Bare /\ long \subseteq Parents /\ requests = 0 /\ orphans = {}
      /\ recon = [snap |-> meta, todo |-> {}, failed |-> {}, clean |-> FALSE, boot |-> FALSE]
  BY DEF V!Init
<1>2. Sound(V!Bare)
  BY DEF V!Bare, Sound, Hosts
<1>3. net \in [V!Networks -> [def : BOOLEAN, on : BOOLEAN, auto : BOOLEAN]]
  BY <1>1 DEF V!Undefined
<1>4. requests \in 0..MaxRequests
  BY <1>1, InstancesAssumption DEF V!ConstantsAssumption
<1>5. /\ recon \in Copies /\ recon.clean = FALSE /\ recon.boot = FALSE
      /\ \A n \in V!Networks : recon.snap[n] = NoRec /\ meta[n] = NoRec
  BY <1>1 DEF Copies
<1> QED
  BY <1>1, <1>2, <1>3, <1>4, <1>5 DEF VlanInv, VlanTypes, V!MetaBacked, Restoring, Booting

-----------------------------------------------------------------------------
(* What the calls of ip may leave.                                          *)

(* Port x, and nothing else, may have come to bridge b, with tag t if it is *)
(* a VLAN interface that had none; if all went well it has.                 *)
Wiring(o, x, b, t) ==
    /\ Sound(o.host)
    /\ \A y \in V!Ports : y # x => o.host.master[y] = host.master[y]
    /\ o.host.master[x] \in {host.master[x], b}
    /\ \A w \in V!Vifs : \/ o.host.tagOf[w] = host.tagOf[w]
                         \/ w = x /\ t # NoTag /\ o.host.tagOf[w] = t
    /\ o.ok => o.host.master[x] = b /\ (x \in V!Vifs => o.host.tagOf[x] # NoTag)

LEMMA Untouched ==
    ASSUME Sound(host), NEW x, NEW b, NEW t
    PROVE  Wiring(V!Failed(host), x, b, t)
  BY DEF Wiring, V!Failed

LEMMA CallsWire ==
    ASSUME Sound(host), NEW v \in V!Vifs, NEW b \in Twins, NEW t \in Pair \cup {NoTag},
           t # NoTag => v = V!Vif(v[1], t),
           host.tagOf[v] = NoTag => t # NoTag,
           NEW o \in V!Calls(v, t, b)
    PROVE  Wiring(o, v, b, t)
<1> DEFINE h1 == V!AddVif(host, v, t)
           h2 == V!AddBridge(h1, b)
           h3 == V!Enslave(h2, v, b)
<1>0. v \in V!Ports /\ b # NoBridge
  BY InstancesAssumption DEF V!Ports, V!ConstantsAssumption
<1>1. /\ h1 \in Hosts /\ h1.bridges = host.bridges /\ h1.master = host.master
      /\ h1.tagOf[v] = (IF host.tagOf[v] = NoTag THEN t ELSE host.tagOf[v])
      /\ \A w \in V!Vifs : w # v => h1.tagOf[w] = host.tagOf[w]
  BY DEF V!AddVif, Sound, Hosts
<1> HIDE DEF h1
<1>2. /\ h2 \in Hosts /\ h2.bridges = h1.bridges \cup {b} /\ h2.master = h1.master
      /\ h2.tagOf = h1.tagOf
  BY <1>1 DEF V!AddBridge, Hosts
<1> HIDE DEF h2
<1>3. /\ h3 \in Hosts /\ h3.bridges = h2.bridges /\ h3.master[v] = b
      /\ h3.tagOf = h2.tagOf
      /\ \A x \in V!Ports : x # v => h3.master[x] = h2.master[x]
  BY <1>0, <1>2 DEF V!Enslave, Hosts
<1> HIDE DEF h3
<1>4. h1.tagOf[v] # NoTag /\ v = V!Vif(v[1], h1.tagOf[v])
  BY <1>1 DEF Sound
<1>5. /\ Sound(h1)
      /\ \A w \in V!Vifs : \/ h1.tagOf[w] = host.tagOf[w]
                           \/ w = v /\ t # NoTag /\ h1.tagOf[w] = t
  BY <1>1, <1>4 DEF Sound
<1>6. Sound(h2)
  BY <1>2, <1>5 DEF Sound
<1>7. Sound(h3)
  BY <1>0, <1>2, <1>3, <1>4, <1>6 DEF Sound
<1>8. /\ o.host \in {host, h1, h2, h3} /\ (o.ok => o.host = h3)
  BY DEF V!Calls, V!Outcomes, V!Done, V!Failed, h1, h2, h3
<1> QED
  BY <1>0, <1>1, <1>2, <1>3, <1>4, <1>5, <1>6, <1>7, <1>8 DEF Wiring

LEMMA ParentWires ==
    ASSUME Sound(host), NEW p \in Parents, NEW b \in Twins, NEW t,
           NEW o \in V!EnsureParent(p, b)
    PROVE  Wiring(o, p, b, t)
<1> DEFINE h1 == V!AddBridge(host, b)
           h2 == V!Enslave(h1, p, b)
<1>0. p \in V!Ports /\ p \notin V!Vifs /\ b # NoBridge
  BY InstancesAssumption DEF V!Ports, V!ConstantsAssumption
<1>1. /\ h1 \in Hosts /\ h1.bridges = host.bridges \cup {b} /\ h1.master = host.master
      /\ h1.tagOf = host.tagOf
  BY DEF V!AddBridge, Sound, Hosts
<1> HIDE DEF h1
<1>2. /\ h2 \in Hosts /\ h2.bridges = h1.bridges /\ h2.master[p] = b
      /\ h2.tagOf = h1.tagOf
      /\ \A x \in V!Ports : x # p => h2.master[x] = h1.master[x]
  BY <1>0, <1>1 DEF V!Enslave, Hosts
<1> HIDE DEF h2
<1>3. Sound(h1)
  BY <1>1 DEF Sound
<1>4. Sound(h2)
  BY <1>0, <1>1, <1>2, <1>3 DEF Sound
<1>5. CASE p \notin Present
  BY <1>5, Untouched DEF V!EnsureParent
<1>6. CASE p \in Present
  <2>1. /\ o.host \in {host, h1, h2} /\ (o.ok => o.host = h2)
    BY <1>6 DEF V!EnsureParent, V!Outcomes, V!Done, V!Failed, h1, h2
  <2> QED
    BY <1>0, <1>1, <1>2, <1>3, <1>4, <2>1 DEF Wiring
<1> QED
  BY <1>5, <1>6

LEMMA VlanWires ==
    ASSUME Sound(host), NEW p \in Parents, NEW b \in Twins, NEW t \in Pair \cup {NoTag},
           NEW o \in V!EnsureVlan(p, t, b)
    PROVE  Wiring(o, V!Vif(p, t), b, t)
<1>1. CASE p \notin Present \/ t = NoTag
  BY <1>1, Untouched DEF V!EnsureVlan
<1>2. CASE ~(p \notin Present \/ t = NoTag)
  BY <1>2, CallsWire, VifShape DEF V!EnsureVlan
<1> QED
  BY <1>1, <1>2

(* The wiring of a record at the request of an operator, ...                *)
LEMMA WireNewSound ==
    ASSUME Sound(host), NEW r \in V!Records, Good(r), NEW o \in V!WireNew(r)
    PROVE  Sound(o.host)
<1>1. CASE r.type = "vlan"
  BY <1>1, VlanWires DEF V!WireNew, Good, Wiring, V!Records
<1>2. CASE r.type = "bridge"
  BY <1>2, ParentWires DEF V!WireNew, Good, Wiring
<1>3. CASE r.type \notin {"vlan", "bridge"}
  BY <1>3 DEF V!WireNew, V!Done
<1> QED
  BY <1>1, <1>2, <1>3

(* ... and by the reconciliation, which never finds another interface with  *)
(* the record's parent and tag than the record's own.                       *)
LEMMA RewireWires ==
    ASSUME Sound(host), NEW r \in V!Records, Good(r), r.type \in {"vlan", "bridge"},
           NEW o \in V!Rewire(r)
    PROVE  Wiring(o, V!Uplink(r), r.bridge, r.tag)
<1>0. r # NoRec
  BY InstancesAssumption DEF V!ConstantsAssumption
<1>1. CASE r.type = "bridge"
  BY <1>0, <1>1, ParentWires DEF V!Rewire, Good, V!Uplink
<1>2. CASE r.type = "vlan"
  <2> DEFINE same == {v \in V!Vifs : v[1] = r.parent /\ r.tag # NoTag /\ host.tagOf[v] = r.tag}
             vif  == IF host.tagOf[r.vif] = NoTag /\ same # {} THEN CHOOSE v \in same : TRUE
                     ELSE r.vif
  <2>1. /\ r.parent \in Parents /\ r.bridge \in Twins /\ r.vif \in V!Vifs
        /\ r.tag \in Pair \cup {NoTag}
        /\ r.tag # NoTag => r.vif = V!Vif(r.parent, r.tag)
    BY <1>2 DEF Good, V!Records
  <2>2. \A v \in same : v = r.vif /\ host.tagOf[v] # NoTag
    BY <2>1 DEF Sound
  <2>3. vif = r.vif
    BY <2>2
  <2>4. o \in V!ReconcileVlan(r)
    BY <1>0, <1>2 DEF V!Rewire
  <2>5. V!ReconcileVlan(r) = IF r.parent \notin Present \/ (r.tag = NoTag /\ host.tagOf[vif] = NoTag)
                             THEN {V!Failed(host)}
                             ELSE V!Calls(vif, r.tag, r.bridge)
    BY DEF V!ReconcileVlan
  <2> HIDE DEF vif
  <2>6. CASE r.parent \notin Present \/ (r.tag = NoTag /\ host.tagOf[r.vif] = NoTag)
    BY <2>3, <2>4, <2>5, <2>6, Untouched
  <2>7. CASE ~(r.parent \notin Present \/ (r.tag = NoTag /\ host.tagOf[r.vif] = NoTag))
    <3>1. o \in V!Calls(r.vif, r.tag, r.bridge) /\ (host.tagOf[r.vif] = NoTag => r.tag # NoTag)
      BY <2>3, <2>4, <2>5, <2>7
    <3>2. r.tag # NoTag => r.vif = V!Vif(r.vif[1], r.tag)
      BY <2>1, VifShape
    <3>3. Wiring(o, r.vif, r.bridge, r.tag)
      BY <2>1, <3>1, <3>2, CallsWire
    <3> QED
      BY <1>2, <3>3 DEF V!Uplink
  <2> QED
    BY <2>6, <2>7
<1> QED
  BY <1>1, <1>2

-----------------------------------------------------------------------------
(* The requests.                                                            *)

Known == [def : BOOLEAN, on : BOOLEAN, auto : BOOLEAN]

LEMMA TypesOfVlans ==
    ASSUME VlanInv
    PROVE  /\ meta \in [V!Networks -> V!Records \cup {NoRec}]
           /\ net \in [V!Networks -> Known] /\ recon \in Copies
           /\ requests \in Nat /\ Sound(host) /\ NoRec \notin V!Records
           /\ orphans \subseteq V!Networks
           /\ \A n \in V!Networks :
                 (meta[n] # NoRec => Good(meta[n]) /\ (n \notin orphans => net[n].def))
  BY InstancesAssumption DEF VlanInv, VlanTypes, Known, V!MetaBacked, V!ConstantsAssumption

(* A request leaves records of networks there are and links that fit.       *)
LEMMA RequestKeeps ==
    ASSUME VlanInv, V!Request, V!Touch,
           meta' \in [V!Networks -> V!Records \cup {NoRec}],
           net' \in [V!Networks -> Known], Sound(host'), orphans' \subseteq V!Networks,
           \A n \in V!Networks :
              meta'[n] # NoRec => Good(meta'[n]) /\ (n \notin orphans' => net'[n].def)
    PROVE  VlanInv'
<1>1. /\ long' = long /\ requests' \in 0..MaxRequests
  BY InstancesAssumption DEF V!Request, VlanInv, VlanTypes, V!ConstantsAssumption
<1>2. /\ recon' \in Copies /\ recon'.clean = FALSE /\ recon'.boot = FALSE
      /\ recon'.snap = recon.snap
  BY DEF V!Touch, VlanInv, VlanTypes, Copies
<1>3. Sound(host)'
  BY <1>1 DEF Sound, V!Vif
<1>4. \A r : Good(r) => Good(r)'
  BY <1>1 DEF Good, V!Vif
<1>5. \A n \in V!Networks : (meta'[n] # NoRec => Good(meta[n])')
                         /\ (recon'.snap[n] # NoRec => Good(recon.snap[n])')
  BY <1>1, <1>2 DEF VlanInv, VlanTypes, Good, V!Vif
<1>6. VlanTypes'
  BY <1>1, <1>2, <1>3, <1>5 DEF VlanInv, VlanTypes, Known
<1> QED
  BY <1>2, <1>6 DEF VlanInv, V!MetaBacked, Restoring, Booting

(* What the form of a new network says is a good record.                    *)
LEMMA NewRecordsGood ==
    ASSUME long \subseteq Parents, NEW r \in V!NewRecords
    PROVE  r \in V!Records /\ Good(r)
<1>0. NoVif \notin V!Vifs
  BY InstancesAssumption DEF V!ConstantsAssumption
<1>1. \A p \in Parents, b \in Twins, t \in Pair :
         V!VlanRecord(p, b, t) \in V!Records /\ Good(V!VlanRecord(p, b, t))
  BY <1>0, VifShape DEF V!Records, V!VlanRecord, Good
<1>2. \A p \in Parents, b \in Twins :
         V!BridgeRecord(p, b) \in V!Records /\ Good(V!BridgeRecord(p, b))
  BY DEF V!Records, V!Blank, V!BridgeRecord, Good
<1>3. \A b \in Twins : V!PlainRecord(b) \in V!Records /\ Good(V!PlainRecord(b))
  BY DEF V!Records, V!Blank, V!PlainRecord, Good
<1> QED
  BY <1>1, <1>2, <1>3 DEF V!NewRecords

(* A write that fails leaves no record that was not there.                  *)
LEMMA UnsavedKeeps ==
    ASSUME VlanInv, V!Unsaved
    PROVE  /\ meta' \in [V!Networks -> V!Records \cup {NoRec}]
           /\ \A m \in V!Networks : meta'[m] # NoRec => meta'[m] = meta[m]
<1>1. meta' = meta \/ meta' = [m \in V!Networks |-> NoRec]
  BY DEF V!Unsaved
<1> QED
  BY <1>1, TypesOfVlans

LEMMA CreateStep ==
    ASSUME VlanInv, NEW n \in V!Networks, NEW r \in V!NewRecords,
           NEW auto \in BOOLEAN, NEW start \in BOOLEAN, V!CreateNetwork(n, r, auto, start)
    PROVE  VlanInv'
<1>1. r \in V!Records /\ Good(r)
  BY NewRecordsGood DEF VlanInv, VlanTypes
<1>2. PICK o \in V!WireNew(r) :
         /\ host' = o.host
         /\ \/ UNCHANGED <<meta, net, orphans>>
            \/ /\ net' = [net EXCEPT ![n] = [def |-> TRUE, on |-> start, auto |-> auto]]
               /\ meta' = [meta EXCEPT ![n] = r] \/ V!Unsaved
               /\ orphans' = orphans \ {n}
            \/ /\ \E a \in {FALSE, auto /\ start} :
                    net' = [net EXCEPT ![n] = [def |-> TRUE, on |-> FALSE, auto |-> a]]
               /\ UNCHANGED meta /\ orphans' = orphans \ {n}
  BY DEF V!CreateNetwork
<1>3. Sound(host')
  BY <1>1, <1>2, TypesOfVlans, WireNewSound
<1>4. ASSUME NEW k \in Known, k.def, net' = [net EXCEPT ![n] = k],
             orphans' = orphans \ {n},
             meta' = [meta EXCEPT ![n] = r] \/ V!Unsaved \/ UNCHANGED meta
      PROVE  VlanInv'
  <2>1. /\ net' \in [V!Networks -> Known] /\ net'[n].def
        /\ \A m \in V!Networks : m # n => net'[m] = net[m]
    BY <1>4, TypesOfVlans
  <2>2. /\ meta' \in [V!Networks -> V!Records \cup {NoRec}]
        /\ meta'[n] # NoRec => Good(meta'[n])
        /\ \A m \in V!Networks : m # n /\ meta'[m] # NoRec => meta'[m] = meta[m]
    BY <1>1, <1>4, TypesOfVlans, UnsavedKeeps
  <2>3. orphans' \subseteq V!Networks
    BY <1>4, TypesOfVlans
  <2>4. \A m \in V!Networks :
           meta'[m] # NoRec => Good(meta'[m]) /\ (m \notin orphans' => net'[m].def)
    BY <1>4, <2>1, <2>2, TypesOfVlans
  <2> QED
    BY <1>3, <2>1, <2>2, <2>3, <2>4, RequestKeeps DEF V!CreateNetwork
<1>5. CASE UNCHANGED <<meta, net, orphans>>
  BY <1>3, <1>5, TypesOfVlans, RequestKeeps DEF V!CreateNetwork
<1>6. /\ [def |-> TRUE, on |-> start, auto |-> auto] \in Known
      /\ \A a \in BOOLEAN : [def |-> TRUE, on |-> FALSE, auto |-> a] \in Known
  BY DEF Known
<1> QED
  BY <1>2, <1>4, <1>5, <1>6

LEMMA MergedGood ==
    ASSUME VlanInv, NEW n \in V!Networks, NEW t \in Pair \cup {NoTag},
           NEW p \in Parents \cup {NoParent}, NEW b \in Twins \cup {NoBridge}
    PROVE  LET r == V!Merged(n, t, p, b) IN
           /\ r \in V!Records
           /\ r.type = "vlan" => /\ r.parent \in Parents /\ r.bridge \in Twins
                                 /\ (t = NoTag => Good(r))
                                 /\ (t # NoTag => Good([r EXCEPT !.vif = V!Vif(r.parent, t)])
                                       /\ [r EXCEPT !.vif = V!Vif(r.parent, t)] \in V!Records)
           /\ r.type # "vlan" => Good(r)
<1> DEFINE cur == IF meta[n] = NoRec THEN V!Blank ELSE meta[n]
           r == V!Merged(n, t, p, b)
           q == [r EXCEPT !.vif = V!Vif(r.parent, t)]
<1>0. NoVif \notin V!Vifs
  BY InstancesAssumption DEF V!ConstantsAssumption
<1>1. cur \in V!Records /\ Good(cur)
  <2>1. CASE meta[n] = NoRec
    BY <2>1 DEF V!Records, V!Blank, Good
  <2>2. CASE meta[n] # NoRec
    BY <2>2, TypesOfVlans
  <2> QED
    BY <2>1, <2>2
<1> HIDE DEF cur
<1>2. r = [cur EXCEPT !.tag = t, !.parent = IF p = NoParent THEN @ ELSE p,
                      !.bridge = IF b = NoBridge THEN @ ELSE b]
  BY DEF V!Merged, cur
<1> HIDE DEF r
<1>3. /\ r \in V!Records /\ r.type = cur.type /\ r.tag = t /\ r.vif = cur.vif
      /\ r.parent = (IF p = NoParent THEN cur.parent ELSE p)
      /\ r.bridge = (IF b = NoBridge THEN cur.bridge ELSE b)
  BY <1>1, <1>2 DEF V!Records
<1>4. r.type \in {"vlan", "bridge"} => r.parent \in Parents /\ r.bridge \in Twins
  BY <1>1, <1>3 DEF Good
<1>5. r.type # "vlan" \/ t = NoTag => Good(r)
  BY <1>1, <1>3, <1>4 DEF Good
<1>6. ASSUME r.type = "vlan", t # NoTag PROVE q \in V!Records /\ Good(q)
  <2>1. V!Vif(r.parent, t) \in V!Vifs
    BY <1>4, <1>6, VifShape
  <2>2. /\ q \in V!Records /\ q.vif = V!Vif(r.parent, t) /\ q.type = r.type
        /\ q.parent = r.parent /\ q.tag = t /\ q.bridge = r.bridge
    BY <1>3, <2>1 DEF V!Records
  <2> QED
    BY <1>0, <1>4, <1>6, <2>1, <2>2 DEF Good
<1>7. /\ r \in V!Records
      /\ r.type = "vlan" => /\ r.parent \in Parents /\ r.bridge \in Twins
                            /\ (t = NoTag => Good(r))
                            /\ (t # NoTag => Good(q) /\ q \in V!Records)
      /\ r.type # "vlan" => Good(r)
  BY <1>3, <1>4, <1>5, <1>6
<1> QED
  BY <1>7 DEF r

LEMMA SetAutoKeeps ==
    ASSUME VlanInv, NEW n \in V!Networks, NEW auto \in BOOLEAN, V!SetAuto(n, auto)
    PROVE  net' \in [V!Networks -> Known] /\ \A m \in V!Networks : net'[m].def = net[m].def
<1>1. net \in [V!Networks -> Known] /\ net[n] \in Known
  BY TypesOfVlans
<1>2. [net[n] EXCEPT !.auto = auto] \in Known /\ [net[n] EXCEPT !.auto = auto].def = net[n].def
  BY <1>1 DEF Known
<1>3. net' = [net EXCEPT ![n] = [net[n] EXCEPT !.auto = auto]] \/ net' = net
  BY <1>1 DEF V!SetAuto
<1> QED
  BY <1>1, <1>2, <1>3

LEMMA EditStep ==
    ASSUME VlanInv, NEW n \in V!Networks, NEW t \in Pair \cup {NoTag},
           NEW p \in Parents \cup {NoParent}, NEW b \in Twins \cup {NoBridge},
           NEW auto \in BOOLEAN, V!EditNetwork(n, t, p, b, auto)
    PROVE  VlanInv'
<1> DEFINE r == V!Merged(n, t, p, b)
           q == [r EXCEPT !.vif = V!Vif(r.parent, t)]
<1>0. V!Request /\ V!Touch /\ net[n].def /\ UNCHANGED orphans
  BY DEF V!EditNetwork
<1>1. /\ r \in V!Records
      /\ r.type = "vlan" => /\ r.parent \in Parents /\ r.bridge \in Twins
                            /\ (t = NoTag => Good(r)) /\ (t # NoTag => Good(q) /\ q \in V!Records)
      /\ r.type # "vlan" => Good(r)
  BY MergedGood
<1>2. \/ /\ t # NoTag /\ r.type = "vlan"
         /\ \E o \in V!EnsureVlan(r.parent, t, r.bridge) :
              /\ host' = o.host
              /\ \/ meta' = [meta EXCEPT ![n] = q] /\ V!SetAuto(n, auto)
                 \/ V!Unsaved /\ UNCHANGED net
                 \/ UNCHANGED <<meta, net>>
      \/ /\ ~(t # NoTag /\ r.type = "vlan")
         /\ \/ meta' = [meta EXCEPT ![n] = r] /\ V!SetAuto(n, auto)
            \/ V!Unsaved /\ UNCHANGED net
         /\ UNCHANGED host
  BY DEF V!EditNetwork
<1> HIDE DEF r, q
<1>3. ASSUME NEW k \in V!Records, Good(k), meta' = [meta EXCEPT ![n] = k],
             V!SetAuto(n, auto), Sound(host')
      PROVE  VlanInv'
  <2>1. /\ meta' \in [V!Networks -> V!Records \cup {NoRec}] /\ meta'[n] = k
        /\ \A m \in V!Networks : m # n => meta'[m] = meta[m]
    BY <1>3, TypesOfVlans
  <2>2. \A m \in V!Networks :
           meta'[m] # NoRec => Good(meta'[m]) /\ (m \notin orphans' => net'[m].def)
    BY <1>0, <1>3, <2>1, TypesOfVlans, SetAutoKeeps
  <2> QED
    BY <1>0, <1>3, <2>1, <2>2, TypesOfVlans, SetAutoKeeps, RequestKeeps
<1>4. ASSUME UNCHANGED meta \/ V!Unsaved, UNCHANGED net, Sound(host')
      PROVE  VlanInv'
  <2>1. /\ meta' \in [V!Networks -> V!Records \cup {NoRec}]
        /\ \A m \in V!Networks : meta'[m] # NoRec => meta'[m] = meta[m]
    BY <1>4, TypesOfVlans, UnsavedKeeps
  <2>2. \A m \in V!Networks :
           meta'[m] # NoRec => Good(meta'[m]) /\ (m \notin orphans' => net'[m].def)
    BY <1>0, <1>4, <2>1, TypesOfVlans
  <2> QED
    BY <1>0, <1>4, <2>1, <2>2, TypesOfVlans, RequestKeeps
<1>5. \A o \in V!EnsureVlan(r.parent, t, r.bridge) : r.type = "vlan" => Sound(o.host)
  BY <1>1, TypesOfVlans, VlanWires DEF Wiring
<1> QED
  BY <1>1, <1>2, <1>3, <1>4, <1>5, TypesOfVlans

LEMMA SwitchSteps ==
    ASSUME VlanInv, NEW n \in V!Networks,
           \/ V!StartNetwork(n) \/ V!StopNetwork(n)
           \/ \E auto \in BOOLEAN : V!AutostartNetwork(n, auto)
    PROVE  VlanInv'
<1>1. V!Request /\ V!Touch /\ UNCHANGED <<meta, orphans>>
  BY DEF V!StartNetwork, V!StopNetwork, V!AutostartNetwork
<1>2. Sound(host')
  <2>1. CASE V!StartNetwork(n)
    <3>1. PICK o \in (IF meta[n] = NoRec THEN {V!Done(host)} ELSE V!WireNew(meta[n])) :
             host' = o.host
      BY <2>1 DEF V!StartNetwork
    <3>2. CASE meta[n] = NoRec
      BY <3>1, <3>2, TypesOfVlans DEF V!Done
    <3>3. CASE meta[n] # NoRec
      BY <3>1, <3>3, TypesOfVlans, WireNewSound
    <3> QED
      BY <3>2, <3>3
  <2> QED
    BY <2>1, TypesOfVlans DEF V!StopNetwork, V!AutostartNetwork
<1>3. /\ net' \in [V!Networks -> Known]
      /\ \A m \in V!Networks : net'[m].def = net[m].def
  <2>1. net \in [V!Networks -> Known] /\ net[n] \in Known
    BY TypesOfVlans
  <2>2. ASSUME NEW value \in BOOLEAN
        PROVE  /\ [net[n] EXCEPT !.on = value] \in Known
               /\ [net[n] EXCEPT !.on = value].def = net[n].def
               /\ [net[n] EXCEPT !.auto = value] \in Known
               /\ [net[n] EXCEPT !.auto = value].def = net[n].def
    BY <2>1 DEF Known
  <2>3. \/ net' = net
        \/ \E value \in BOOLEAN : \/ net' = [net EXCEPT ![n] = [net[n] EXCEPT !.on = value]]
                                  \/ net' = [net EXCEPT ![n] = [net[n] EXCEPT !.auto = value]]
    BY <2>1 DEF V!StartNetwork, V!StopNetwork, V!AutostartNetwork
  <2> QED
    BY <2>1, <2>2, <2>3
<1> QED
  BY <1>1, <1>2, <1>3, TypesOfVlans, RequestKeeps

(* Links that go leave the others as they were.                             *)
LEMMA DropSound ==
    ASSUME Sound(host), NEW links
    PROVE  Sound(V!DropLinks(host, links))
<1> DEFINE h == V!DropLinks(host, links)
<1>1. /\ h.bridges = host.bridges \ links
      /\ h.tagOf = [v \in V!Vifs |-> IF v \in links THEN NoTag ELSE host.tagOf[v]]
      /\ h.master = [x \in V!Ports |-> IF x \in links \/ host.master[x] \in links THEN NoBridge
                                       ELSE host.master[x]]
      /\ h = [bridges |-> h.bridges, tagOf |-> h.tagOf, master |-> h.master]
  BY DEF V!DropLinks
<1> HIDE DEF h
<1>2. h \in Hosts
  <2>1. /\ h.bridges \in SUBSET Twins /\ h.tagOf \in [V!Vifs -> Pair \cup {NoTag}]
        /\ h.master \in [V!Ports -> Twins \cup {NoBridge}]
    BY <1>1 DEF Sound, Hosts
  <2> QED
    BY <1>1, <2>1 DEF Hosts
<1>3. Sound(h)
  BY <1>1, <1>2 DEF Sound
<1> QED
  BY <1>3 DEF h

LEMMA DeleteStep ==
    ASSUME VlanInv, NEW n \in V!Networks, V!DeleteNetwork(n)
    PROVE  VlanInv'
<1>1. V!Request /\ V!Touch
  BY DEF V!DeleteNetwork
<1>2. ASSUME net' = [net EXCEPT ![n] = V!Undefined], Sound(host'),
             \/ meta' = [meta EXCEPT ![n] = NoRec] /\ UNCHANGED orphans
             \/ V!Unsaved /\ orphans' = orphans \cup {n}
      PROVE  VlanInv'
  <2>1. V!Undefined \in Known
    BY DEF V!Undefined, Known
  <2>2. /\ net' \in [V!Networks -> Known]
        /\ \A m \in V!Networks : m # n => net'[m] = net[m]
    BY <1>2, <2>1, TypesOfVlans
  <2>3. /\ meta' \in [V!Networks -> V!Records \cup {NoRec}]
        /\ \A m \in V!Networks : meta'[m] # NoRec => meta'[m] = meta[m]
        /\ meta'[n] = NoRec \/ n \in orphans'
    BY <1>2, TypesOfVlans, UnsavedKeeps
  <2>4. orphans' \subseteq V!Networks /\ orphans \subseteq orphans'
    BY <1>2, TypesOfVlans
  <2>5. \A m \in V!Networks :
           meta'[m] # NoRec => Good(meta'[m]) /\ (m \notin orphans' => net'[m].def)
    BY <2>2, <2>3, <2>4, TypesOfVlans
  <2> QED
    BY <1>1, <1>2, <2>2, <2>3, <2>4, <2>5, RequestKeeps
<1>3. CASE net' \in {net, [net EXCEPT ![n].on = FALSE]} /\ UNCHANGED <<meta, host, orphans>>
  <2>1. net \in [V!Networks -> Known] /\ net[n] \in Known
    BY TypesOfVlans
  <2>2. /\ [net[n] EXCEPT !.on = FALSE] \in Known
        /\ [net[n] EXCEPT !.on = FALSE].def = net[n].def
    BY <2>1 DEF Known
  <2>3. net' = net \/ net' = [net EXCEPT ![n] = [net[n] EXCEPT !.on = FALSE]]
    BY <1>3, <2>1
  <2>4. net' \in [V!Networks -> Known] /\ \A m \in V!Networks : net'[m].def = net[m].def
    BY <2>1, <2>2, <2>3
  <2> QED
    BY <1>1, <1>3, <2>4, TypesOfVlans, RequestKeeps
<1>4. Sound(host) /\ \A links : Sound(V!DropLinks(host, links))
  BY TypesOfVlans, DropSound
<1> QED
  BY <1>2, <1>3, <1>4 DEF V!DeleteNetwork

-----------------------------------------------------------------------------
(* Reboots and reconciliations.                                             *)

LEMMA ReconcileStarts ==
    ASSUME VlanInv, V!Reboot \/ V!ReconcileAll
    PROVE  VlanInv'
<1>1. PICK boot \in BOOLEAN :
         /\ recon' = V!Reconciliation(boot) /\ UNCHANGED <<meta, long, orphans>>
         /\ (boot => host' = V!Bare) /\ (~boot => UNCHANGED host)
  BY DEF V!Reboot, V!ReconcileAll, V!Request
<1>2. /\ recon' \in Copies /\ recon'.snap = meta /\ recon'.todo = V!Networks
      /\ recon'.clean = TRUE /\ recon'.boot = boot
  BY <1>1, TypesOfVlans DEF V!Reconciliation, Copies
<1>3. Sound(host')
  <2>1. Sound(V!Bare)
    BY DEF V!Bare, Sound, Hosts
  <2> QED
    BY <1>1, <2>1, TypesOfVlans
<1>4. net' \in [V!Networks -> Known] /\ \A n \in V!Networks : net'[n].def = net[n].def
  <2>1. net \in [V!Networks -> Known]
    BY TypesOfVlans
  <2>2. CASE V!ReconcileAll
    BY <2>1, <2>2 DEF V!ReconcileAll
  <2>3. CASE V!Reboot
    <3>1. ASSUME NEW n \in V!Networks
          PROVE  /\ [net[n] EXCEPT !.on = net[n].def /\ net[n].auto] \in Known
                 /\ [net[n] EXCEPT !.on = net[n].def /\ net[n].auto].def = net[n].def
      BY <2>1 DEF Known
    <3> QED
      BY <2>3, <3>1 DEF V!Reboot
  <2> QED
    BY <2>2, <2>3
<1>5. requests' \in 0..MaxRequests
  <2>1. requests < MaxRequests /\ requests' = requests + 1
    BY DEF V!Reboot, V!ReconcileAll, V!Request
  <2>2. requests \in 0..MaxRequests /\ MaxRequests \in Nat
    BY InstancesAssumption DEF VlanInv, VlanTypes, V!ConstantsAssumption
  <2> QED
    BY <2>1, <2>2
<1>6. VlanTypes'
  <2>1. Sound(host)'
    BY <1>1, <1>3 DEF Sound, V!Vif
  <2>2. \A n \in V!Networks : (meta'[n] # NoRec => Good(meta[n])')
                           /\ (recon'.snap[n] # NoRec => Good(recon.snap[n])')
    BY <1>1, <1>2 DEF VlanInv, VlanTypes, Good, V!Vif
  <2> QED
    BY <1>1, <1>2, <1>4, <1>5, <2>1, <2>2 DEF VlanInv, VlanTypes, Known
<1>7. V!MetaBacked'
  BY <1>1, <1>4, TypesOfVlans DEF V!MetaBacked
<1>8. Restoring'
  BY <1>1, <1>2 DEF Restoring
<1>9. Booting'
  <2>1. boot => FromRecords'
    BY <1>1 DEF FromRecords, V!Bare
  <2> QED
    BY <1>2, <2>1 DEF Booting
<1> QED
  BY <1>6, <1>7, <1>8, <1>9 DEF VlanInv

LEMMA ReconcileStep ==
    ASSUME VlanInv, NEW n \in V!Networks, V!ReconcileNetwork(n)
    PROVE  VlanInv'
<1> DEFINE r == recon.snap[n]
<1>1. PICK o \in V!Rewire(recon.snap[n]) :
         /\ host' = o.host
         /\ recon' = [recon EXCEPT !.todo = @ \ {n}, !.snap = [@ EXCEPT ![n] = NoRec],
                                   !.failed = IF o.ok THEN @ ELSE @ \cup {n}]
         /\ n \in recon.todo /\ UNCHANGED <<meta, net, long, requests, orphans>>
  BY DEF V!ReconcileNetwork
<1>2. /\ recon \in Copies /\ r \in V!Records \cup {NoRec} /\ (r # NoRec => Good(r))
      /\ Sound(host)
  BY DEF VlanInv, VlanTypes, Copies
<1>3. /\ recon' \in Copies /\ recon'.todo = recon.todo \ {n}
      /\ recon'.snap = [recon.snap EXCEPT ![n] = NoRec]
      /\ recon'.failed = (IF o.ok THEN recon.failed ELSE recon.failed \cup {n})
      /\ recon'.clean = recon.clean /\ recon'.boot = recon.boot
  BY <1>1, <1>2 DEF Copies
<1>4. /\ \A m \in V!Networks : m # n => recon'.snap[m] = recon.snap[m]
      /\ recon'.snap[n] = NoRec
  BY <1>2, <1>3 DEF Copies
<1> DEFINE wired == r # NoRec /\ r.type \in {"vlan", "bridge"}
<1>5. wired => Wiring(o, V!Uplink(r), r.bridge, r.tag)
  BY <1>1, <1>2, RewireWires
<1>6. ~wired => host' = host
  BY <1>1 DEF V!Rewire, V!Done
<1>7. Sound(host')
  BY <1>1, <1>2, <1>5, <1>6 DEF Wiring
<1>8. VlanTypes'
  <2>1. Sound(host)'
    BY <1>1, <1>7 DEF Sound, V!Vif
  <2>2. ASSUME NEW m \in V!Networks
        PROVE  (meta'[m] # NoRec => Good(meta[m])') /\ (recon'.snap[m] # NoRec => Good(recon.snap[m])')
    <3>1. /\ meta[m] # NoRec => Good(meta[m])
          /\ recon.snap[m] # NoRec => Good(recon.snap[m])
      BY DEF VlanInv, VlanTypes
    <3>2. meta'[m] = meta[m] /\ recon'.snap[m] \in {recon.snap[m], NoRec}
      BY <1>1, <1>4
    <3>3. long' = long
      BY <1>1
    <3> QED
      BY <3>1, <3>2, <3>3 DEF Good, V!Vif
  <2> QED
    BY <1>1, <1>3, <2>1, <2>2 DEF VlanInv, VlanTypes
<1>9. V!MetaBacked'
  BY <1>1 DEF VlanInv, V!MetaBacked
<1>10. ASSUME recon.clean PROVE r = meta[n] /\ (wired <=> V!Recorded(n))
  <2>1. r = meta[n]
    BY <1>1, <1>10 DEF VlanInv, Restoring
  <2> QED
    BY <2>1 DEF V!Recorded
<1>11. wired => V!Uplink(r) \in V!Ports
  BY <1>2 DEF V!Uplink, Good, V!Records, V!Ports
<1>12. \A m \in V!Networks : /\ V!Recorded(m)' <=> V!Recorded(m)
                             /\ V!Alone(m)' <=> V!Alone(m)
                             /\ V!Recorded(m) => V!Uplink(meta[m]) \in V!Ports
  <2>1. ASSUME NEW m \in V!Networks, V!Recorded(m) PROVE V!Uplink(meta[m]) \in V!Ports
    BY <2>1, TypesOfVlans DEF V!Recorded, V!Uplink, Good, V!Records, V!Ports
  <2> QED
    BY <1>1, <2>1 DEF V!Recorded, V!Alone, V!SharesUplink, V!Uplink
<1> HIDE DEF r, wired
<1>13. Restoring'
  <2> SUFFICES ASSUME recon.clean PROVE Restoring'
    BY <1>3 DEF Restoring
  <2>1. \A m \in recon'.todo : recon'.snap[m] = meta'[m]
    BY <1>1, <1>2, <1>3, <1>4 DEF VlanInv, Restoring, Copies
  <2>2. ASSUME NEW m \in V!Networks \ (recon'.todo \cup recon'.failed), V!Recorded(m), V!Alone(m)
        PROVE  V!Wired(m)'
    <3>1. CASE m = n
      <4>1. wired /\ r = meta[n] /\ o.ok
        BY <1>3, <1>10, <2>2, <3>1
      <4>2. o.host.master[V!Uplink(meta[n])] = meta[n].bridge
        BY <1>5, <4>1 DEF Wiring
      <4> QED
        BY <1>1, <3>1, <4>2 DEF V!Wired, V!Uplink
    <3>2. CASE m # n
      <4>1. V!Wired(m)
        BY <1>3, <2>2, <3>2 DEF VlanInv, Restoring
      <4>2. host'.master[V!Uplink(meta[m])] = host.master[V!Uplink(meta[m])]
        <5>1. CASE wired
          <6>1. V!Uplink(meta[m]) # V!Uplink(r)
            BY <1>10, <2>2, <3>2, <5>1 DEF V!Alone, V!SharesUplink
          <6> QED
            BY <1>1, <1>5, <1>12, <2>2, <5>1, <6>1 DEF Wiring
        <5> QED
          BY <1>6, <5>1
      <4> QED
        BY <1>1, <4>1, <4>2 DEF V!Wired, V!Uplink
    <3> QED
      BY <3>1, <3>2
  <2> QED
    BY <1>12, <2>1, <2>2 DEF Restoring
<1>14. Booting'
  <2> SUFFICES ASSUME recon.boot PROVE Booting'
    BY <1>3 DEF Booting
  <2>1. recon.clean /\ FromRecords
    BY DEF VlanInv, Booting
  <2>2. r = meta[n] /\ (wired <=> V!Recorded(n))
    BY <1>10, <2>1
  <2>3. CASE ~wired
    <3>1. host' = host /\ ~(meta[n] # NoRec /\ meta[n].type = "vlan")
      BY <1>6, <2>2, <2>3 DEF V!Recorded
    <3>2. FromRecords'
      BY <1>1, <2>1, <3>1 DEF FromRecords, V!Recorded, V!Uplink
    <3> QED
      BY <1>1, <1>3, <2>1, <3>1, <3>2 DEF VlanInv, Booting
  <2>4. CASE wired
    <3>1. Wiring(o, V!Uplink(meta[n]), meta[n].bridge, meta[n].tag) /\ V!Recorded(n)
      BY <1>5, <2>2, <2>4
    <3>2. ASSUME NEW x \in V!Ports, host'.master[x] # NoBridge
          PROVE  \E m \in V!Networks : V!Recorded(m) /\ V!Uplink(meta[m]) = x
                                       /\ meta[m].bridge = host'.master[x]
      <4>1. CASE host'.master[x] = host.master[x]
        BY <2>1, <3>2, <4>1 DEF FromRecords
      <4>2. CASE host'.master[x] # host.master[x]
        BY <1>1, <3>1, <4>2 DEF Wiring
      <4> QED
        BY <4>1, <4>2
    <3>3. ASSUME NEW v \in V!Vifs, host'.tagOf[v] # NoTag
          PROVE  \E m \in V!Networks : /\ meta[m] # NoRec /\ meta[m].type = "vlan"
                                       /\ meta[m].vif = v /\ meta[m].tag = host'.tagOf[v]
      <4>1. CASE host'.tagOf[v] = host.tagOf[v]
        BY <2>1, <3>3, <4>1 DEF FromRecords
      <4>2. CASE host'.tagOf[v] # host.tagOf[v]
        <5>1. v = V!Uplink(meta[n]) /\ host'.tagOf[v] = meta[n].tag
          BY <1>1, <3>1, <4>2 DEF Wiring
        <5>2. meta[n].type = "vlan"
          BY <3>1, <5>1, TypesOfVlans, InstancesAssumption
             DEF V!Recorded, V!Uplink, Good, V!ConstantsAssumption
        <5> QED
          BY <3>1, <5>1, <5>2 DEF V!Recorded, V!Uplink
      <4> QED
        BY <4>1, <4>2
    <3>4. FromRecords'
      BY <1>1, <3>2, <3>3 DEF FromRecords, V!Recorded, V!Uplink
    <3>5. ASSUME NEW m \in V!Networks \ (recon'.todo \cup recon'.failed),
                 meta[m] # NoRec, meta[m].type = "vlan"
          PROVE  host'.tagOf[meta[m].vif] # NoTag
      <4>1. meta[m].vif \in V!Vifs /\ V!Uplink(meta[m]) = meta[m].vif
        BY <3>5, TypesOfVlans DEF Good, V!Records, V!Uplink
      <4>2. CASE m = n
        BY <1>1, <1>3, <3>1, <3>5, <4>1, <4>2 DEF Wiring
      <4>3. CASE m # n
        <5>1. host.tagOf[meta[m].vif] # NoTag
          BY <1>3, <3>5, <4>3 DEF VlanInv, Booting
        <5> QED
          BY <1>1, <3>1, <4>1, <5>1 DEF Wiring
      <4> QED
        BY <4>2, <4>3
    <3> QED
      BY <1>1, <1>3, <2>1, <3>4, <3>5 DEF Booting
  <2> QED
    BY <2>3, <2>4
<1> QED
  BY <1>8, <1>9, <1>13, <1>14 DEF VlanInv

LEMMA VlanStep == VlanInv /\ [V!Next]_(V!vars) => VlanInv'
<1> SUFFICES ASSUME VlanInv, [V!Next]_(V!vars) PROVE VlanInv'
  OBVIOUS
<1>1. CASE V!Operators
  BY <1>1, CreateStep, EditStep, SwitchSteps, DeleteStep DEF V!Operators
<1>2. CASE UNCHANGED V!vars
  BY <1>2 DEF V!vars, VlanInv, VlanTypes, Good, Sound, V!Vif, V!MetaBacked, Restoring, Booting,
              FromRecords, V!Recorded, V!Alone, V!SharesUplink, V!Wired, V!Uplink
<1> QED
  BY <1>1, <1>2, ReconcileStarts, ReconcileStep DEF V!Next

-----------------------------------------------------------------------------
(* What the invariant says of the runs' properties.                         *)

LEMMA VlansRight ==
    ASSUME VlanInv
    PROVE  V!TypeOK /\ V!MetaBacked /\ V!ReconcileRestores /\ V!BootExact
<1>1. V!ReconcileRestores
  BY DEF VlanInv, Restoring, V!ReconcileRestores
<1>2. V!BootExact
  <2> SUFFICES ASSUME recon.todo = {}, recon.boot PROVE V!BootExact
    BY DEF V!BootExact
  <2>1. FromRecords
    BY DEF VlanInv, Booting
  <2>2. ASSUME NEW n \in V!Networks, V!Recorded(n), meta[n].type = "vlan",
               n \notin recon.failed, V!Alone(n)
        PROVE  host.tagOf[meta[n].vif] = meta[n].tag
    <3>1. meta[n].vif \in V!Vifs /\ host.tagOf[meta[n].vif] # NoTag
      BY <2>2, TypesOfVlans DEF VlanInv, Booting, V!Recorded, Good, V!Records
    <3>2. PICK m \in V!Networks : /\ meta[m] # NoRec /\ meta[m].type = "vlan"
                                  /\ meta[m].vif = meta[n].vif
                                  /\ meta[m].tag = host.tagOf[meta[n].vif]
      BY <2>1, <3>1 DEF FromRecords
    <3>3. m = n
      BY <2>2, <3>2 DEF V!Alone, V!SharesUplink, V!Recorded, V!Uplink
    <3> QED
      BY <3>2, <3>3
  <2> QED
    BY <2>1, <2>2 DEF FromRecords, V!BootExact
<1> QED
  BY <1>1, <1>2, VlanTypesFit DEF VlanInv

(* Only a deletion takes a network away from libvirt, and the links it      *)
(* removes, if any, are those of the network's own record.                  *)
LEMMA GoneByDeletion ==
    ASSUME VlanInv, [V!Next]_(V!vars), NEW n \in V!Networks,
           meta[n] # NoRec, net[n].def, ~net'[n].def
    PROVE  \E links \in SUBSET V!OwnLinks(meta[n]) : host' = V!DropLinks(host, links)
                                                      \/ host' = host
<1>0. net \in [V!Networks -> Known]
  BY TypesOfVlans
<1>1. ASSUME NEW k \in V!Networks, NEW r \in V!NewRecords, NEW auto \in BOOLEAN,
             V!CreateNetwork(k, r, auto, auto)
      PROVE  FALSE
  <2>1. \/ net' = net
        \/ \E o, a \in BOOLEAN : net' = [net EXCEPT ![k] = [def |-> TRUE, on |-> o, auto |-> a]]
    BY <1>1 DEF V!CreateNetwork
  <2> QED
    BY <1>0, <2>1
<1>2. ASSUME NEW k \in V!Networks, NEW t \in Pair \cup {NoTag},
             NEW p \in Parents \cup {NoParent}, NEW b \in Twins \cup {NoBridge},
             NEW auto \in BOOLEAN, V!EditNetwork(k, t, p, b, auto)
      PROVE  FALSE
  <2>1. UNCHANGED net \/ V!SetAuto(k, auto)
    BY <1>2 DEF V!EditNetwork
  <2> QED
    BY <2>1, SetAutoKeeps
<1>3. ASSUME NEW k \in V!Networks, V!DeleteNetwork(k)
      PROVE  \E links \in SUBSET V!OwnLinks(meta[n]) : host' = V!DropLinks(host, links)
                                                        \/ host' = host
  <2>1. CASE net' \in {net, [net EXCEPT ![k].on = FALSE]}
    <3>1. net[k] \in Known /\ [net[k] EXCEPT !.on = FALSE].def = net[k].def
      BY <1>0 DEF Known
    <3> QED
      BY <1>0, <2>1, <3>1
  <2>2. CASE net' = [net EXCEPT ![k] = V!Undefined]
    <3>1. k = n
      BY <1>0, <2>2
    <3>2. {} \in SUBSET V!OwnLinks(meta[n])
      OBVIOUS
    <3>3. \/ host' = host
          \/ \E links \in SUBSET (IF meta[k] = NoRec THEN {} ELSE V!OwnLinks(meta[k])) :
                host' = V!DropLinks(host, links)
          \/ net' \in {net, [net EXCEPT ![k].on = FALSE]}
      BY <1>3 DEF V!DeleteNetwork
    <3> QED
      BY <2>1, <3>1, <3>2, <3>3
  <2> QED
    BY <1>3, <2>1, <2>2 DEF V!DeleteNetwork
<1>4. ASSUME NEW k \in V!Networks,
             \/ V!StartNetwork(k) \/ V!StopNetwork(k)
             \/ \E auto \in BOOLEAN : V!AutostartNetwork(k, auto)
      PROVE  FALSE
  <2>1. /\ [net[k] EXCEPT !.on = TRUE].def = net[k].def
        /\ [net[k] EXCEPT !.on = FALSE].def = net[k].def
        /\ \A auto \in BOOLEAN : [net[k] EXCEPT !.auto = auto].def = net[k].def
    BY <1>0 DEF Known
  <2>2. \/ net' = net \/ net' = [net EXCEPT ![k] = [net[k] EXCEPT !.on = TRUE]]
        \/ net' = [net EXCEPT ![k] = [net[k] EXCEPT !.on = FALSE]]
        \/ \E auto \in BOOLEAN : net' = [net EXCEPT ![k] = [net[k] EXCEPT !.auto = auto]]
    BY <1>0, <1>4 DEF V!StartNetwork, V!StopNetwork, V!AutostartNetwork
  <2> QED
    BY <1>0, <2>1, <2>2
<1>5. ASSUME V!Reboot PROVE FALSE
  <2>1. net' = [k \in V!Networks |-> [net[k] EXCEPT !.on = net[k].def /\ net[k].auto]]
    BY <1>5 DEF V!Reboot
  <2>2. net'[n].def = net[n].def
    BY <1>0, <2>1 DEF Known
  <2> QED
    BY <2>2
<1>6. CASE UNCHANGED net
  BY <1>6
<1>7. CASE V!Operators
  BY <1>1, <1>2, <1>3, <1>4, <1>7 DEF V!Operators
<1> QED
  BY <1>5, <1>6, <1>7 DEF V!Next, V!ReconcileAll, V!ReconcileNetwork, V!vars

(* A deletion removes its own record's links; no port of another bridge is  *)
(* among them, and no bridge of another record.                             *)
LEMMA DeletionSpares ==
    ASSUME VlanInv, [V!Next]_(V!vars), NEW n \in V!Networks, NEW m \in V!Networks,
           net[n].def, ~net'[n].def, meta[n] # NoRec, n # m, V!Recorded(m), V!Wired(m),
           meta[n].bridge # meta[m].bridge, ~V!SharesUplink(m, n)
    PROVE  host'.master[V!Uplink(meta[m])] = meta[m].bridge
<1>0. V!Vifs \subseteq V!Ports /\ Parents \subseteq V!Ports /\ Twins \cap V!Ports = {}
  BY InstancesAssumption DEF V!Ports, V!ConstantsAssumption
<1>1. PICK links \in SUBSET V!OwnLinks(meta[n]) : host' = V!DropLinks(host, links) \/ host' = host
  BY GoneByDeletion
<1> DEFINE x == V!Uplink(meta[m])
<1>3. x \in V!Ports /\ host.master[x] = meta[m].bridge /\ meta[m].bridge \in Twins
  BY <1>0, TypesOfVlans DEF V!Recorded, V!Wired, V!Uplink, Good, V!Records
<1>4. \A link \in links : link = meta[n].bridge \/ (link = meta[n].vif /\ link # NoVif)
  BY <1>1 DEF V!OwnLinks
<1>5. meta[n].bridge \in Twins \cup {NoBridge} /\ meta[n].vif \in V!Vifs \cup {NoVif}
  BY TypesOfVlans DEF V!Records
<1>6. meta[n].vif # NoVif => meta[n].type = "vlan" /\ x # meta[n].vif
  BY TypesOfVlans DEF Good, V!SharesUplink, V!Recorded, V!Uplink
<1>7. x \notin links /\ host.master[x] \notin links
  <2>2. \A link \in links : link # NoBridge
    BY <1>1 DEF V!OwnLinks
  <2> QED
    BY <1>0, <1>3, <1>4, <1>5, <1>6, <2>2
<1>8. host'.master[x] = host.master[x]
  BY <1>1, <1>3, <1>7 DEF V!DropLinks
<1> QED
  BY <1>3, <1>8

-----------------------------------------------------------------------------
(* The parts of HostSpec.                                                   *)

Host == <<part, vars, vlanVars, netVars, vmVars>>

LEMMA NicsArePart == HostSpec => Spec
<1>1. HostInit => Init
  BY DEF HostInit
<1>2. [HostNext]_Host => [Next]_vars
  BY DEF HostNext, Host, vars
<1> QED
  BY <1>1, <1>2, PTL DEF HostSpec, Host, Spec

LEMMA VlansArePart == HostSpec => V!Spec
<1>1. HostInit => V!Init
  BY DEF HostInit
<1>2. [HostNext]_Host => [V!Next]_(V!vars)
  BY DEF HostNext, Host, vlanVars, V!vars
<1> QED
  BY <1>1, <1>2, PTL DEF HostSpec, Host, V!Spec

LEMMA StorageIsPart == HostSpec => S!Spec
<1>1. HostInit => S!Init
  BY DEF HostInit
<1>2. [HostNext]_Host => [S!Next]_(S!vars)
  BY DEF HostNext, Host, netVars, S!vars
<1> QED
  BY <1>1, <1>2, PTL DEF HostSpec, Host, S!Spec

LEMMA SettingsArePart == HostSpec => C!Spec
<1>1. HostInit => C!Init
  BY DEF HostInit
<1>2. [HostNext]_Host => [C!Next]_(C!vars)
  BY DEF HostNext, Host, vmVars, C!vars
<1> QED
  BY <1>1, <1>2, PTL DEF HostSpec, Host, C!Spec

LEMMA NicsInvHolds == HostSpec => [](TypeOK /\ NicsInv)
  BY NicsInit, NicsStep, NicsArePart, PTL DEF Spec

LEMMA VlanInvHolds == HostSpec => []VlanInv
  BY VlanInit, VlanStep, VlansArePart, PTL DEF V!Spec

LEMMA StorageInvHolds == HostSpec => []StorageInv
<1>1. S!Init => StorageInv
  BY InstancesAssumption, StorageInit
<1> QED
  BY <1>1, StorageStep, StorageIsPart, PTL DEF S!Spec

LEMMA SettingsInvHolds == HostSpec => []SettingsInv
  BY SettingsInit, SettingsStep, SettingsArePart, PTL DEF C!Spec

(* Records, links, profiles, files, interfaces, settings and requests stay  *)
(* what network_phase8, storage_phase9, main and libvirt_service make of    *)
(* them.                                                                    *)
THEOREM TypesHold == HostSpec => []TypesOK
<1>1. TypeOK /\ NicsInv /\ VlanInv /\ StorageInv /\ SettingsInv => TypesOK
  BY VlansRight DEF TypesOK, StorageInv, StorageTypes, SettingsInv, SettingsTypes
<1> QED
  BY <1>1, NicsInvHolds, VlanInvHolds, StorageInvHolds, SettingsInvHolds, PTL

(* Whatever requests to switch, add and remove interfaces overlap, and      *)
(* whenever the VM and the networks are started and stopped: no MAC is in   *)
(* the VM twice, no interface is lost, and the running VM has what its      *)
(* definition says, with the exceptions each part names.                    *)
THEOREM NicsRightHolds == HostSpec => []NicsRight
<1>1. TypeOK /\ NicsInv => NicsRight
  BY NicsInvFits
<1> QED
  BY <1>1, NicsInvHolds, PTL

(* Whichever calls of ip and libvirt fail, over any number of requests and  *)
(* reboots: every record of atlasvm_networks.json is of a network libvirt   *)
(* knows, but for those whose deletion broke off before the file was        *)
(* written; a reconciliation left alone wires what it does not give up on,  *)
(* and after a reboot bridges and tags are exactly what the records say.    *)
THEOREM UplinksRightHolds == HostSpec => []UplinksRight
<1>1. VlanInv => UplinksRight
  BY VlansRight DEF UplinksRight
<1> QED
  BY <1>1, VlanInvHolds, PTL

(* delete_network cuts off no network with another bridge and uplink.       *)
THEOREM DeleteSparesOthersHolds == HostSpec => DeleteSparesOthers
<1>1. VlanInv /\ [V!Next]_(V!vars) =>
         [\A n, m \in V!Networks :
             (/\ net[n].def /\ ~net'[n].def /\ meta[n] # NoRec
              /\ n # m /\ V!Recorded(m) /\ V!Wired(m)
              /\ meta[n].bridge # meta[m].bridge /\ ~V!SharesUplink(m, n))
             => host'.master[V!Uplink(meta[m])] = meta[m].bridge]_(V!vars)
  BY DeletionSpares
<1> QED
  BY <1>1, VlanInvHolds, VlansArePart, PTL DEF V!Spec, DeleteSparesOthers, V!DeleteSparesOthers

(* A storage network marked as applied is what networkd's files say, for    *)
(* any number of applies, saves, deletions and reconciliations at once, as  *)
(* long as no copy of the profiles overtaken by another request has been    *)
(* written back or carried out: the copy is read, the routes are asked for  *)
(* and the files are written in steps of their own.                         *)
THEOREM AppliedMatchesHolds == HostSpec => []AppliedMatches
<1>1. StorageInv => AppliedMatches
  BY DEF StorageInv, AppliedMatches
<1> QED
  BY <1>1, StorageInvHolds, PTL

(* A running VM that no request was overtaken by has the size and the ISO   *)
(* its definition says, through live changes, snapshots and restores.       *)
THEOREM RunsAsDefinedHolds == HostSpec => []RunsAsDefined
<1>1. SettingsInv => RunsAsDefined
  BY DEF SettingsInv, RunsAsDefined, C!RunsAsDefined, Sized
<1> QED
  BY <1>1, SettingsInvHolds, PTL

(* An edit of the description does not take the template marker away,       *)
(* unless it was overtaken after it had read the description.               *)
THEOREM TemplatesKeptHolds == HostSpec => TemplatesKept
<1>1. SettingsInv /\ [C!Next]_(C!vars) =>
         [vmConf.template /\ ~vmConf'.template =>
             \/ \E s \in Snaps : C!Revert(s)
             \/ \E t \in Threads : C!At(t, "writeMark") /\ C!MarkWrite(t)
             \/ \E t \in vmStale : C!EditWrite(t)]_(C!vars)
  BY UnmarkedBy
<1> QED
  BY <1>1, SettingsInvHolds, SettingsArePart, PTL DEF C!Spec, TemplatesKept, C!TemplatesKept
=============================================================================
