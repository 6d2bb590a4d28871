------------------------- MODULE ConsoleProxyProofs -------------------------
(***************************************************************************)
(* Proofs about the consoles: types, for any requests; and, when one        *)
(* console is opened at a time, that a VM has one proxy at most, that       *)
(* opening a console ends none, and, for any names, that a console is the   *)
(* VM's own until VMs that share a first port were asked for.  In all of    *)
(* them proxies die, pids are reused, VMs and AtlasVM restart at any time.  *)
(***************************************************************************)
EXTENDS ConsoleProxy, FiniteSetTheorems, TLAPS

States == {"none", "starting", "up", "zombie", "other"}
Processes == [state : States, vm : VMs \cup {NoVM}, port : Ports \cup {NoPort},
              vnc : VncPorts \cup {NoPort}]
Locals == [pc : {"idle", "choose", "check", "kill", "spawn", "record", "answer"},
           vm : VMs \cup {NoVM}, vnc : VncPorts \cup {NoPort},
           port : Ports \cup {NoPort}, pid : Pids \cup {NoPid}]

(* A request that is under way works for a VM, and has a port once it has   *)
(* chosen one.                                                              *)
Busy(r) ==
    /\ r.pc # "idle" => r.vm \in VMs /\ r.vnc \in VncPorts
    /\ r.pc \in {"check", "kill", "spawn", "record", "answer"} => r.port \in Ports
    /\ r.pc = "record" => r.pid \in Pids

Types == TypeOK /\ \A t \in Threads : Busy(th[t])

LEMMA TypeInit == Init => Types
  BY DEF Init, Types, TypeOK, Busy, None, Idle

LEMMA TypeStep ==
    ASSUME Types, [Next]_vars
    PROVE  Types'
<1> USE DEF States, Processes, Locals, Goto, At
<1>t. /\ display \in [VMs -> VncPorts \cup {NoPort}]
      /\ proc \in [Pids -> Processes]
      /\ pidfile \in [VMs -> Pids \cup {NoPid}]
      /\ th \in [Threads -> Locals]
      /\ Idle \in Locals /\ None \in Processes /\ Busy(Idle)
      /\ \A p \in Pids : proc[p].state \in {"starting", "up"} => proc[p].port \in Ports
      /\ \A t \in Threads : Busy(th[t])
      /\ opened \subseteq VMs
  BY DEF Types, TypeOK, Idle, None, Busy
<1>g. ASSUME NEW t \in Threads, NEW r \in Locals, Busy(r), Goto(t, r)
      PROVE  th' \in [Threads -> Locals] /\ \A s \in Threads : Busy(th'[s])
  BY <1>t, <1>g
<1>1. ASSUME NEW t \in Threads, NEW v \in VMs, ReadDisplay(t, v) PROVE Types'
  <2>1. /\ [Idle EXCEPT !.pc = "choose", !.vm = v, !.vnc = display[v]] \in Locals
        /\ Busy([Idle EXCEPT !.pc = "choose", !.vm = v, !.vnc = display[v]])
    BY <1>1, <1>t DEF ReadDisplay, Idle, Busy
  <2> QED
    BY <1>1, <2>1, <1>g, <1>t DEF ReadDisplay, Types, TypeOK
<1>2. ASSUME NEW t \in Threads, Choose(t) PROVE Types'
  <2>1. \A q \in Ports : /\ [th[t] EXCEPT !.pc = "check", !.port = q] \in Locals
                         /\ Busy([th[t] EXCEPT !.pc = "check", !.port = q])
    BY <1>2, <1>t DEF Choose, Busy
  <2>2. th' \in [Threads -> Locals] /\ \A s \in Threads : Busy(th'[s])
    <3>1. CASE Goto(t, Idle)
      BY <3>1, <1>g, <1>t
    <3>2. CASE \E q \in Ports : Goto(t, [th[t] EXCEPT !.pc = "check", !.port = q])
      BY <3>2, <2>1, <1>g
    <3> QED
      BY <1>2, <3>1, <3>2 DEF Choose
  <2> QED
    BY <1>2, <2>2, <1>t DEF Choose, Types, TypeOK
<1>3. ASSUME NEW t \in Threads, Check(t) PROVE Types'
  <2>1. \A l \in {"answer", "kill"} : /\ [th[t] EXCEPT !.pc = l] \in Locals
                                      /\ Busy([th[t] EXCEPT !.pc = l])
    BY <1>3, <1>t DEF Check, Busy
  <2> QED
    BY <1>3, <2>1, <1>g, <1>t DEF Check, Types, TypeOK
<1>4. ASSUME NEW t \in Threads, Kill(t) PROVE Types'
  <2>1. /\ [th[t] EXCEPT !.pc = "spawn"] \in Locals
        /\ Busy([th[t] EXCEPT !.pc = "spawn"])
    BY <1>4, <1>t DEF Kill, Busy
  <2>2. /\ proc' \in [Pids -> Processes]
        /\ \A p \in Pids : proc'[p].state \in {"starting", "up"} => proc'[p].port \in Ports
    BY <1>4, <1>t DEF Kill, None
  <2> QED
    BY <1>4, <2>1, <2>2, <1>g, <1>t DEF Kill, Types, TypeOK
<1>5. ASSUME NEW t \in Threads, Spawn(t) PROVE Types'
  <2>1. PICK p \in Proxies("none") :
           /\ proc' = [proc EXCEPT ![p] = [state |-> "starting", vm |-> th[t].vm,
                                           port |-> th[t].port, vnc |-> th[t].vnc]]
           /\ Goto(t, [th[t] EXCEPT !.pc = "record", !.pid = p])
    BY <1>5 DEF Spawn
  <2>2. /\ [th[t] EXCEPT !.pc = "record", !.pid = p] \in Locals
        /\ Busy([th[t] EXCEPT !.pc = "record", !.pid = p])
        /\ p \in Pids /\ th[t].port \in Ports
    <3>1. th[t].pc = "spawn" /\ th[t].vm \in VMs /\ th[t].vnc \in VncPorts /\ th[t].port \in Ports
      BY <1>5, <1>t DEF Spawn, Busy
    <3> QED
      BY <3>1, <1>t DEF Busy, Proxies
  <2>3. /\ proc' \in [Pids -> Processes]
        /\ \A q \in Pids : proc'[q].state \in {"starting", "up"} => proc'[q].port \in Ports
    BY <2>1, <2>2, <1>t
  <2> QED
    BY <1>5, <2>1, <2>2, <2>3, <1>g, <1>t DEF Spawn, Types, TypeOK
<1>6. ASSUME NEW t \in Threads, Record(t) PROVE Types'
  <2>1. /\ [th[t] EXCEPT !.pc = "answer"] \in Locals
        /\ Busy([th[t] EXCEPT !.pc = "answer"])
    BY <1>6, <1>t DEF Record, Busy
  <2> QED
    BY <1>6, <2>1, <1>g, <1>t DEF Record, Types, TypeOK
<1>7. ASSUME NEW t \in Threads, Answer(t) PROVE Types'
  BY <1>7, <1>g, <1>t DEF Answer, Types, TypeOK
<1>8. ASSUME NEW p \in Pids, Bind(p) \/ ProxyDies(p) \/ Reap(p) \/ OtherProgram(p) PROVE Types'
  <2>1. /\ proc' \in [Pids -> Processes]
        /\ \A q \in Pids : proc'[q].state \in {"starting", "up"} => proc'[q].port \in Ports
    <3>1. CASE Bind(p) \/ ProxyDies(p)
      BY <3>1, <1>t DEF Bind, ProxyDies
    <3>2. CASE Reap(p) \/ OtherProgram(p)
      BY <3>2, <1>t DEF Reap, OtherProgram, None
    <3> QED
      BY <1>8, <3>1, <3>2
  <2>2. UNCHANGED <<display, pidfile, th, opened>>
    BY <1>8 DEF Bind, ProxyDies, Reap, OtherProgram
  <2> QED
    BY <2>1, <2>2, <1>t DEF Types, TypeOK
<1>9. ASSUME NEW v \in VMs, VmRestarts(v) PROVE Types'
  BY <1>9, <1>t DEF VmRestarts, Types, TypeOK
<1>10. CASE AtlasRestarts
  BY <1>10, <1>t DEF AtlasRestarts, Types, TypeOK, None
<1>11. CASE UNCHANGED vars
  BY <1>11 DEF vars, Types, TypeOK
<1> QED
  BY <1>1, <1>2, <1>3, <1>4, <1>5, <1>6, <1>7, <1>8, <1>9, <1>10, <1>11 DEF Next

(* Ports are ports, pids are pids, whatever requests run side by side.      *)
THEOREM TypeCorrect == Spec => []TypeOK
<1>1. Types /\ [Next]_vars => Types'
  BY TypeStep
<1>2. Types => TypeOK
  BY DEF Types
<1> QED
  BY <1>1, <1>2, TypeInit, PTL DEF Spec

-----------------------------------------------------------------------------
(* One request at a time.  A proxy that runs is in its VM's pid file, or is *)
(* about to be recorded there; who is about to kill what the pid file names *)
(* kills no proxy.                                                          *)
Alive(p) == proc[p].state \in {"starting", "up"}

Recorded(t) ==
    /\ \A p \in Pids : Alive(p) =>
          /\ proc[p].vm \in VMs
          /\ IF th[t].pc = "record" /\ th[t].vm = proc[p].vm
               THEN th[t].pid = p ELSE pidfile[proc[p].vm] = p
    /\ th[t].pc = "kill" /\ pidfile[th[t].vm] # NoPid => ~Alive(pidfile[th[t].vm])
    /\ th[t].pc \in {"spawn", "record"} => pidfile[th[t].vm] = NoPid

LEMMA RecordedStep ==
    ASSUME NEW t, Threads = {t}, Types, Recorded(t), [Next]_vars
    PROVE  Recorded(t)'
<1>c. Choose(t) => /\ th[t].pc = "choose" /\ UNCHANGED <<proc, pidfile>>
                   /\ \/ Goto(t, Idle)
                      \/ \E q \in Ports : Goto(t, [th[t] EXCEPT !.pc = "check", !.port = q])
  BY DEF Choose, At
<1> USE ConstantsAssumption DEF States, Processes, Locals, Goto, At, Alive, Recorded
<1>t. /\ proc \in [Pids -> Processes] /\ pidfile \in [VMs -> Pids \cup {NoPid}]
      /\ th \in [Threads -> Locals] /\ t \in Threads /\ Busy(th[t])
  BY DEF Types, TypeOK
<1>1. ASSUME NEW v \in VMs, ReadDisplay(t, v) PROVE Recorded(t)'
  BY <1>1, <1>t DEF ReadDisplay, Idle
<1>2. CASE Choose(t)
  <2>1. th[t].pc = "choose" /\ UNCHANGED <<proc, pidfile>>
    BY <1>2, <1>c
  <2>2. CASE th'[t].pc = "idle"
    BY <2>1, <2>2
  <2>3. CASE th'[t].pc = "check"
    BY <2>1, <2>3
  <2>4. CASE Goto(t, Idle)
    BY <2>2, <2>4, <1>t DEF Idle
  <2>5. ASSUME NEW q \in Ports, Goto(t, [th[t] EXCEPT !.pc = "check", !.port = q])
        PROVE  Recorded(t)'
    BY <2>3, <2>5, <1>t
  <2> QED
    BY <1>2, <1>c, <2>4, <2>5
<1>3. CASE Check(t)
  BY <1>3, <1>t DEF Check, PidRunning, Busy
<1>4. CASE Kill(t)
  BY <1>4, <1>t DEF Kill, Busy, None
<1>5. CASE Spawn(t)
  BY <1>5, <1>t DEF Spawn, Busy, Proxies
<1>6. CASE Record(t)
  BY <1>6, <1>t DEF Record, Busy
<1>7. CASE Answer(t)
  BY <1>7, <1>t DEF Answer, Idle
<1>8. ASSUME NEW p \in Pids, Bind(p) \/ ProxyDies(p) \/ Reap(p) \/ OtherProgram(p)
      PROVE  Recorded(t)'
  <2>1. UNCHANGED <<pidfile, th>> /\ proc' \in [Pids -> Processes]
    BY <1>8, <1>t DEF Bind, ProxyDies, Reap, OtherProgram, None
  <2>2. ASSUME NEW q \in Pids, Alive(q)' PROVE Alive(q) /\ proc'[q].vm = proc[q].vm
    BY <1>8, <2>2, <1>t DEF Bind, ProxyDies, Reap, OtherProgram, None
  <2> QED
    BY <2>1, <2>2, <1>t DEF Busy
<1>9. ASSUME NEW v \in VMs, VmRestarts(v) PROVE Recorded(t)'
  BY <1>9 DEF VmRestarts
<1>10. CASE AtlasRestarts
  BY <1>10, <1>t DEF AtlasRestarts, None, Idle
<1>11. CASE UNCHANGED vars
  BY <1>11 DEF vars
<1> QED
  BY <1>1, <1>2, <1>3, <1>4, <1>5, <1>6, <1>7, <1>8, <1>9, <1>10, <1>11 DEF Next

LEMMA RecordedInit ==
    ASSUME NEW t, Threads = {t}, Init
    PROVE  Recorded(t)
  BY DEF Init, Recorded, Alive, None, Idle

LEMMA RecordedInv ==
    ASSUME NEW t, Threads = {t}
    PROVE  Spec => [](Types /\ Recorded(t))
<1>1. Init => Types /\ Recorded(t)
  BY TypeInit, RecordedInit
<1>2. Types /\ Recorded(t) /\ [Next]_vars => Types' /\ Recorded(t)'
  BY TypeStep, RecordedStep
<1> QED
  BY <1>1, <1>2, PTL DEF Spec

(* A VM has one proxy at most, for any VMs, ports and pids, while consoles  *)
(* are opened one at a time and anything else happens at any time.          *)
THEOREM OneProxyPerVMHolds ==
    ASSUME NEW t, Threads = {t}
    PROVE  Spec => []OneProxyPerVM
<1>1. Recorded(t) => OneProxyPerVM
  <2> SUFFICES ASSUME Recorded(t), NEW v \in VMs
               PROVE  Cardinality({p \in Proxies("starting") \cup Proxies("up") :
                                     proc[p].vm = v}) <= 1
    BY DEF OneProxyPerVM
  <2> DEFINE S == {p \in Proxies("starting") \cup Proxies("up") : proc[p].vm = v}
  <2>1. \A p, q \in S : p = q
    BY DEF Recorded, Alive, Proxies
  <2>2. CASE S = {}
    BY <2>2, FS_EmptySet
  <2>3. ASSUME NEW p \in S PROVE Cardinality(S) <= 1
    <3>1. S = {p}
      BY <2>1, <2>3
    <3> QED
      BY <3>1, FS_Singleton
  <2> QED
    BY <2>2, <2>3
<1> QED
  BY <1>1, RecordedInv, PTL

(* Opening a console ends no proxy that runs.                               *)
THEOREM KillsNoProxyHolds ==
    ASSUME NEW t, Threads = {t}
    PROVE  Spec => KillsNoProxy
<1>1. ASSUME Types, Recorded(t), NEW p \in Pids, Kill(t), Alive(p)
      PROVE  proc'[p] = proc[p]
  BY <1>1, ConstantsAssumption DEF Recorded, Alive, Kill, At, Types, TypeOK, Busy
<1>2. Types /\ Recorded(t) /\ [Next]_vars =>
        [\A u \in Threads, p \in Pids :
            Kill(u) /\ proc[p].state \in {"starting", "up"} => proc'[p] = proc[p]]_vars
  BY <1>1 DEF Alive
<1> QED
  BY <1>2, RecordedInv, PTL DEF Spec, KillsNoProxy

-----------------------------------------------------------------------------
(* The scan starts at the VM's first port, which is one of the ports.       *)
LEMMA FirstPortIsPort ==
    ASSUME NEW v \in VMs
    PROVE  FirstPort(v) \in Ports
<1>1. Base \in Nat /\ Span \in Nat \ {0} /\ Sum[v] \in Nat
  BY ConstantsAssumption
<1>2. Sum[v] % Span \in 0 .. (Span - 1)
  BY <1>1
<1> QED
  BY <1>1, <1>2 DEF FirstPort, Ports

LEMMA DistanceZero ==
    ASSUME NEW v \in VMs, NEW q \in Ports
    PROVE  /\ Distance(v, q) \in Nat
           /\ Distance(v, q) <= Distance(v, FirstPort(v)) => q = FirstPort(v)
<1> DEFINE f == FirstPort(v)
<1>1. /\ Base \in Nat /\ Span \in Nat \ {0} /\ f \in Base .. (Base + Span - 1)
      /\ q \in Base .. (Base + Span - 1)
  BY ConstantsAssumption, FirstPortIsPort DEF Ports
<1> HIDE DEF f
<1>2. (f + Span - f) % Span = 0
  BY <1>1
<1>3. (q + Span - f) % Span \in Nat
  BY <1>1
<1>4. CASE q > f
  <2>1. (q + Span - f) % Span = q - f
    BY <1>1, <1>4
  <2> QED
    BY <1>1, <1>2, <1>3, <1>4, <2>1 DEF Distance, f
<1>5. CASE q < f
  <2>1. (q + Span - f) % Span = q + Span - f
    BY <1>1, <1>5
  <2> QED
    BY <1>1, <1>2, <1>3, <1>5, <2>1 DEF Distance, f
<1> QED
  BY <1>1, <1>3, <1>4, <1>5 DEF Distance, f

(* Whoever has a proxy, and whoever is being asked for, was asked for.      *)
AskedFor(t) ==
    /\ th[t].pc # "idle" => th[t].vm \in opened
    /\ \A p \in Pids : Alive(p) => proc[p].vm \in opened

LEMMA AskedForStep ==
    ASSUME NEW t, Threads = {t}, Types, AskedFor(t), [Next]_vars
    PROVE  AskedFor(t)'
<1> USE ConstantsAssumption DEF States, Processes, Locals, Goto, At, Alive, AskedFor
<1>t. /\ proc \in [Pids -> Processes] /\ th \in [Threads -> Locals] /\ t \in Threads
  BY DEF Types, TypeOK
<1>1. ASSUME NEW v \in VMs, ReadDisplay(t, v) PROVE AskedFor(t)'
  BY <1>1, <1>t DEF ReadDisplay, Idle
<1>2. CASE Choose(t)
  <2>1. th[t].pc = "choose" /\ UNCHANGED <<proc, opened>>
    BY <1>2 DEF Choose
  <2>2. th'[t].pc = "idle" \/ th'[t].vm = th[t].vm
    <3>1. CASE Goto(t, Idle)
      BY <3>1, <1>t DEF Idle
    <3>2. ASSUME NEW q \in Ports, Goto(t, [th[t] EXCEPT !.pc = "check", !.port = q])
          PROVE  th'[t].vm = th[t].vm
      BY <3>2, <1>t
    <3> QED
      BY <1>2, <3>1, <3>2 DEF Choose
  <2> QED
    BY <2>1, <2>2
<1>3. CASE Check(t)
  BY <1>3, <1>t DEF Check
<1>4. CASE Kill(t)
  BY <1>4, <1>t DEF Kill, None
<1>5. CASE Spawn(t)
  BY <1>5, <1>t DEF Spawn, Proxies
<1>6. CASE Record(t)
  BY <1>6, <1>t DEF Record
<1>7. CASE Answer(t)
  BY <1>7, <1>t DEF Answer, Idle
<1>8. ASSUME NEW p \in Pids, Bind(p) \/ ProxyDies(p) \/ Reap(p) \/ OtherProgram(p)
      PROVE  AskedFor(t)'
  BY <1>8, <1>t DEF Bind, ProxyDies, Reap, OtherProgram, None
<1>9. ASSUME NEW v \in VMs, VmRestarts(v) PROVE AskedFor(t)'
  BY <1>9 DEF VmRestarts
<1>10. CASE AtlasRestarts
  BY <1>10, <1>t DEF AtlasRestarts, None, Idle
<1>11. CASE UNCHANGED vars
  BY <1>11 DEF vars
<1> QED
  BY <1>1, <1>2, <1>3, <1>4, <1>5, <1>6, <1>7, <1>8, <1>9, <1>10, <1>11 DEF Next

(* While no two of them share a first port, every proxy runs at its VM's    *)
(* first port, and every request chooses its VM's: nobody else is there,    *)
(* and the VM's own proxy is recorded.                                      *)
Apart == \A v, w \in opened : v # w => FirstPort(v) # FirstPort(w)

AtFirstPort(t) ==
    Apart =>
       /\ \A p \in Pids : Alive(p) => proc[p].port = FirstPort(proc[p].vm)
       /\ th[t].pc \in {"check", "kill", "spawn", "record", "answer"} =>
             th[t].port = FirstPort(th[t].vm)

LEMMA AtFirstPortStep ==
    ASSUME NEW t, Threads = {t}, Types, Recorded(t), AskedFor(t), AtFirstPort(t), [Next]_vars
    PROVE  AtFirstPort(t)'
<1> SUFFICES ASSUME Apart' PROVE AtFirstPort(t)'
  BY DEF AtFirstPort
<1> USE ConstantsAssumption DEF States, Processes, Locals, Goto, At, Alive, AtFirstPort
<1>t. /\ proc \in [Pids -> Processes] /\ pidfile \in [VMs -> Pids \cup {NoPid}]
      /\ th \in [Threads -> Locals] /\ t \in Threads /\ Busy(th[t])
  BY DEF Types, TypeOK
<1>10. CASE AtlasRestarts
  BY <1>10, <1>t DEF AtlasRestarts, None, Idle
<1>a. CASE Apart
  <2>1. ASSUME NEW v \in VMs, ReadDisplay(t, v) PROVE AtFirstPort(t)'
    BY <2>1, <1>a, <1>t DEF ReadDisplay, Idle, FirstPort
  <2>2. CASE Choose(t)
    <3> DEFINE v == th[t].vm
               f == FirstPort(v)
    <3>1. v \in VMs /\ v \in opened /\ f \in Ports /\ th[t].pc = "choose"
      BY <2>2, <1>t, FirstPortIsPort DEF Choose, Busy, AskedFor
    <3>2. Available(f) \/ PidRunning(v)
      <4> SUFFICES ASSUME NEW p \in Proxies("up"), proc[p].port = f PROVE PidRunning(v)
        BY DEF Available
      <4>1. /\ p \in Pids /\ Alive(p) /\ proc[p].vm \in opened /\ pidfile[proc[p].vm] = p
            /\ proc[p].port = FirstPort(proc[p].vm)
        BY <3>1, <1>a DEF Proxies, Recorded, AskedFor
      <4>2. proc[p].vm = v
        BY <3>1, <4>1, <1>a DEF Apart
      <4> QED
        BY <4>1, <4>2, <1>t DEF PidRunning, Proxies
    <3>3. CASE Goto(t, Idle)
      BY <2>2, <3>3, <1>a, <1>t DEF Choose, Idle, FirstPort
    <3>4. ASSUME NEW q \in Ports, Distance(v, q) <= Distance(v, f),
                 Goto(t, [th[t] EXCEPT !.pc = "check", !.port = q])
          PROVE  AtFirstPort(t)'
      <4>1. q = f
        BY <3>1, <3>4, DistanceZero
      <4>2. /\ th'[t].port = f /\ th'[t].vm = v
        BY <3>4, <4>1, <1>t
      <4> QED
        BY <2>2, <4>2, <1>a DEF Choose, FirstPort
    <3>5. \/ Goto(t, Idle)
          \/ \E q \in Ports : /\ Distance(v, q) <= Distance(v, f)
                              /\ Goto(t, [th[t] EXCEPT !.pc = "check", !.port = q])
      <4> HIDE DEF f
      <4> QED
        BY <2>2, <3>1, <3>2 DEF Choose
    <3> QED
      BY <3>3, <3>4, <3>5
  <2>3. CASE Check(t)
    BY <2>3, <1>a, <1>t DEF Check, FirstPort
  <2>4. CASE Kill(t)
    BY <2>4, <1>a, <1>t DEF Kill, None, FirstPort
  <2>5. CASE Spawn(t)
    BY <2>5, <1>a, <1>t DEF Spawn, Proxies, FirstPort
  <2>6. CASE Record(t)
    BY <2>6, <1>a, <1>t DEF Record, FirstPort
  <2>7. CASE Answer(t)
    BY <2>7, <1>a, <1>t DEF Answer, Idle, FirstPort
  <2>8. ASSUME NEW p \in Pids, Bind(p) \/ ProxyDies(p) \/ Reap(p) \/ OtherProgram(p)
        PROVE  AtFirstPort(t)'
    BY <2>8, <1>a, <1>t DEF Bind, ProxyDies, Reap, OtherProgram, None, FirstPort
  <2>9. ASSUME NEW v \in VMs, VmRestarts(v) PROVE AtFirstPort(t)'
    BY <2>9, <1>a DEF VmRestarts, FirstPort
  <2>11. CASE UNCHANGED vars
    BY <2>11, <1>a DEF vars, FirstPort
  <2> QED
    BY <1>10, <2>1, <2>2, <2>3, <2>4, <2>5, <2>6, <2>7, <2>8, <2>9, <2>11 DEF Next
<1>b. Apart \/ AtlasRestarts
  <2>1. AtlasRestarts \/ opened \subseteq opened'
    BY DEF Next, vars, ReadDisplay, Choose, Check, Kill, Spawn, Record, Answer,
           Bind, ProxyDies, Reap, OtherProgram, VmRestarts
  <2> QED
    BY <2>1 DEF Apart, FirstPort
<1> QED
  BY <1>a, <1>b, <1>10

(* Until VMs that share a first port were asked for, the URL of a console   *)
(* never leads to another VM's proxy, whatever the VMs' names.              *)
THEOREM OwnUnlessSharedHolds ==
    ASSUME NEW t, Threads = {t}
    PROVE  Spec => []OwnUnlessShared
<1>1. Init => AskedFor(t) /\ AtFirstPort(t)
  BY DEF Init, AskedFor, AtFirstPort, Alive, None, Idle
<1>2. Types /\ Recorded(t) /\ AskedFor(t) /\ AtFirstPort(t) /\ [Next]_vars
         => AskedFor(t)' /\ AtFirstPort(t)'
  BY AskedForStep, AtFirstPortStep
<1>3. Types /\ Recorded(t) /\ AskedFor(t) /\ AtFirstPort(t) => OwnUnlessShared
  <2> SUFFICES ASSUME Types, Recorded(t), AskedFor(t), AtFirstPort(t), Apart PROVE OwnConsole
    BY DEF OwnUnlessShared, Apart
  <2> SUFFICES ASSUME NEW p \in Proxies("up"), th[t].pc = "answer", proc[p].port = th[t].port
               PROVE  proc[p].vm = th[t].vm
    BY DEF OwnConsole, At
  <2>1. p \in Pids /\ Alive(p) /\ th[t].vm \in opened
    BY DEF Proxies, Alive, AskedFor
  <2> QED
    BY <2>1 DEF AskedFor, AtFirstPort, Apart
<1> QED
  BY <1>1, <1>2, <1>3, RecordedInv, PTL DEF Spec

=============================================================================
