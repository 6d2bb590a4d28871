---------------------------- MODULE ConsoleProxy ----------------------------
(***************************************************************************)
(* Browser consoles (console_service.py): start_novnc picks a port for the  *)
(* VM's websockify, starts one unless the VM's pid file names a running     *)
(* process, and returns a URL with the port.  websockify binds its port     *)
(* some time after it is started, or exits when the port is taken; it keeps *)
(* the VNC port it was started with.                                        *)
(***************************************************************************)
EXTENDS Naturals, FiniteSets

CONSTANTS
    VMs, VncPorts, Pids,
    Base, Span,      \* the proxy ports are Base .. Base + Span - 1
    Sum,             \* the sum of the characters of each VM's name
    Threads,         \* request threads
    Events,          \* what happens around AtlasVM, see below
    NoVM, NoPort, NoPid

Ports == Base .. (Base + Span - 1)

ASSUME ConstantsAssumption ==
    /\ Base \in Nat /\ Span \in Nat \ {0}
    /\ Sum \in [VMs -> Nat]
    /\ NoPort \notin Ports \cup VncPorts /\ NoPid \notin Pids /\ NoVM \notin VMs
    /\ Events \subseteq {"vm_restart", "proxy_dies", "pid_reuse", "atlas_restart"}

VARIABLES
    display,  \* each VM's VNC port, which libvirt gives it when it starts
    proc,     \* the processes under the pids that matter
    pidfile,  \* /run/atlasvm/console-<vm>.pid
    th,       \* what each request has found out
    opened    \* history: the VMs whose console was asked for since AtlasVM started

vars == <<display, proc, pidfile, th, opened>>

None    == [state |-> "none", vm |-> NoVM, port |-> NoPort, vnc |-> NoPort]
Idle    == [pc |-> "idle", vm |-> NoVM, vnc |-> NoPort, port |-> NoPort, pid |-> NoPid]
Proxies(state) == {p \in Pids : proc[p].state = state}

(* Ports are ports, pids are pids, and a process that is no proxy has no    *)
(* port.                                                                    *)
TypeOK ==
    /\ display \in [VMs -> VncPorts \cup {NoPort}]
    /\ proc \in [Pids -> [state : {"none", "starting", "up", "zombie", "other"},
                          vm : VMs \cup {NoVM}, port : Ports \cup {NoPort},
                          vnc : VncPorts \cup {NoPort}]]
    /\ \A p \in Pids : proc[p].state \in {"starting", "up"} => proc[p].port \in Ports
    /\ pidfile \in [VMs -> Pids \cup {NoPid}]
    /\ th \in [Threads -> [pc : {"idle", "choose", "check", "kill", "spawn",
                                 "record", "answer"},
                           vm : VMs \cup {NoVM}, vnc : VncPorts \cup {NoPort},
                           port : Ports \cup {NoPort}, pid : Pids \cup {NoPid}]]
    /\ opened \subseteq VMs

Init ==
    /\ display \in [VMs -> VncPorts]
    /\ \A v, w \in VMs : v # w => display[v] # display[w]
    /\ proc = [p \in Pids |-> None]
    /\ pidfile = [v \in VMs |-> NoPid]
    /\ th = [t \in Threads |-> Idle]
    /\ opened = {}

Goto(t, r) == th' = [th EXCEPT ![t] = r]
At(t, l)   == th[t].pc = l

-----------------------------------------------------------------------------
(* vnc_display and _display_to_port, of a VM that runs                      *)
ReadDisplay(t, v) ==
    /\ At(t, "idle")
    /\ display[v] # NoPort
    /\ Goto(t, [Idle EXCEPT !.pc = "choose", !.vm = v, !.vnc = display[v]])
    /\ opened' = opened \cup {v}
    /\ UNCHANGED <<display, proc, pidfile>>

(* _pid_running: kill(pid, 0), which a process nobody has waited for and    *)
(* a process of another program answer as well.                             *)
PidRunning(v) == pidfile[v] # NoPid /\ proc[pidfile[v]].state # "none"

(* _port_available: nobody accepts a connection there.                      *)
Available(port) == \A p \in Proxies("up") : proc[p].port # port

(* Where the scan starts: names of one sum, vm12 and vm21, start together.  *)
FirstPort(v) == Base + (Sum[v] % Span)

(* A mutant of Distance: every scan starts at the first of the ports.       *)
DistanceFromBase(v, port) == port - Base

(* How far from the VM's first port the scan meets a port.                  *)
Distance(v, port) == (port + Span - FirstPort(v)) % Span

(* A mutant of Choose: a scan that finds nothing goes on.                   *)
ChooseAnyway(t) ==
    /\ At(t, "choose")
    /\ \/ \E q \in Ports :
             Available(q) /\ Goto(t, [th[t] EXCEPT !.pc = "check", !.port = q])
       \/ Goto(t, [th[t] EXCEPT !.pc = "check"])
    /\ UNCHANGED <<display, proc, pidfile, opened>>

(* _choose_proxy_port, whose second condition does not look at the port.    *)
Choose(t) ==
    LET v  == th[t].vm
        ok == {q \in Ports : Available(q) \/ PidRunning(v)} IN
    /\ At(t, "choose")
    /\ IF ok = {}
         THEN Goto(t, Idle)
         ELSE \E q \in ok :
                 /\ \A o \in ok : Distance(v, q) <= Distance(v, o)
                 /\ Goto(t, [th[t] EXCEPT !.pc = "check", !.port = q])
    /\ UNCHANGED <<display, proc, pidfile, opened>>

(* A mutant of Check: the pid file is not asked.                            *)
CheckNothing(t) ==
    /\ At(t, "check")
    /\ Goto(t, [th[t] EXCEPT !.pc = "kill"])
    /\ UNCHANGED <<display, proc, pidfile, opened>>

(* A mutant of Check: a running process is replaced without being stopped.  *)
CheckRunning(t) ==
    /\ At(t, "check")
    /\ Goto(t, [th[t] EXCEPT !.pc = "spawn"])
    /\ UNCHANGED <<display, proc, pidfile, opened>>

Check(t) ==
    /\ At(t, "check")
    /\ Goto(t, [th[t] EXCEPT !.pc = IF PidRunning(th[t].vm) THEN "answer" ELSE "kill"])
    /\ UNCHANGED <<display, proc, pidfile, opened>>

(* _kill_stale_pid: whoever has the pid by now gets the SIGTERM.            *)
Kill(t) ==
    LET v == th[t].vm IN
    /\ At(t, "kill")
    /\ proc' = [p \in Pids |->
                  IF p # pidfile[v] THEN proc[p]
                  ELSE IF proc[p].state \in {"starting", "up"}
                         THEN [proc[p] EXCEPT !.state = "zombie"]
                  ELSE IF proc[p].state = "other" THEN None ELSE proc[p]]
    /\ pidfile' = [pidfile EXCEPT ![v] = NoPid]
    /\ Goto(t, [th[t] EXCEPT !.pc = "spawn"])
    /\ UNCHANGED <<display, opened>>

(* Popen *)
Spawn(t) ==
    /\ At(t, "spawn")
    /\ \E p \in Proxies("none") :
          /\ proc' = [proc EXCEPT ![p] = [state |-> "starting", vm |-> th[t].vm,
                                          port |-> th[t].port, vnc |-> th[t].vnc]]
          /\ Goto(t, [th[t] EXCEPT !.pc = "record", !.pid = p])
    /\ UNCHANGED <<display, pidfile, opened>>

Record(t) ==
    /\ At(t, "record")
    /\ pidfile' = [pidfile EXCEPT ![th[t].vm] = th[t].pid]
    /\ Goto(t, [th[t] EXCEPT !.pc = "answer"])
    /\ UNCHANGED <<display, proc, opened>>

(* The session is returned, with the port that was chosen.                  *)
Answer(t) ==
    /\ At(t, "answer")
    /\ Goto(t, Idle)
    /\ UNCHANGED <<display, proc, pidfile, opened>>

-----------------------------------------------------------------------------
(* websockify binds its port, or finds it taken and exits.                  *)
Bind(p) ==
    /\ proc[p].state = "starting"
    /\ proc' = [proc EXCEPT ![p].state = IF Available(proc[p].port) THEN "up" ELSE "zombie"]
    /\ UNCHANGED <<display, pidfile, th, opened>>

ProxyDies(p) ==
    /\ "proxy_dies" \in Events
    /\ proc[p].state \in {"starting", "up"}
    /\ proc' = [proc EXCEPT ![p].state = "zombie"]
    /\ UNCHANGED <<display, pidfile, th, opened>>

(* Popen, anywhere in AtlasVM, waits for the children that have exited.     *)
Reap(p) ==
    /\ proc[p].state = "zombie"
    /\ proc' = [proc EXCEPT ![p] = None]
    /\ UNCHANGED <<display, pidfile, th, opened>>

OtherProgram(p) ==
    /\ "pid_reuse" \in Events
    /\ \/ proc[p].state = "none" /\ proc' = [proc EXCEPT ![p] = [None EXCEPT !.state = "other"]]
       \/ proc[p].state = "other" /\ proc' = [proc EXCEPT ![p] = None]
    /\ UNCHANGED <<display, pidfile, th, opened>>

(* A VM is stopped, or started with any VNC port that is free.              *)
VmRestarts(v) ==
    /\ "vm_restart" \in Events
    /\ \/ display[v] # NoPort /\ display' = [display EXCEPT ![v] = NoPort]
       \/ \E q \in VncPorts \ {display[w] : w \in VMs} :
             display[v] = NoPort /\ display' = [display EXCEPT ![v] = q]
    /\ UNCHANGED <<proc, pidfile, th, opened>>

(* systemd stops AtlasVM's whole control group; the pid files stay.         *)
AtlasRestarts ==
    /\ "atlas_restart" \in Events
    /\ proc' = [p \in Pids |-> IF proc[p].state = "other" THEN proc[p] ELSE None]
    /\ th' = [t \in Threads |-> Idle]
    /\ opened' = {}
    /\ UNCHANGED <<display, pidfile>>

Next ==
    \/ \E t \in Threads :
          \/ \E v \in VMs : ReadDisplay(t, v)
          \/ Choose(t) \/ Check(t) \/ Kill(t) \/ Spawn(t) \/ Record(t) \/ Answer(t)
    \/ \E p \in Pids : Bind(p) \/ ProxyDies(p) \/ Reap(p) \/ OtherProgram(p)
    \/ \E v \in VMs : VmRestarts(v)
    \/ AtlasRestarts

Spec == Init /\ [][Next]_vars

-----------------------------------------------------------------------------
(* A VM has one proxy that runs, however often its console is opened, its   *)
(* proxy dies and AtlasVM restarts.                                         *)
OneProxyPerVM ==
    \A v \in VMs :
       Cardinality({p \in Proxies("starting") \cup Proxies("up") : proc[p].vm = v}) <= 1

(* Opening a console never ends a proxy that runs, its own or another VM's. *)
KillsNoProxy ==
    [][\A u \in Threads, p \in Pids :
          Kill(u) /\ proc[p].state \in {"starting", "up"} => proc'[p] = proc[p]]_vars

(* docs/API.md:74, opening a console "starts a noVNC proxy for the VM and   *)
(* returns the proxy URL": when the URL is returned, what listens at its    *)
(* port is the VM's proxy and not another VM's.                             *)
OwnConsole ==
    \A t \in Threads, p \in Proxies("up") :
       At(t, "answer") /\ proc[p].port = th[t].port => proc[p].vm = th[t].vm

(* It is so until consoles of VMs that share a first port have been asked   *)
(* for: a VM whose proxy stands elsewhere is answered with its first port,  *)
(* whoever is there.                                                        *)
OwnUnlessShared ==
    (\A v, w \in opened : v # w => FirstPort(v) # FirstPort(w)) => OwnConsole

=============================================================================
