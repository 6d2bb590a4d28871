# Verification of AtlasVM

AtlasVM is a FastAPI application that runs KVM virtual machines on one Debian
host: it talks to libvirt, `virsh`, `qemu-img`, `systemctl` and a SQLite
database, and renders HTML pages. This directory holds TLA+ models of the parts
of it that keep state and can go wrong between two steps, the TLC
configurations that check them on small instances, and proofs that hold for
every size. `PROJECT.json` maps every definition to the lines it models.

All source paths below are relative to `src/app/`.

## The system

One process serves every request. Synchronous handlers run in the thread pool
of the web framework, background jobs in daemon threads, and nothing in the
code takes a lock: two requests about one VM, one account or one file
interleave at every call they make. State lives outside the process (libvirt,
the storage pools, SQLite, files below `/etc`, `/run`, `/var/lib/atlasvm`,
systemd units, child processes), so it survives a restart of the service, and
nothing reconciles it at startup except `seed_default_admin`.

| Component | Code | State it keeps | Operations | What is hard |
|---|---|---|---|---|
| VM lifecycle and disks | `services/libvirt_service.py`, `vm_disk_management.py`, `vm_storage_utils.py` | libvirt's definitions (persistent and live), volumes of the pools | create, clone, add and remove disk, delete, start, stop | each operation is a chain of libvirt, virsh and qemu-img calls; any of them may fail, other requests run in between, disk lists are read long before they are used, names can be reused |
| Task log and jobs | `core/job_queue.py`, `core/tasks.py`, `core/logger.py`, `main.py` (`vm_action`, `task_kill`) | the rows of `task_log` | enqueue, start, finish, fail, mark failed | daemon threads die with the process, an operator writes the same row, exceptions behind a stored success |
| Accounts | `core/auth.py`, `core/database.py`, `main.py` (users) | the rows of `users` | create, role, disable, delete, seed | the last-administrator guard reads in one transaction and commits in another |
| Host management network | `services/host_mgmt_network.py`, `main.py` | plan, state file, rollback script, a systemd timer and service, `/etc/systemd/network` | save, apply, confirm, roll back | a timer that outlives AtlasVM and reboots; the rollback races requests |
| Consoles | `services/console_service.py` | pid files, websockify children | open console | pids are reused, children become zombies, ports collide, VNC ports change |
| Backups | `services/backup_service.py` | backup directories, volumes, definitions | backup, prune, delete, restore | disks copied one at a time, directories removed file by file, lists that are stale when used |
| Node registry, remote actions | `services/node_registry.py`, `node_client.py`, `remote_vm_actions.py` | `atlasvm_nodes.json` with its temporary file, `atlasvm_node_id`, tokens | save, delete, register the local node; start, shutdown, reboot, power off on another node | saves share one temporary file; calls that time out here still run there |
| Networks and VLAN bridges | `services/network_phase8.py`, `network_reconcile.py`, `main.py` (VM interfaces) | metadata file, libvirt networks, bridges, VLAN interfaces, VM interfaces | create, edit, start, stop, autostart, delete, reconcile; switch, add, remove an interface | one request changes several stores in turn; links vanish at a reboot |
| Storage networks | `services/storage_phase9.py` | profiles, networkd's files | save, apply, delete, reconcile | all profiles are written back from before a restart of networkd |
| NFS and SMB targets | `services/storage_phase9.py` | records, credentials, mount units, mounts, pools | save, apply, unmount, delete | records, units, mounts and pools diverge |
| iSCSI and LVM thin | `services/storage_phase9.py` | records, secrets, sessions, devices, what is on the LUNs | save, discover, login, logout, delete, initialise, repair | a device is checked and then wiped by name, command by command |
| ZFS | `services/zfs_service.py` | snapshots, export files, their metadata | snapshot, destroy, export, delete export | jobs choose free names and write slowly |
| VM settings | `services/libvirt_service.py` | size, description, ISO, template marker, snapshots | edit, attach and eject an ISO, mark a template, snapshot, restore | the answer to "does it run" is old when it is used |
| Settings | `main.py` (`_write_env_values`) | `.env` | save | read-modify-write of a file |
| Pages, dashboard, inventory, doctor | `main.py`, `api/routes.py`, `dashboard_overview.py`, ... | none | read-only | nothing changes state |

What makes each component correct, and whether it is stated here:

- VMs: no VM refers to a deleted volume; two VMs never share one; a request
  deletes only its own VM's disks; a running VM and its definition agree.
- Tasks: a success in the table is a real one; a result is never lost; every
  row gets one while its thread lives.
- Accounts: an active administrator remains.
- Host network: an unconfirmed plan is always on its way to being reverted, a
  rollback restores exactly what was there, a confirmation whose own call
  succeeded, with no rollback running, is final.
- Consoles: one proxy per VM, opening a console ends nobody else's, and the URL
  returned leads to that VM; the last is false when two names lead to one first
  port, and stated for what is left.
- Backups: a listed backup is complete, retention keeps what it promises, a
  restored VM has disks of its own.
- VM settings: a running VM is what its definition says, a template stays one.
- Networks: a record belongs to a network libvirt knows, unless a deletion broke
  off between the two; a reconciliation leaves every uplink where its record
  says, and after a reboot nothing else; a deletion cuts off nobody else; a VM's
  interface is never doubled, changed in one place only, or lost but by the
  failing end of its own request.
- Storage networks: a profile that says it is applied is what networkd reads,
  until something is written from a copy that is older than its last save.
- Targets: what a record says of a mount is true of the next boot, what was
  unmounted stays so, credentials are neither lost nor left behind, where the
  last request has come to its end and met none of the failures the code ignores.
- iSCSI and LVM thin: the thin pool a record names exists unless it was
  destroyed, and thin pools and data are destroyed only by a request that saw
  nothing, or whose device was taken from under it.
- ZFS exports: what a job has reported is whole; what is not whole is at work.
- Nodes: no node is twice in the registry, saves that do not overlap are kept;
  what the page tells of a remote action is so, and it happens once at most.

## Modules

| Module | Models | Extends / instantiates |
|---|---|---|
| `VmCatalog` | the abstract promise of the VM handlers | |
| `VmStorage` | the handlers of VMs and disks; implements `VmCatalog` | `INSTANCE VmCatalog` |
| `VmStorageProofs` | theorems about `VmStorage`, the refinement among them | `VmStorage` |
| `MCVmStorage` | symmetry set for TLC | `VmStorage` |
| `TaskLog`, `TaskLogProofs` | task rows, jobs, brackets, kills | |
| `UserAccounts`, `UserAccountsProofs` | accounts and the guard on the last administrator | |
| `ConsoleProxy`, `ConsoleProxyProofs` | noVNC proxies | |
| `MCPages` | the two above, side by side; three VM names for TLC | `ConsoleProxy`, `INSTANCE UserAccounts` |
| `HostNetwork` | management network with its rollback timer | |
| `HostNetworkModes`, `HostNetworkProofs` | with every fault, and calm; theorems about both | `HostNetwork` |
| `MCHostNetwork`, `MCHostNetworkModes` | its plans | `HostNetwork`, `HostNetworkModes` |
| `Backups` | backups, retention, restore | |
| `MCBackups`, `BackupsProofs` | overlapping, and one at a time; theorems about both | `Backups` |
| `VlanNetworks` | libvirt networks, the host's links, the reconciliation | |
| `VmNics` | the interfaces of a VM | |
| `StorageNetworks` | storage networks | |
| `VmSettings` | one VM's size, media, marker and snapshots | |
| `MCNetworksAndVm`, `NetworksAndVmProofs` | the four modules above, side by side; theorems about all of them | `VmNics`, `INSTANCE` of the others |
| `MountTargets` | NFS and SMB targets | |
| `IscsiLvm` | iSCSI targets, thin pools on their LUNs | |
| `ZfsExports` | snapshots and exports | |
| `NodeRegistry` | the registry's files | |
| `RemoteActions` | an action sent to another node | |
| `MCStorageAndNodes`, `StorageAndNodesProofs` | the five modules above, side by side; theorems about all of them | `NodeRegistry`, `INSTANCE` of the others |

Operators named as mutants ("A mutant of X") are faulty variants of the
operator that follows them. No action uses them; putting one in place of its
original must break the property listed with it in `PROJECT.json`.

### VmStorage and VmCatalog

`uuid`, `persistent`, `active`, `cfg` and `live` are libvirt: which names are
defined and with which identity, which have a definition on disk, which run,
and the disks of the definition and of the running domain. `vols` is the
storage. `th[t]` holds the program point and the local variables of a request.

A step is one external call with the local work up to the next, so
`create_vm` is `CreateCheck`, `CreateVolume`, `CreateDefine`, `CreateStart`;
`clone_vm` is `CloneCheck`, one `CloneCopy` per disk, `CloneDefine`; `add_disk`
is `AddCheck`, one `AddVolume` per candidate name, `AddTarget`, `AddAttach` and,
when that fails, `AddRollback`; `remove_disk_from_vm` is `RemoveFind`,
`RemoveMode`, `RemoveDetach`, `RemoveDelete`; `delete_vm` is `DeleteDestroy`,
`DeleteRead`, `DeleteUndefine` and one `DeleteDisks` per disk. `StartVm`,
`PowerOff` and `Crash` are the rest. A libvirt handle is bound to the identity
it was looked up for (`Holds`), a virsh call to the name only; the code uses
both, and the model keeps the difference.

`VmCatalog` says what all this is for: the volumes each VM uses exist and are
private, volumes are reclaimed only when unused. `CatalogSpec` says that
`VmStorage` with one request at a time implements it, under the mapping
`refs <- Refs`, `store <- vols`; `VmStorageProofs` proves it, and what follows
from it.

### TaskLog

`row` is the status column, `pc` the place of each thread, `effect` what the
operation itself did, `killing` the rows a `task_kill` request has read.
`Jobs` go through `enqueue_task` and `_run_task`; the requests that bracket an
operation come in the three shapes of `main.py`: event before result
(`LogFirst`), result before event (`FinishFirst`), and the power actions
(`Powers`), whose code returns before the lines that would finish the row.
Faults are a crash of the process and errors of the database.

### UserAccounts

`role` and `active` are the table, `th` the request: `Authorize`
(`require_admin`), `Load`, `Count`, `Commit`. SQLAlchemy's session is modelled
by what the request loaded: an attribute assigned the loaded value is not
written, a toggle negates the loaded value.

### HostNetwork

`conf` and `live` are the files in `/etc/systemd/network` and those
systemd-networkd last read; `st`, `plan` and `script` are AtlasVM's own files;
`timer` and `enabled` the timer unit. A request (`ApplyBackup`, `ApplyWrite`,
`ApplyState`, `ApplyScript`, `ApplyTimer`, `Restart`; `ConfirmDisable`,
`ConfirmState`; `RollbackNow`) and the rollback service (`TimerFires`) run the
script's `Wipe`, `Copy`, `Restart` side by side. `Habits` says what operators
are careful about: to confirm a plan before applying the next
(`confirm_first`), and to start nothing while a rollback runs (`no_overlap`).
`Faults` says what may go wrong: failing writes, failing `systemctl` calls,
restarts of AtlasVM, reboots. `cancel_rollback` does not look at what `systemctl
disable --now` answers, so `ConfirmDisable` may leave the timer running, enabled,
or both; `missed` remembers that the last confirmation did, or found a rollback
already at work.

### ConsoleProxy

`proc` is the process table as far as it matters (a proxy that starts, one that
listens, a zombie, a stranger with a reused pid), `pidfile` the pid files,
`display` libvirt's VNC ports. `Sum` is the sum of the characters of each VM's
name, from which `FirstPort` follows as in the code; `opened` remembers whose
consoles have been asked for. `start_novnc` is `ReadDisplay`, `Choose`,
`Check`, `Kill`, `Spawn`, `Record`, `Answer`; websockify's own `Bind` comes
later, or fails.

### Backups

`doms`, `on` and `disk` are the VMs and what their volumes hold (the number of
the guest's last write), `backup` the directories with their images and
`metadata.json`. `create_backup` is `Create`, one `CopyDisk` per disk,
`WriteMetadata`, then the prune; `_prune` is `PruneList` and the removals, file
by file (`Remove`, `Removed`); `restore_as_new_vm` is `Restore`, one
`RestoreDisk` per image, `RestoreDefine`.

### VlanNetworks

`meta` is the metadata file, `net` what libvirt knows, `host` the bridges, the
tag of each VLAN interface and the bridge each port is in. A request
(`CreateNetwork`, `EditNetwork`, `StartNetwork`, `StopNetwork`,
`AutostartNetwork`, `DeleteNetwork`) is one step in which any prefix of its calls
may have succeeded, in the order of the code: links first, libvirt next, the
file last. The file is written in place, so a write that fails leaves the old
records or none (`Unsaved`); a deletion that undefines its network and does not
get to the file leaves a record that no later deletion can drop (`orphans`), and
a creation that does not get there a network without a record. `Reboot` takes the links away and lets libvirt start what it may, and
`ReconcileAll` copies the file as the boot does; each `ReconcileNetwork` takes
the first record left and is a step of its own, between which requests come.
`Vif` is the name the code gives a VLAN interface: a long parent name leaves no
room for the tag.

### VmNics

`conf` and `live` are the networks each MAC is on, in the definition and in the
running VM. A request remembers whether the VM ran (`active`) and calls libvirt
with that: `SwitchNic`, `SwitchDetach`, `SwitchAttach`, `SwitchReattach`;
`AddNic`, `AddAttach`; `RemoveNic`, `RemoveDetach`. Every attach may fail, the
way back too, whose failure the code swallows; AtlasVM dies between any two
calls (`AtlasDies`); the VM and the networks are started and stopped. `lost`
remembers the interfaces whose own request dies between detach and attach or
fails to put them back. `missed` remembers the stopped VMs' detaches
that failed: then the code attaches the old interface as if the attach had
failed, and only then can a MAC be there twice.

### StorageNetworks

`profile` is the file of profiles, `files` networkd's three files of each.
`SaveNetwork` and `DeleteNetwork` are one step. An apply is `ReadProfiles`, the
question for the default route (`QueryRoute`), one `WriteFile` per file and
`ApplyDone`, which writes the profiles back after networkd's restart; other
requests, and the end of AtlasVM, come between any two of them. `Reconcile`
applies one profile after another, whose names it has read at once. `stale` has
the names whose profile was changed since a request has read it, `lost` those of
which a request then wrote a file or the profile all the same.

### VmSettings

`conf` is the definition, `machine` what runs. Each request is its question
(does the VM run, what is the description) and its write, `EditSize`,
`EditWrite`, `MediaUpdate`, `MarkWrite`, with starts, stops, snapshots and other
requests between. `crossed` marks a machine started under a request that
had already asked, `stale` a reading of the description that is overtaken.

### MountTargets, IscsiLvm, ZfsExports

`MountTargets` keeps the records of both files, the credentials, the mount
units, what is mounted and each target's pool; a request is one step, with every
place it may end at among its outcomes, and `Reboot` mounts what is enabled. The
code does not look at what `systemctl enable` and `disable` answer and passes over
credentials it cannot remove, so neither needs to happen. `half` has the targets
whose last apply or unmount was refused that way or broke off before the record,
`torn` those of which credentials and record were not both written, `shared`
those whose path another record has named.

`IscsiLvm` keeps records and secrets, the device of each LUN that is logged in,
and what is on each LUN. `initialize_iscsi_lvm_thin` is its check
(`CheckDevice`), then `Wipe`, `PvCreate`, `VgCreate`, `LvCreate` and
`RecordThin`, each by name and each able to fail; logins and logouts hand the
devices' names to other LUNs meanwhile (`gone`), and a query of the check that
fails reads as an empty answer (`blind`). A thin pool holds its device (`busy`)
from the moment it is made until a logout takes the device away; after the next
login nothing holds the new one, and `wipefs` and `pvcreate -ff` go through. The
check compares the names of VMs' disks with two of the device's, so a disk named
otherwise (`alias`) is not seen. `wrecked` has the volume groups whose pool was
destroyed, `torn` the targets whose secrets and record do not belong together.

`ZfsExports` keeps snapshots, export files, their metadata and the jobs, which
choose a free name, open it, send, and write the metadata.

### NodeRegistry and RemoteActions

`NodeRegistry` takes `write_json` apart: open (which truncates), write,
`os.replace`. All saves share one temporary file, and a thread that has it open
keeps it when another moves it over the registry, so it then writes into the
registry itself; `fd` says which file a thread's descriptor has become.

`RemoteActions` is a click: the node is looked up, the request posted, the
token checked by the other host (`Serve`), the answer read, or given up after
ten seconds while the request is still on its way.

## Runs

| Run | Question | Bounds, and why they are enough |
|---|---|---|
| `vm_sequential` | one request at a time, the service dying anywhere: `NoDangling`, `NoDoubleAttach`, `LiveMatchesConfig`, `CatalogSpec` | two names (a VM, its clone, a name reused), three disks and three volume numbers, so that detaching leaves gaps that a later `add_disk` has to pass over |
| `vm_concurrent` | two requests interleaved: `NoSharing`, `Ownership`, `DeletesOwnDisks` | two names, two threads, two positions: the smallest instance with a second disk and a race on each shared thing; the proofs cover larger ones |
| `tasks` | `TruthfulSuccess`, `NoResurrection`, `OnlyOwnerRevokes`, `ResultsArrive` under kills, crashes and database errors | one task of each shape; tasks share nothing but the process, whose death hits all of them |
| `pages` | `OneProxyPerVM`, `OwnUnlessShared`, `KillsNoProxy` under every event; `AdminRemains` with one request at a time | three VMs, `vm12` and `vm21` of one character sum and `vm11` of another, two ports, three pids: a scan meets its own port, another VM's, none that is free, and another VM that starts where it does; three users, so that an administrator other than the actor and a bystander exist |
| `hostnet` | `ConfirmSticks` under every fault, a failing `disable` and confirmations during a rollback among them; without failing `systemctl` calls and restarts of AtlasVM, `RollbackRight` and `PlansResolve` | two plans for one interface, one of them on a VLAN: their files overlap in one name and differ in two, so a rollback both restores and removes; where everything may fail, operators save the one that writes the more files (`FaultPlans`) |
| `backups` | two requests: `RestoresRight`; one at a time with lost disks and restarts: `RetentionKeeps` | two disks, one guest write; two backups (`Few`) where requests overlap, three and a retention of two where they come one at a time |
| `networks_and_vm` | `UplinksRight`, `DeleteSparesOthers` of the VLAN networks; `NicsRight`, `RunsAsDefined`, `TemplatesKept` of a VM; `AppliedMatches` of storage networks | two networks, tags and bridges on one parent and three requests or reboots: a refused creation, an edit, a reboot fit in, or a creation, a deletion that breaks off and a reboot; two threads and two networks for one interface; two profiles and five requests (`MaxApplies`): a save, an apply, a save and an apply in its middle, and one more; two sizes, one ISO, one snapshot |
| `storage_and_nodes` | `MountsRight`, `LunRecordsRight`, `LunDataSafe`, `ExportsRight`, `RegistryRight`, `RemoteRight` | an NFS and an SMB target, two exports, one share, two paths; one iSCSI target with two LUNs, two devices that can change places, two volume groups and two threads, once without passwords (part `luns`) and once without devices (part `secrets`), since neither looks at the other; two snapshots of one file name; two threads on the registry and two ids; two hosts, two tokens, two clicks |
| `vm_failed_attach` | expected to fail, see below | one thread |
| `accounts_race` | expected to fail | two users, two threads |
| `console_collision` | expected to fail | as `pages` |
| `hostnet_reapply` | expected to fail | as `hostnet`, without `confirm_first` |

Five runs join several habits or modules, where each alone would ask the same
kind of question of a small state. In `hostnet` and `backups` the variable `mode`
says which of two habits a behaviour keeps to, and its steps are steps of the
one module (`ModesAreRuns`, `ModesAreBehaviours` prove that); in
`pages`, `networks_and_vm` and `storage_and_nodes` the variable `part` names the one
module that moves, and the others keep their initial states. So a run checks
the disjoint union of its parts, never their product: the modules share no
variable, and neither does the code they model share a store. What one part
cannot show is another's property, so each property has its mutant in the part
it is about. The values of a kind that play no role of their own are shared
(`Pair`, `Twins`, `Threads`), so that one symmetry group of eight permutations
serves all parts. The sums have between 1.3 and 2 million states. In the part of the
interfaces there is one MAC: requests about different MACs touch different
entries only, and `NetworksAndVmProofs` covers any number.

Every model starts empty and reaches its states through the operations. The
bounds are `MaxIndex` and `MaxTarget` (volume numbers and bus positions),
`MaxDisk`, `MaxBackups`, `MaxWrite`, `Span`, `MaxRequests` (VLAN networks),
`MaxApplies` (requests to storage networks), `MaxId` (ids drawn for nodes) and the
sizes of the sets. A request that needs more of any of them fails in the model as
it does in the code when names or ports run out, except for `MaxBackups`,
`MaxWrite`, `MaxRequests`, `MaxApplies` and `MaxId`, which just stop the story.

Deadlock is not checked in `tasks`, where every row can come to rest, and in
`networks_and_vm`, where the requests of the VLAN part run out.

### Fairness

`tasks` and `hostnet` assume fairness. In `TaskLog` each thread is weakly fair:
threads are scheduled, and the operations they call return or raise (qemu-img,
virsh and libvirt calls are synchronous and end). Operators, kills, crashes and
database errors are not fair: nobody has to press a button. In `HostNetwork`
the timer fires once it waits (`OnActiveSec`), the rollback service and the
requests run on; nobody has to confirm, apply or reboot. `PlansResolve`
(`AppliedResolves` of `HostNetwork`, in the calm instance of
`MCHostNetworkModes`) assumes that reboots stop, since each one makes an enabled
timer wait anew.

### Disagreements between code and documentation

Four runs show one each, with the trace TLC prints:

- `vm_failed_attach`: the handler of a failed attach
  (`libvirt_service.py:747`) calls `delete_disk_source(pool_name=...)`, a
  parameter that function does not have; the error is swallowed and the new
  volume stays, against the docstring at `libvirt_service.py:680`.
- `accounts_race`: two requests that each count two active administrators take
  one each away, against `docs/PHASE_FOUR_DESIGN.md:12`.
- `console_collision`: two names with one character sum lead to one first port.
  The scan stops there when the VM's own proxy runs, wherever that is
  (`console_service.py:62`), so the URL returned for one VM is the other's
  console, against `docs/API.md:74`.
- `hostnet_reapply`: `systemctl enable --now` of a timer that has elapsed does
  nothing, so a second plan that is not confirmed is never reverted, against
  the message at `main.py:1028`.

Others met while modelling have no run of their own; they are hazards with a
note in `PROJECT.json`, and the models contain them:

- a clone's source can be started while its disks are copied
  (`libvirt_service.py:780`, `docs/PHASE_THREE_DESIGN.md:38`);
- `task_kill` refuses rows that are still queued (`main.py:2742`), and the power
  actions leave their rows running (`main.py:692`);
- a reboot before the rollback timer is installed leaves the plan in force
  (`host_mgmt_network.py:339`); a confirmation while the rollback runs does not
  stop it, nor does one whose `systemctl disable` fails, which nobody looks at
  (`:309`): `main.py:1037` says in both cases that the rollback is cancelled;
- a proxy is reused after the VM's VNC port has changed (`console_service.py:33`);
  a zombie is taken for a running proxy (`:98`);
- a VM started during its backup gets a backup marked offline-consistent
  (`backup_service.py:205`); a missing disk shifts the images of a restore
  (`:370`); a stale list makes retention keep too few (`:443`);
- a creation that libvirt refuses leaves its links in place, in a live
  network's bridge too (`network_phase8.py:267`); an edit leaves the old VLAN
  interface in the bridge (`:340`); a deletion takes a bridge another network
  uses (`:518`). `UplinksRight` says what a reboot and a reconciliation put
  right;
- a deletion that ends between libvirt and the metadata file
  (`network_phase8.py:508`, `:512`) leaves a record of a network there is none
  of, which the reconciliation goes on wiring; a creation that ends before it
  (`:314`) a network without a record;
- the reconciliation would start networks by keys no writer of the record stores
  (`network_reconcile.py:200`);
- a stopped VM's failed detach leads to the old interface being attached again
  (`main.py:2551`); an old interface that cannot be attached again is lost, and
  the error swallowed (`:2546`, `:2558`);
- an apply of a storage network writes its files from the profiles it read before
  (`storage_phase9.py:624`, `:660`), over what a later save and apply have put
  there, and a profile marked as applied then differs from them;
- what `systemctl enable` and `disable` answer is ignored
  (`storage_phase9.py:910`, `:939`, `:1163`, `:1193`), and so is a file of credentials or secrets that cannot be removed
  (`:1050`, `:1328`): the record then says what the next boot contradicts, or
  the secret outlives its target;
- an operation on storage networks or iSCSI targets writes all records back from
  before its commands (`storage_phase9.py:687`, `:1502`): what was saved in
  between is undone;
- the check before a wipe calls itself deliberately conservative
  (`storage_phase9.py:1847`), but a query that fails reads as "nothing there",
  a disk is compared with two of the device's names only (`:1687`), the device is
  wiped by a name that may be another LUN's by then, and a thin pool whose LUN
  was logged out and in again does not hold its device, so that `wipefs` and
  `pvcreate -ff` destroy it (`:1978`);
- two saves of the registry share one temporary file
  (`node_registry.py:36`): one may leave a file that is no JSON, which reads as
  an empty registry.

## Proofs

Every invariant and every action property that a passing run checks is also a
theorem, for all values of the constants that meet what the last column
names, and so is the refinement. Eight modules hold them. "One thread" means that the theorem assumes `Threads = {t}`:
the property is about requests that come one at a time, as the run's instance is.

| Theorem | Says | Needs, besides the constants' assumptions |
|---|---|---|
| `VmStorageProofs!TypeCorrect` | `[]TypeOK` | |
| `OwnershipHolds`, `NoSharingHolds`, `DeletesOwnDisksHolds` | VMs never share a volume and a request deletes only its own VM's | |
| `NoDanglingHolds`, `NoDoubleAttachHolds`, `LiveMatchesConfigHolds` | no VM refers to a deleted volume or has one twice; a running VM is what its definition says | one thread |
| `CatalogImplemented`, `PromiseKept` | the handlers implement `VmCatalog`, so disks exist and are private | one thread |
| `TaskLogProofs!TypeCorrect`, `TruthfulSuccessHolds`, `NoResurrectionHolds`, `OnlyOwnerRevokesHolds` | the table's results, for any tasks and faults | |
| `UserAccountsProofs!TypeCorrect`, `AdminRemainsSequentially` | ranges; an active administrator remains | a finite set of users, the one of the environment among them; for the second, one thread |
| `HostNetworkProofs!TypeCorrect`, `ConfirmSticksHolds` | under every fault, a confirmation is final unless its call failed or a rollback was running | for the second, one thread |
| `ModesAreRuns`, `RollbackRightHolds` | an unconfirmed plan has its rollback ahead, and that restores the files | for the second, one thread and careful operators (`Habits`) |
| `ConsoleProxyProofs!TypeCorrect`, `OneProxyPerVMHolds`, `KillsNoProxyHolds` | one proxy per VM, and opening a console ends none | for the last two, one thread |
| `OwnUnlessSharedHolds` | until VMs that share a first port were asked for, the URL leads to no other VM's console | one thread |
| `BackupsProofs!TypeCorrect`, `ModesAreBehaviours` | ranges; both habits are behaviours of `Backups` | |
| `RestoresRightHolds` | restored VMs have disks of their own, listed backups their images | |
| `RetentionKeepsHolds` | retention keeps the newest | (the habit "one") |
| `NetworksAndVmProofs!TypesHold`, `NicsRightHolds`, `UplinksRightHolds`, `DeleteSparesOthersHolds` | a VM's interfaces; VLAN networks through failing calls and reboots | |
| `AppliedMatchesHolds`, `RunsAsDefinedHolds`, `TemplatesKeptHolds` | storage networks; a VM's settings and its template marker | |
| `StorageAndNodesProofs!TypesHold`, `MountsRightHolds`, `LunRecordsRightHolds`, `LunDataSafeHolds`, `ExportsRightHolds`, `RegistryRightHolds`, `RemoteRightHolds` | targets, thin pools, exports, the registry and remote actions | |

The constants' assumptions are what the code's names make true: markers such as
`NoVif` or `NoRec` are none of the values they stand beside, bridges and ports
have different names, the kinds of task are disjoint. TLC evaluates them on
every run.

How they go:

- *VmStorage.* That VMs share nothing is not inductive: a shared volume can
  come from the disk list a thread is carrying. `Ownership` adds the threads:
  every volume in a definition, in a running domain, in a thread's list or in
  its hands is named after its VM. A clone in progress still holds the source's
  disks above the position it has reached. Names are the first component of a
  volume, so `NoSharing` follows, and `DeletesOwnDisks` because whatever a
  thread deletes is in its hands. With one request, `Domains` says that
  definitions hold different volumes that exist and running VMs are their
  definitions, and `Midway` what of that each place in a handler still owes:
  what it is about to attach exists and is in no use, what it is about to delete
  is in none. The refinement maps each call to a step of the catalogue or to a
  stutter, under the same invariant.
- *TaskLog.* `Progress` ties a thread's place to its row and to what its
  operation did: only a thread whose operation returned can store a success.
  Both action properties follow step by step.
- *UserAccounts.* `Checked` is the strengthening: between the count and the
  commit of the only request, what was loaded is what the table says and
  another administrator is there. With a second thread it is false, which
  `accounts_race` shows.
- *HostNetwork.* `ScriptRead` (a script that runs has a backup to restore)
  makes the types inductive: the timer is started only after the script has
  been written. `Sticks` says that a request about to record a confirmation that did
  not miss has disarmed the timer and found the rollback idle, and that the timer
  is started only while the state says "applied". In the calm, `Ahead` says that a timer
  that waits or a rollback that runs restores the backup of the plan the state
  names, and `Restores` that after the wipe the files left are the backup's.
- *ConsoleProxy.* With one request, `Recorded`: a proxy that runs is in its VM's
  pid file, or about to be put there, and what is about to be killed is none.
  `AskedFor`: whoever has a proxy has been asked for. `AtFirstPort`: while no two
  of those share a first port, every proxy is at its VM's, so the scan ends where
  it begins: the port is free, or its own proxy has it.
- *Backups.* `Sound` types the requests and keeps the stamps below the clock.
  `Beside` is for requests that overlap: the directory being filled is one
  request's, a restore has made a volume for each disk before the next, and a
  listed directory has its images unless someone is removing it (`Whole`).
  `Alone` is for one at a time: of what a prune is about to remove, enough newer
  ones are listed besides (`Left`). That sorting by stamp and keeping the first
  `Keep` does this is a lemma by the least-number principle, taken from the
  well-founded order of the library (`WFMin`), since induction itself is out of
  the provers' reach.
- *VmNics.* A request that has detached an interface *holds* it (`Holds`).
  `Single`: while one holds it nobody else does and the definition is without it,
  so an attach cannot double it. What the request asked is still so (`Asked`)
  unless the VM was started or stopped meanwhile, so both places change together.
  That nothing is lost (`NicKept`) is inductive with these: an interface in no
  place is held, and leaves a request's hands by an attach, or into `lost` by the
  failing end or the death of that request.
- *VlanNetworks.* `Good` and `Sound` tie names together: the interface in a
  record is the one its tag gives, and so is the name of every interface that
  carries a tag, so the reconciliation's search for another interface with the
  record's tag can only find the record's own (`RewireWires`). `Wiring` says what
  a sequence of calls of `ip` may leave, wherever it breaks off. `Restoring` and
  `Booting` extend the two properties to a reconciliation under way: records to
  come are copied as they are, those done are wired or given up, and since the
  boot no link is there that a record has not made. `DeleteSparesOthers` needs
  `Good` too: a deletion removes what its record names, and that is nobody else's
  port or bridge. `MetaBacked` is inductive: a record without its network is an
  orphan from the step that makes it so.
- *StorageNetworks.* `Agree`: of the networks nobody has saved since, and no late
  write has spoiled, a request's copy says what the profiles say, and an applied
  one what the files say. `Progress`: of its own network, the files it has
  written are as it wrote them, file by file, until networkd restarts; then
  marking the copy and writing it back is right. A request writes into the files
  of a network under its own copy only, so who is late spoils what is `stale`
  for it, and that is `lost` from then on.
- *VmSettings.* `Seen`: while the machine runs that nobody's question has been
  overtaken by, every request under way has seen it run and changes definition
  and machine together, or does not touch its size; snapshots of such machines
  agree with themselves. `Marked`: who has read the description and was not
  overtaken knows whether it has the marker.
- *MountTargets.* `OnePerPath`: of two records that name one path each is
  `shared`. Apart from these a unit is touched by one target's requests only
  (`TellsBoot`, `StaysDown`), so a request that comes to its record leaves the
  unit as the record says, but for what `systemctl` was refused, and one that
  does not come to it leaves the target `half` done.
- *IscsiLvm.* `LunRequest` says what each request has checked, has read and will
  write. One whose check saw everything and whose device was not taken away works
  on a device that is one LUN's, which holds nothing that counts or a thin pool
  that keeps the commands off (`Fit`): what it wipes is its own. Whoever changes
  data or a thin pool is therefore `Excused`. A pool in a record, or in a copy of
  the records, exists or was destroyed (`PoolsMade`), since `wrecked` notes the
  step that destroys it.
- *ZfsExports.* `Settled`, of a path nobody has disturbed: one job at most works
  on it, and its file is what that job has made so far or what was reported.
- *NodeRegistry.* Every list of records there is, in either file or in a
  request's hands, has no node twice (`Drawn`), since whatever reaches a file is
  one of these lists whole or no JSON at all; and the id of a node being added
  is nobody else's until its list is made (`FreshId`). For saves that do not
  overlap, `Alone` says that the one under way has made its list of what the
  registry holds and that the temporary file is its own.
- *RemoteActions.* Where a click stands, together with the message that is on
  its way, tells whether libvirt has been called for it (`Stands`): a request
  still on its way has not been served, and there is only one.

The last two modules of theorems prove each part by itself, over its own
specification, and then that the part's specification is implied by `HostSpec`
(`VlansArePart` and the like), because a step of the host is a step of one part
and leaves the variables of the others alone.

Only model-checked: the two liveness properties, `ResultsArrive` and
`PlansResolve` (TLAPS does not do liveness under fairness), and the four runs
that are expected to fail, whose point is a counterexample.

## What the models abstract or leave out

- One storage pool stands for all; volumes are `<vm>-disk<i>`. The choice
  between directory and LVM pools, formats and sizes are left out.
- A detach that virsh reports as done has been released by the guest.
- qemu's image locks make calls fail and do nothing else.
- systemd kills AtlasVM's control group when the service restarts; starting a
  timer that is active does nothing; `/etc/systemd/network` exists; NetworkManager is not
  active (apply refuses otherwise); `/etc/network/interfaces` is restored but
  never written by AtlasVM and left out.
- Backups get different timestamps; `rmtree` meets no I/O error.
- Authentication itself, sessions, password hashes and reset, HTML, logging and
  every read-only page.
- A request of `VlanNetworks` or `MountTargets` is one step, which ends wherever
  a call fails or AtlasVM dies, as far as the places differ in state; two of them
  that rewrite one file at once lose an update, as `StorageNetworks` and
  `NodeRegistry` show call by call.
- A file is written whole or not at all, except in `NodeRegistry` and for the
  metadata of `VlanNetworks`, and a read and a write of one file with no other
  call between them are one step.
- An iSCSI LUN holds a thin pool, a file system, raw data, or nothing; sizes,
  multipath and CHAP's handshake are left out. A system call either works or
  fails as a whole. The check of a device is one step, after which any number of
  others come; a query that was answered before a new login counts as one that was
  not answered (`blind`).
- Addresses and DHCP of NAT networks change no other state; such a network is a
  record of type "plain".
- Not modelled: autostart and disk buses of a VM, pool types,
  `restore_definition` (which under a new name defines a second VM on the
  original's disks; it is one definition call), archives and imports of
  backups, several backup targets, `.env` (one read and one write, the hazard
  `StorageNetworks` models), what the tests of a target record, what
  `perform_local_vm_action` (`remote_vm_actions.py`) does when reading the VM
  back fails after its action, the second way `libvirt_service.py:553` reads a
  description when the first raises, and the read-only pages, dashboard, inventory and doctor, which change nothing.

## Plan

What is left, in order of what it would add:

1. `VlanNetworks` and `MountTargets` call by call, with two requests: the
   metadata file and the target files are rewritten whole, so a record can come
   back after its network or unit is gone. The sequential properties would need
   the exception `StorageNetworks` makes for overtaken copies.
2. Proofs for what step 1 adds. Beyond that: a bound on what `RollbackRight` needs of its
   operators, whether `confirm_first` alone suffices for two request threads.
3. Composition of `VmStorage` with `Backups`: a VM whose disks change while it is
   backed up.
4. `restore_definition`, archives and several backup targets; autostart and disk
   buses.
