# Sandfire, specified in TLA+

Sandfire runs Firecracker virtual machines on one host: an HTTP API over a SQLite
table of VMs, a VM manager that starts jailed `firecracker` processes with TAP
devices and guest addresses, a proxy from subdomains to guests, certificates for
these subdomains, an SSH proxy, and *layercake*, a builder of root images.

## The parts of the system

| part | state it keeps | operations | what makes it correct | module |
|---|---|---|---|---|
| VM manager (`internal/vm`) | `processes`, `diskBusy` under `mu`; devices, jails and processes on the host; disk images | `StartVM`, `StopVM`, `StopAllVMs`, `CleanupVM`, `InspectVMDisk`, `ResizeVMDisk`, `ResetVMDisk`, `PrepareVMDisk`, `CleanupOrphanedResources` | nothing leaked on any failure path; one user of a disk; no process lost | `VmManager`, `VmPool`; orphans in `Sandfire` |
| Network manager (`internal/network`) | `allocatedIPs`, `natEnabled` | `AllocateIP`, `ReleaseIP`, `CreateTap`, `DeleteTap`, `EnableNAT` | addresses of live guests differ | `VmManager` |
| Request handlers (`internal/api/handlers.go`) | none of their own between requests | create, update, delete, reset, inspect, resize, start, stop | rows agree with the manager | `VmApi` |
| Database (`internal/db`) | table `vms` | one SQL statement per function | see above | `VmApi`, `Sandfire`; sizes in `Disk` |
| Program (`cmd/sandfire/main.go`) | where it is in its life | boot, restore, shutdown | boot repairs, shutdown leaves nothing | `Sandfire` |
| Web proxy (`internal/api/proxy.go`) | none | route a subdomain, serve Caddy its certificate | a subdomain reaches its own VM | property in `VmApi`; certificates in `Certs` |
| Certificate manager (`internal/certs`) | `inProgress` under `mu`; account key, certificate files, DNS records | boot, get, issue, delete | one order at a time, none in vain; records removed; waiters answered | `Certs` |
| Disk images (`internal/storage`) | image files | inspect, resize, reset | the file is never shorter than its file system | `Disk` |
| SSH proxy (`sshproxy`) | per connection: `vmClient`, `fwdClient`; per session a connection to a VM | menu, tunnels, commands, port forwards | no closed connection is used, none is kept | `SshProxy` |
| Layercake (`layercake`) | images, hashes and times of layers; sandfire's rows | build, build all, cascade, force, export, status | what counts as up to date is | `Layercake` |
| VNC relay, HTTP routing, UI, configuration | none | relay, templates, parsing | | not modelled |

How they interact: every request runs in a goroutine of its own.  A handler reads
a row, decides, calls the manager, and writes the row; nothing is held between
these steps.  The manager serialises start, stop and stop-all with one mutex that
is held across external commands; disk operations only *mark* the disk under the
mutex and then work without it; `PrepareVMDisk` does neither.  Addresses come from
a pool in memory.  The proxy sends traffic to the address in the row.  Certificates
are issued outside the manager's mutex, in the context of the request that asked
first.  At boot the main goroutine cleans up after a crash and restarts VMs before
it serves requests; at shutdown a goroutine stops the VMs while requests are still
accepted.  The SSH proxy and layercake are programs of their own: the one asks the
API where a VM is, the other writes images, kernels and rows where sandfire reads
them.

Hard behaviours: interleaved requests for one VM, failures of any external command
or database statement in the middle of an operation, guests that halt by
themselves, clients that leave, crashes at any step, requests that arrive during
shutdown, connections that break while others share them.  `PROJECT.json` lists
each hazard at its line with the properties about it.

## Modules

`VmManager` - the manager and the network manager.  A goroutine is a caller `c`
with `pc[c]`, the call `op[c]` and the VM `arg[c]`.  One action per stretch of code
between two points where another goroutine or the host can interfere: `StartVM` is
allocate, tap, nat, jail, socket, register, each with its failure exit
(`AbandonStart` is what all of these undo); `StopVM` is begin, kill, release;
`StopAllVMs` visits the VMs in any order and clears the map at the end; the locked
disk operations are lock, body, unlock.  The host is `taps`, `jails`, `live` (the
process of a VM with the address it was given) and `disk` (an image is absent with
its directory, missing, partial or ready; `writer` is the `cp` that is filling it).

`VmPool` - what the manager promises: calls as single atomic steps on the map of
running VMs and the set of busy disks.  `VmManager!PoolSpec` instantiates it with
`processes` and `diskBusy`; it is checked by TLC and proved.

`VmApi` - extends `VmManager` with the table (`state`, `ip`, `name`) and the
requests (`stage`, `kind`, `target`, `newName`).  Every SQL statement is a step.
`DbFails` is the set of statements that may fail.  `Clients` says when a client
names a VM: `"patient"` once its create has been answered, `"serial"` only while no
other request on it is being served either.

`Sandfire` - extends `VmApi` with the life of the program: `phase`, the column
`was_running`, the loops of boot and shutdown (`queue`), processes that outlived
the program (`orphans`).  `Main` is the caller that boots and shuts down.  `Crash`
may happen at any step; table, disks, devices survive, memory does not, and any
subset of the processes survives.

`Certs` - the certificate manager.  `Enter` is the critical section of
`GetCertificate`: wait on the channel in `inProgress`, return the valid file, or
become the request that issues.  Issuing is one action per call to the CA, the DNS
provider or the file system; `pending` and `made` count the challenges of the order
and the DNS records whose IDs are at hand, `records` what the provider holds of the order
of a request, whether or not the program knows of it.  `Cancel` ends the context of a request, `Crash` the program; the
certificate, the account key and the records survive.  `Faults` switches on rare
failures.

`Disk` - the image of one stopped VM in more detail than `VmManager`, where a body
of a disk operation is one step: the length of the file (`size`), of the file system
in it (`fs`) and of its data (`used`), and one action per command of `ResizeExt4`,
`InspectExt4` and `ResetVMDisk`, any of which may fail or be the last before a
crash.  `recorded` is the column `disk_size_gb`, read and written after the lock
(`holder`) has been released.  `even`, `alone` and `sure` are history variables.

`Layercake` - the tool.  `Chain`, `TopologicalSort`, `Descendants`, `Effective`
(`graph.go`) and `Stale` (`status.go`) are recursive functions over the layers, and
`Visit` is the closure of `TopologicalSort`; the order of Go's map is any order
(`rank`).  `files` is the version of a layer's `layer.sh`, `layer.conf` and
`layer.secrets`; a version names a size (`Wants`) and may be exported (`Exports`).
`Edit` changes it to any other version, also an earlier one, at any time: a command
works with the sizes it loaded (`conf`), with the scripts as they are when it runs
them, and writes the hash of the files as they are at the end.  A command is the list
`todo` of layers to handle, and the building of a layer is one action per command or
file it makes.  `saved` is the version a `.build-hash` is of, and a layer is compared
with it as `status.go` does, by content; `newer` stands for the comparison of file
times.  Any step may fail, `Interrupt` may come at any step, and half-made images
stay.  Mounts that stay as well are behind the steps that may then fail: `Format`
after `dd` has run, `Copy` before it has written, the start of a build.  Two variables
are history: `content`, the layers and versions whose scripts made an image, and
`loose`, the layers whose last build was cut short or edited under.

`SshProxy` - one connection of a client.  Each session `s` has its channel, its menu
loop and its tunnel, three goroutines that end in any order; `link[s]` is the VM
connection it dialled.  `vmClient` is what the sessions share with the forwards,
`fwdClient` the connection that forwards of a pinned login dial on demand.

The theorems about a module are in the module of its name with `_proofs`:
`VmManager_proofs`, `VmApi_proofs` (which extends it), `Sandfire_proofs` (which
extends that), `Certs_proofs`, `Disk_proofs`, `Layercake_proofs`, `SshProxy_proofs`.
The `MC` modules give TLC its small sets. A definition written just above another
one with the same parameters (`KeepIP` above `ReleaseIP`) is a plausible slip in
that code; each property is known to fail when the slip replaces the original.

## Runs

| run | instance | what it shows |
|---|---|---|
| `mgr_safety` | 2 VMs, 2 callers, 2 addresses | `AddressesAccounted`, `LiveTracked`, `LiveAddressesDistinct`, `DiskExclusive`, `DiskBusyOwned`, `RegisteredHasDevices`, `LiveHasDisk`, and `PoolSpec` |
| `mgr_live` | 1 VM, 2 callers, 1 address | `CallsReturn`, `DiskBusyCleared` |
| `api_rows` | 2 VMs, 2 requests, serial clients, 1 address; any statement but the record of a stop may fail | `RegisteredVmsRecorded`, `RunningRowsTrue`, `SubdomainsReachOwnVm` |
| `life_crash` | 1 VM, 2 patient requests (all kinds but inspect and resize, which leave nothing that a crash could tear) and `Main`, 1 restart; any statement but those of boot may fail | `BootConsistent` after a crash at any step, `DeletedVmNotRunning` |
| `life_shutdown` | 1 VM, 2 patient requests, 2 restarts; any statement but those that clear the rows at shutdown may fail; no request in flight at the signal | `CleanShutdown`, `OneProcessPerDisk` |
| `life_restore` | 2 VMs, 1 request, 2 restarts | `RunningVmsRestored` |
| `certs_flight` | 1 VM, 2 requests, both challenges; contexts that end, a crash at any step, deletion and expiry | `OneIssuePerVM`, `NoNeedlessOrder`, `ServedWhole`, `RecordsRemoved`, `GetReturns` |
| `disk_requests` | 2 clients, half-GiB units, sizes of 1 and 2 GiB, OS images of 2 and 3 units | `DataInFsInFile`, `EvenResizeExact`, `RecordedTrue` |
| `layers` | 2 layers, each in 2 versions that replace each other at any time: a base layer that names less than the default, and a layer on it that in one version asks for more, in the other for just the default and to be exported; builds with and without `--force` and `--cascade` | `UpToDateMeansCurrent`, `BuildDelivers`, `SizeEffective`, `RowHasImage` |
| `ssh_shared` | 2 sessions (the second interactive), 2 forwards, of which 2 at a time are served; pinned login or not | `VmClientHeld`, `OneForwardClient`, `StatusTrue`, `ConnectionsReleased` |

Each module's type invariant is checked in one of its runs (`LifeTypeOK` includes
that of `VmApi`).  Two runs end in a
violation and document a disagreement between the code and its own words:

- `api_routing` - row writes of start and stop that land out of order leave a
  subdomain that leads to another guest (README.md:25 of the repository).
- `ssh_eof` - the end of what the user of a forward sends never reaches the target:
  server.go:1354 says "Signal EOF to target", but what `ssh.Client.Dial` returns is
  no `*net.TCPConn`.

### What the properties do not promise

- With two requests on one VM at a time a start and a stop can cross, and the VM
  stays registered behind a row that says stopped, so start, stop and delete all
  refuse it until the program restarts (hence the serial clients of `api_rows`).
  When the statement that records a stop fails, the row goes on saying running.
  When a client uses a VM whose create has not been answered, a delete and the copy
  of the disk can cross.  Two creates of one name at a time both succeed.  After
  each of these `BootConsistent` holds again at the next boot, but for the name.
- A start served after `StopAllVMs` outlives a graceful shutdown; `CleanShutdown`
  is stated for a signal that no request meets.
- A DNS record stays for good when the context of its request has ended or the
  program crashes, and also (`Faults`) when the answer to its creation is lost or
  its deletion fails.  A write cut short after the first PEM block (`Faults`) is
  served without its key.  A crash while the account key is written disables
  certificates at every later boot.
- A resize that failed half-way and is repeated succeeds at once, since only the
  file's length is compared (disk.go:176); `EvenResizeExact` therefore speaks of
  disks whose file system fills the file.  disk.go:166 says that a failed shrink
  "leaves the image untouched": it does not when the truncation fails, but nothing
  is lost (`DataInFsInFile`).
- A failed build leaves the `.build-hash` of the build before beside a half-made
  image.  The hash matches at once when the build was forced (`--force`,
  `--cascade`), and as soon as the edit that led to the build is undone: `status`
  then says up to date, and `build` skips the layer and succeeds (status.go:56-94,
  build.go:44-48).  The hash is taken at the end of a build, so files that were
  edited during it count as built (status.go:186-203).  All of this happens in the
  model, where the layers concerned are `loose`.  `UpToDateMeansCurrent` and
  `SizeEffective` are stated for layers that are `Settled`: neither they nor an
  ancestor is loose.  `BuildDelivers` holds a build to the layers that it built
  itself, whatever was left of them, and to the settled ones it skipped, if none was
  edited under it.  TLC refutes `UpToDateMeansCurrent` by each of the three ways when
  the condition is left out.
- A base layer that names no size cannot be formatted, and one that names less than
  the default gets that (build.go:547), against config.go:36 and graph.go:182-185; so
  do the layers on it that ask for no more.  `SizeEffective` states the size that an
  image really has.  An export registers the effective size by the present
  `layer.conf` files, also of a layer that is not up to date or smaller than that
  (export.go:161-170), and it copies an image or a kernel that is only half there.
- The end of a client does not end what it started.  The proxy closes the input of a
  remote command whose client has left, and waits; `sleep infinity` or `tail -f` then
  keeps its connection to the VM for as long as it likes.  `ConnectionsReleased` says
  that a connection is closed once it broke or its remote command has ended.  An
  on-demand connection whose dial ends after the client's connection was cleaned up
  stays open until the VM closes it.
- An output stream cut off with its connection ends like one read to its end, so
  `StatusTrue` does not exclude that a success is reported of a command whose last
  output was lost.

### Bounds

Two callers are what every race on a lock or a row of two steps needs; the routing
race needs three, and `api_routing` has them.  Two VMs with two addresses show a
mix-up of addresses; with one address (`api_rows`) the second VM always gets the
address the first one just gave back, and the pool is exhausted.  One VM suffices
where the property is about one VM and its row, its disk or its certificate: the
certificate manager's map keeps VMs apart.  One restart shows the state a crash
leaves; two show a crash during boot itself.  No invariant and no action property
depends on the bounds: all that the passing runs check are proved for every number
of VMs, requests, addresses, restarts, layers, sessions and forwards (below).  The
bounds matter for liveness, and for finding out what is true before it is proved.
`MaxStarts` bounds the restarts, so the last run of the program may end for good and
deadlock is not checked in the `life_` runs.

`MaxChallenges` is 2 in the code as well: a domain and its wildcard.  In `Disk`, OS
images of a GiB and of one and a half, with sizes of one and two, make every
resize grow, shrink or change nothing, a GiB rounded up differ from the length, and
a reset restore a larger size.  Two layers in two versions are the fewest in which a
parent is replaced under its child, an edit undone and an effective size differs from
the one named; the tool runs one command at a time, so nothing but edits overlaps.
Longer chains and trees are left to the proofs.  In `SshProxy`, `MaxChannels` bounds what is served
at a time to two: two sessions that both store `vmClient`, a session and a forward,
two forwards that dial at once; identities are used again, so that any number of
them follow each other.  The one connection ends for good, so deadlock is not
checked in the `ssh_` runs.

### Fairness

`FairSpec` of `VmManager` assumes that each goroutine in a call goes on taking steps
(strong fairness, since the step may be waiting for `mu`): external commands end,
the socket wait and the kill have time limits, and `sync.Mutex` hands the lock to a
starving waiter.  `LifeFairSpec` assumes that boot goes on and that the program is
started again (systemd, `Restart=on-failure`, or its operator); crashes are not fair
and bounded by `MaxStarts`.  `FairSpec` of `Certs` assumes that each call of a
request returns with a result or an error (the ACME client, the DNS requests and the
propagation wait all end), and nothing of clients, crashes or boot; every step is
weakly fair, because a waiter's channel, once closed, stays closed.  `SshFairSpec`
assumes that each call of a session returns and that a client takes the output of a
command that has ended, or leaves; it assumes nothing of remote commands, which may
run or be silent for ever whatever becomes of their input (`RemoteExit` and
`DropStream`, the write to a client that is gone, are not fair), nor of targets,
forwards or connections.

## Proofs

Every invariant and every action property of the passing runs is a theorem, and so is
the refinement of `VmPool`.  The hypotheses of a theorem, where it has any, are what
the constants of its run say; they are discussed with it.

`VmManager_proofs` proves, for all sets of VMs and callers and every address range
(`IPRangeAssumption`, `NoneAssumption`):

- `TypeCorrect`, then `InvCorrect` for the inductive invariant `Base /\ Inv`;
- from it `AddressesAccounted`, `LiveTracked`, `LiveAddressesDistinct`,
  `DiskExclusive`, `DiskBusyOwned`, `RegisteredHasDevices`, `LiveHasDisk`;
- `ImplementsPool`: `Spec => PoolSpec`, with the abstract step of each concrete one.

The named invariants are not inductive alone.  `LockInv` says who is inside the
mutex; `StartInv` what a start in progress owns (a VM neither registered nor busy,
an address of its own, no process before the jailer ran); `StopInv` that stop works
on a registered VM and stop-all has released exactly the VMs outside `todo`;
`AddressesDistinct` that registered VMs differ in address, which is what keeps
`ReleaseIP` from freeing the address of another VM; `DiskInv` that a mark has one
owner.  The proof has one case per action, grouped by the call it belongs to.
`Inv` is `Core` and `AddressesAccounted`: a boot that is given an address by a row
keeps `Core` and may break the other.  Each step keeps `Core`, and
`AddressesAccounted` where it held before (`Kept`).

`VmApi_proofs` proves, for any VMs, requests and names:

- `ApiImplementsManager`: `ApiSpec => Spec`.  The handlers call the manager as its
  specification allows, so all of the above holds behind the API;
- `ApiTypeCorrect`, and `DeletedVmNotRunningInApi` whichever statements fail;
- `RegisteredVmsRecordedCorrect` for serial clients, whichever statements fail;
  `RunningRowsTrueCorrect` and `SubdomainsReachOwnVmCorrect` for serial clients when
  the record of a stop does not fail.  Without these conditions they are false
  (above, and `api_routing`).

`ApiCore` adds to the manager's invariant which call a request is waiting for
(`ReqInv`), that only a running row has an address (`RowInv`), that the VM of a
create has no other request (`CreateInv`), and that a delete drops only rows of VMs
without directory and process (`DeleteInv`): a start of such a VM cannot get past
its jail.  `RecordInv`, for serial clients, follows a start or a stop between the
manager's change and the row (`WorkOK`) and says that all other VMs are as their rows
say (`Settled`).

`Sandfire_proofs` proves, for any number of crashes and restarts:

- `LifeTypeCorrect`, `DeletedVmNotRunningCorrect`, and of the manager's properties
  `LiveTrackedInEveryRun`, `LiveAddressesDistinctInEveryRun`,
  `DiskExclusiveInEveryRun`, with no hypothesis;
- `OneProcessPerDiskCorrect`, if boot recognises old processes (`OrphansFound`);
- `BootConsistentCorrect`, if besides the statements of boot succeed;
- `CleanShutdownCorrect`, if no request meets the signal (`QuietShutdown`), boot
  recognises old processes and the statements that list and clear rows succeed.

`LifeInv` is `ApiCore` with what `Main` does in each phase (`MainInv`) and what has
to be empty at rest (`PhaseInv`).  `OrphanInv` says that orphans are gone before
anything starts; `QuietInv` how far a shutdown has come; `BootInv` which rows a boot
has repaired: those of the VMs that are neither in the queue nor in `Main`'s hands.
The hypotheses on `DbFails` are those of `life_crash` and `life_shutdown`: main.go
goes on after these failures, so nothing repairs the row.

`Disk_proofs` proves, for any number of clients, any sizes asked for, any OS images
and any unit (`DiskAssumption`):

- `TypeCorrect`, `DataKept` (`DataInFsInFile`), `RecordKept` (`RecordedTrue`) and
  the action property `ResizeExact` (`EvenResizeExact`).

They follow from one inductive invariant, `IInv`.  `HolderInv`: whoever works on
the image holds its lock.  `PhaseInv`: how the size asked for relates to the file
and the file system at each command of a resize, which is what makes a truncation
safe.  `ImageInv`: the data fit the file system, and that the file unless a copy is
unfinished.  `AloneInv` and `RecordInv`: a request that overlaps with no other
records what the file still is.  One case per action, one step per part of `IInv`.

`Certs_proofs` proves, for any number of requests and VMs (`CertsAssumption`):

- `TypeCorrect`, `OneIssueCorrect` (`OneIssuePerVM`) and `NoNeedlessOrderCorrect`,
  whatever faults there are;
- `ServedWholeCorrect` (`ServedWhole`) if no write is cut short, and
  `RecordsRemovedCorrect` (`RecordsRemoved`) if no answer of the DNS provider is lost
  and no deletion fails.

Here `OneIssuePerVM` carries the rest: with the types it is inductive, and since one
request issues for a VM no other can write the file that it found invalid.  `NoneCut`
is what `ServedWhole` needs of the files, and `KnownRecords` what `RecordsRemoved`
needs: while its client stays, the IDs that an order has at hand are those of all its
records at the provider.

`SshProxy_proofs` proves `SshTypeCorrect`, `VmClientHeldCorrect`,
`OneForwardClientCorrect` and `StatusTrueCorrect`, for any number of sessions and
forwards.  `ClientInv` says whose connection `vmClient` is and that the goroutine
that closes it clears the variable first; `ForwardInv` that only the holder of
`fwdMu` dials, and only while there is no connection; `StatusInv` that a status is
sent last.

`Layercake_proofs` proves, for every tree of layers of any size, every order of the
map, all versions of the files, all exports and all sizes (`CakeAssumption`), through
any edits, failures and interruptions:

- `TopologicalSortCorrect` and `CascadeOrderCorrect`: the lists that `BuildAll` and
  `BuildCascade` work through hold the right layers, once each, parents first;
- `CakeTypeCorrect` and `RowHasImageCorrect`;
- `UpToDateCorrect`, `SizeEffectiveCorrect` and the action property
  `BuildDeliversCorrect`, with no hypothesis.

The recursive functions come first.  Each is shown to satisfy its equation
(`EffectiveDef`, `ChainDef`, `StaleDef`, `VisitDef`, `TopologicalSortDef`,
`DescendantsDef`) from one lemma, `Recursion`: a definition whose points are
well-founded has a solution, the union of its partial solutions.  Induction over the
parents (`ParentInduction`) or the children (`ChildInduction`) is the acyclicity of
`WellFormed` applied to the set of layers that have the property, and does not need
the library's induction theorems.  The invariant of the builds is `CakeInv`.  `StepInv` says what each step
knows of the list and the layer at work, `ImageInv` what its image is made of so far
(`MadeInv`) and how long it is (`GrownInv`), and that from the moment its image is
written its children have no hash or count as older (`ChildInv`), which is why a
parent cannot be replaced under a layer that looks up to date.  `SealedInv` is the
heart of it: a layer whose saved hashes are in order along its chain, and that is
settled, has an image of just the versions its chain's hashes name.  It speaks of the
hashes and not of the files, so an edit cannot disturb it, and an undone one needs no
argument of its own; `FreshSealed` adds what `~Stale` says of the files.  `ConfInv`
keeps the sizes a command has loaded together with the files as long as none is
`touched`.  `RowInv` and `DeliverInv` follow one command each from step to step.

Model-checked only: liveness (`CallsReturn`, `DiskBusyCleared`, `RunningVmsRestored`,
`GetReturns`, `ConnectionsReleased`), which the prover does not handle, and the two
violations.

## What is not modelled

Listings, health, the OS images' handlers; `startFirecrackerDirect` (`useJailer` is
always true); bridge and iptables rules; host parsing and error pages of the proxy;
`GetCertificateForTLS`, which parses what `GetCertificate` returns.  Of the SSH
proxy: authentication, agent forwarding (a relay of bytes within one session),
terminal modes and window sizes, the keystrokes of the menu.  Of layercake: parsing
of `layer.conf`, the bind mounts of devices in the chroot, the agent socket, the
suggested RAM; a change of `PARENT`, which makes another tree (the constant `Parent`),
and of `KERNEL_URL`, which is not looked at once the kernel's file is there.  The VNC relay copies bytes between two connections and keeps no
state; the UI consists of templates and scripts that call the handlers; the
configuration is a parser.

`cp` processes are taken to end with the program.  A failure of `umount` in
`cleanupJail` is ignored as the code ignores it.  Whether an orphaned process can be
recognised by its command line (`killOrphanedFirecrackerProcesses`) is the constant
`OrphansFound`, TRUE in the runs: the jailer is not part of this repository.
`e2fsck` and `resize2fs` are taken to do what their manuals say: the one replays the
journal and refuses a file shorter than its file system, the other never goes below
the data.

## Plan

The components that are listed as partly modelled are so for the parts named above.
What is left to prove is about what happens when a hypothesis fails: that
`RecordedTrue`-like agreement of rows and manager is lost for no other reason than
those listed under "What the properties do not promise"; and that the manager
implements `VmPool` in every run of `Sandfire` between a boot and a crash.
