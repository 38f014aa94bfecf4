# A TLA+ model of the sandbox

The program under `src/sandbox/sandbox` (Go) runs one command in new user, PID,
mount, UTS and network namespaces, under cgroup limits, a seccomp policy and a
root file system that it may download itself.  This directory holds TLA+ models
of the parts where processes, goroutines, files and failures meet, the TLC
configurations that check them, and TLAPS proofs.

## 1. The system

| part | state it keeps | operations |
|---|---|---|
| command line and configuration (`args.go`, `config/`) | a `Config` | parse, load, merge, validate |
| managed root file systems (`rootfs/rootfs.go`, `secure.go`) | a cache directory per version: entries, manifests, a lock file, temporary directories | `Resolve`, `ResolveRemote`, `provision`, `publishReplacement` |
| archive extraction (`rootfs/extract.go`) | the tree under construction, running totals | extract an entry, compare with limits, detect conflicts |
| resource limits (`resources/cgroup.go`, `storage.go`) | one cgroup directory, `RLIMIT_FSIZE` | check controllers, create, configure, attach, clean up |
| bridge networking (`network/bridge.go`, `iptables.go`) | `BridgeState`; links, routes and firewall rules of the host | set up, install rules, move the veth, tear down |
| the child's network (`configureChildIface` in `network/bridge.go`, `loopback_linux.go`, `mac.go`) | the devices of its namespace | disable IPv6, find the interface, name, address and raise it |
| parent (`parent/parent.go`) | the stack of deferred functions, the result, the pipe, the signal channel | one run from preflight to exit |
| interactive terminal (`parent/terminal.go`) | pty master, saved terminal state, two copiers, a resize goroutine | start, make raw, resize, close |
| configuration pipe (`internal/ipc/ipc.go`) | one framed snapshot | write, read |
| child and init (`child/child.go`) | the signal channel, the payload | read the snapshot, confine itself, start, reap, forward signals |
| mount isolation (`fs/isolation.go`) | the mount namespace | build and pivot into the new root |
| seccomp (`security/seccomp.go`) | a BPF filter | compile, install |

How they interact.  `main` parses a `Config` and calls `Parent`, which resolves
the root file system, prepares a cgroup, sets up the bridge and its rules and
starts itself again as the child.  The child blocks reading the pipe.  The
parent moves it into the cgroup, moves the veth into its namespace, makes the
terminal raw and only then writes the snapshot.  The child confines itself step
by step and becomes the init of its PID namespace, which starts the payload,
forwards signals to it and reaps whatever the payload leaves behind.  The parent
forwards signals to the init, waits, and runs its deferred clean-ups.  Several
runs on one host share two things only: the cache directory, which has a lock,
and the network of the host, which has none.

What is hard here:

* *Interleavings between processes.* Two runs read the host's routes before
  either has added its own; several runs want the same cache entry.
* *Failures in the middle.* Every command and system call may fail, clean-ups
  too, and a clean-up after a failed clean-up must neither forget nor repeat.
* *Crashes.* A run killed between two steps leaves files, links and rules for
  the next one to cope with.
* *Waiting.* Parent, init, two copiers, two signal forwarders, a resize
  goroutine and a pipe that may be full: everybody waits for somebody.
* *Ordering.* The child must be confined before it does anything; the resources
  must outlive their users; a root must be sealed after its targets were made
  and before anything is mounted on them.
* *Threads.* Capabilities, `no_new_privs` and the seccomp filter belong to threads,
  and the Go runtime decides which thread a goroutine runs on.
* *Flushing.* What survives a loss of power is not what was written but what was
  flushed, or happened to be.
* *Boundaries.* Sizes are multiplied by 2^20 or 2^30, zero means a default, jumps
  of a BPF program are relative, an archive lies about its sizes.
* *Names.* The root file system and the bind sources are directories of the
  host, whose processes may rename and remove what the child has just looked at.

`PROJECT.json` lists the hazards that matter most at their lines, with the properties
that cover them, or the reason why none does.

## 2. The modules

| module | role |
|---|---|
| `BridgeHost` | several bridge-mode runs on one host |
| `SubnetLease` | abstract: a subnet is leased to one run at a time |
| `RootfsCache` | several processes in one version directory of the cache |
| `VerifiedCache` | abstract: what the cache promises its callers |
| `SandboxLifecycle` | one run: parent, terminal goroutines, pipe, child, init, payload |
| `MountIsolation` | one child that builds its root on a host that changes |
| `ArchiveExtract` | the extraction of one archive, entry by entry |
| `CacheDurability` | `provision` on a machine that loses its power |
| `ResourceLimits` | several runs with cgroups below one delegated cgroup |
| `Confinement` | the threads of a child that gives up its privileges: state and steps |
| `SeccompFilter` | a BPF program, from the policy to the verdict on a call: state and steps |
| `ChildPrivileges` | composes the two: the child that installs the filter, and what runs under it |
| `TerminalSession` | the bytes and window sizes of an interactive run |
| `Configuration` | a configuration from command line and file to the child |
| `MC*` | one per specification above: instances for TLC |
| `ProvisionProofs` | theorems about `ArchiveExtract` and `CacheDurability` |
| `PayloadProofs` | theorems about `ChildPrivileges` (with `Confinement` and `SeccompFilter`) and `Configuration` |
| other `*Proofs` | theorems about `BridgeHost`, `RootfsCache`, `SandboxLifecycle`, `MountIsolation`, `ResourceLimits` and `TerminalSession` |

`SandboxLifecycle` is the frame: its single steps for extraction, cgroup,
confinement, terminal data and configuration are opened up by
the modules of the second half of the table, each with the environment that
`SandboxLifecycle` and the kernel give that part.

A definition whose comment starts with *Mutant* is a plausible bug in the
definition that follows it.  No specification uses it.  Put in the place of its
original it makes TLC report the property it is paired with in `PROJECT.json`;
that is how we know the property has teeth.

### BridgeHost

Every run is a process with a program counter `pc[s]`; an action is one `ip` or
`iptables` command together with the Go code around it, and has a disjunct for
its failure.  `ownedBridge`, `ownedVeth` and `firewall` are the fields of
`BridgeState`, `index` is the loop variable of `removeFirewallRulesLocked`, and
`hasState` says that `SetupParentBridge` returned a state, so that
`TeardownParentBridge` is deferred.  The host is `bridges`, `veths`,
`peerMoved`, `routes` and `chains`.  A prefix is the set of its addresses, so
`Prefix.Overlaps` is a non-empty intersection.  `ip route add` refuses a prefix
that is routed already but not one that contains a routed one; the check in
`setupParentBridge` after the own route was added must catch the rest.  Rules
are pairs of a run and a number 1 to 6, inserted at the head of a chain as
`-I chain 1` does; `Verdict` evaluates a chain as the kernel does.

Environment: a process may be killed at any step, the kernel may remove a veth
pair at any time once its peer was moved (the child may have died), somebody
may delete a bridge, and the host may get routes of its own.

Names with 48 random bits are taken to be distinct.

### RootfsCache

`pc[p]` follows `Provisioner.provision`, `lock` is the holder of the flock, and
a directory tree is abstracted to three facts: how much of the archive is in it,
whether the archive was the one with the pinned digest, and whether it has a
manifest for the release.  `Valid` looks at the manifest and the limits only, as
`validatePublishedRootfsFD` does.  `Publish` is `renameat2` with `NOREPLACE` or
`EXCHANGE`.  `provision` answers with a path (`returned`); the child opens it later, in
`IsolateRootFS` (`OpenRootfs`, then `using`), and the tree that it finds there has the
sandbox among its `users` from then on.  That goes with the tree when it is exchanged
or deleted, and so tells the tree a sandbox runs on from another one under its name.  Once the temporary directory exists every return passes through
`Cleanup`, the deferred removal, whose error makes the request fail.  Processes
crash (the kernel releases the lock, the files stay) and start again with a new
temporary name.  The version directory may hold debris at the start.  `misread` is
a history variable: the processes that, in this call of `provision`, took a good
entry for an invalid one because a read failed, which the code does not tell apart.

### SandboxLifecycle

`pc` follows `Parent`; `defers` is its stack of deferred functions, so an early
return at any point runs exactly the clean-ups that were registered by then, the
last one first.  `result` is the named result that clean-ups may change.  The
three long preliminaries are single steps here because they have modules of
their own or no concurrency: provisioning, bridge set-up, bridge removal.  The
child is `child`, whose labels are the steps of `Child` and `runInit` in the
order of the code.  Goroutines have their own variables: `input`, `output`,
`resize`, `forwarder`, `initForwarder`.  The snapshot is `small` (fits a pipe)
or `large` (the parent blocks until the child reads).

Wait statuses are modelled as what the kernel reports, and `Code` is the
translation that both `waitForChild` and `runInit` apply, so that the payload's
signal 15 becomes the init's exit code 143 and the parent's result 143.

Environment: the payload exits with a code or by a signal or handles signals;
it leaves a helper process to the init; the init or the parent is killed at any
moment; signals arrive; the host's standard output fails.

### MountIsolation

`pc` follows `IsolateRootFS`, after `Validate`, the policy on bind mounts that
the parent applies (`validateBindPolicies`).  A path is the sequence of its
components; `kind[p]` is what it is in the root file system at present and
`gen[p]` how often the host has replaced it.  A descriptor is what it was opened
at: `held` for the sources, `targets` for the targets, whose `Node` is the path
with the generations of its components.  `Found` is `openat2` with
`RESOLVE_NO_SYMLINKS` and `RESOLVE_BENEATH`: a symbolic link, like anything else
in the way, is `other` and refused.  The things to mount are
slots: `/dev`, the bind mounts, `/proc` and `resolv.conf`, gone through in three
different orders, as in the code.

A mount is put on a node, not on a name; `Lookup` finds the mount that a name
leads to, as the kernel does, and `Visible` is the check at the end of
`attachMount`.  `rootAttrs` and `nestedAttrs` are the attributes of the root
mount and of a file system that is mounted inside the source, at `NestedPath`
(`Verified` adds that for `/dev` and `/proc` the code compares no more than the type of
the file system, which something else under the name may have too): a
recursive clone carries it along, an overlay shows the directory below it.

`stage` is what of the `overlayStage` is left to undo, `stageDir` whether its
directory exists on the host, and `reported` whether an error of the clean-up
reached the caller.  `Unwind` is the deferred second attempt.

Environment: the host replaces a name of the root, or what a bind source path
means, between any two steps; every call fails; the child is killed; a payload
that was started writes wherever it can (`PayloadWrites`).  `changed` collects
what such writes, and those of `attachPrivateDev`, change on the host.

The links, device files and the devpts of `/dev` are one step (`PopulateDev`).

### ArchiveExtract

`pc` follows `extractArchiveWithProgress`: `next` takes any entry of `Entries`
(the archive is whatever sequence the steps choose), `write` and `copy` put it on
disk, `chmod` is the loop over `directoryModes` at the end.  `entries`,
`directoryModes` and the three counters are the variables of the code; `tree` is
the disk.  A name is the sequence that `strings.Split` returns, so that the rules
on dots, slashes and empty components are applied and not assumed; `Lexical` is
`path.Clean` written independently.  A file grows unit by unit and can fail at each.
A file that was abandoned is removed, or stays when that fails, for the code ignores
the error.  What a hard link to something behind a symbolic link finds is left open.

### CacheDurability

`disk` is what processes see and `kept` what a loss of power leaves of it.  A
flush moves a part from one to the other, and so does the kernel when it likes
(`Writeback`).  `Validate`, `WriteManifest`, `SyncManifest`, `SyncRootfs`,
`Publish` and `SyncVersion` are the steps of `provision` in its order.  `Accepts`
looks at the manifest only, as `validatePublishedRootfsFD` does.  One process
suffices, for there is a lock.  `unflushed` is a history variable: a run failed or died
between `Publish` and `SyncVersion`, and neither the kernel nor a later run has flushed
the version directory since.

### ResourceLimits

`pc[p]` follows `PrepareResourceLimits`, `Attach` and `Cleanup` with the file size limit
of the child in between; `written[p]` is the position in the list of files that
`configure` writes.  `path[p]` is `limit.path`, emptied when the directory is
gone.  A removed name may be given out again.  `delegated` shrinks when the owner
of the hierarchy takes a controller back, and the files of the controller with it.

### Confinement

Capability sets, `no_new_privs` and the filter are functions of threads.  `on` is
the thread of the goroutine that runs `Child`; `Migrate` moves it unless it is
locked, `NewThread` clones a thread of the runtime with what its creator has.
The steps are those of `Child` from `LockOSThread` on, with the kernel's rules on
who may take them; the payload is forked from `on` and its sets follow the rules
of `execve` for user 0.

### SeccompFilter

`instructions` is the program that `buildFilter` writes, instruction by
instruction; `Checked` is what the kernel demands of a program, and `Execute` runs
one instruction on the data of a call.  The tables of two architectures are those
of the source; a third stands for every other.  `initCalls` are the calls of the
init and of the Go runtime below it.

### ChildPrivileges

Extends `Confinement` and instantiates `SeccompFilter`, whose `pc` is `filter`
here.  `BuildFilter` comes first in `ApplySeccompFilter`, then `no_new_privs`, then
the program is given to the kernel for all threads; a policy that cannot be built
or a program that is rejected ends `Child`.  Once the payload runs, `SystemCall`
enters the kernel and executes the program on any of `Calls`.

### TerminalSession

The goroutines of `SandboxLifecycle`, here with what they carry.  Bytes are
numbered, so that a lost, doubled or misplaced one shows.  The pty holds
`PtyBuffer` bytes each way, writes to it are short when it is nearly full, and
`ChildGone` is the end of the last process on the slave side.  A window change
on the host posts a SIGWINCH, delivered only if `signal.Notify` is in effect and
the channel of capacity 1 has room.

### Configuration

`Discover`, `LoadConfig`, `ParseArgs`, `SnapshotEnvironment`, `Resolve`,
`WriteConfig` and `ReadConfig` in the order in which `main`, `Parent` and `Child`
call them, each with its errors.  `Validate` is applied at the three places the
code applies it.  A value that is not UTF-8 is replaced by `Encoded`, as
`json.Marshal` does.  Sizes are computed in words of width `MaxWord`.

## 3. What the runs check

| run | instance | properties |
|---|---|---|
| `bridge_nested` | two runs, the subnet of one inside that of the other, a host route that overlaps both | `TypeOK`, `SubnetExclusive`, `ImplementsLease` |
| `bridge_disjoint` | two runs with disjoint subnets, failing rule deletions | `NoLeakOnSuccess`, `UplinkPolicy`, `AtMostOneWay` |
| `rootfs_cache` | three processes, one key, reading may fail, with fairness | `TypeOK`, `ManifestMeansVerified`, `ServedVerified`, `NoTempLeft`, `InUseNotReplaced`, `NoNeedlessDownload`, `ImplementsCache`, `EveryRequestAnswered` |
| `lifecycle` | all 16 configurations, two signals, with fairness | `TypeOK`, `ConfinedFirst`, `StatusPreserved`, `CleanReturn`, `ReleaseOrder`, `EveryRunEnds`, `SignalReachesPayload` |
| `mount_isolation` | 20 configurations on three trees, two replacements | `TypeOK`, `ViewAsConfigured`, `HostChangesDeclared`, `StagingRemoved` |
| `archive_extract` | archives of up to five entries of a set with nested, odd, conflicting names | `EntriesSound`, `ExtractedAsArchived`, `WithinLimits` |
| `cache_durability` | one file at the top, one below, two attempts | `PublishedIsWhole`, `ProvisionedSurvives` |
| `resource_limits` | two runs, two names, requests at the width of the word | `LimitsHold`, `CgroupsAccounted` |
| `terminal` | two bytes each way, buffers of one, two sizes and one without dimensions, two changes | `SessionIntact`, `OutputDrains`, `SizeFollows` |
| `configuration` | all command lines of two flags over files that contradict them, all files under few command lines | `AsConfigured`, `ChildAgrees` |
| `child_privileges` | three threads, a kernel with fewer capabilities than names, policies of every length, three architectures | `PayloadConfined`, `CallsDecided`, `NeverRefused` |
| `terminal_tracks` | as `terminal`, nothing fails | `TracksResizing`, which the code does not keep: section 5 |

Some properties are conjunctions of parts that the modules define by name, the
type invariant among them; the parts are explained below.

* `SubnetExclusive`: the reading of the routes is not atomic with the addition
  of the own route, and yet two admitted runs never overlap: of two runs that
  race, the one that reads last sees the other.  Both may see each other and
  both give up; that is allowed.
* `ImplementsLease`: seen from outside, set-up is the atomic grant of a lease.
* `NoLeakOnSuccess`: a run that reports no error left no link, route or rule, although
  each deletion of its clean-up may have failed.  A set-up that failed reports an error
  whatever its rollback and the second attempt did, so of those it says nothing.
* `UplinkPolicy`: the verdict on traffic between a run and the uplink is the
  intended one.  It hangs on the order in which the rules of one run are tried; those
  of another run match none of its packets to or from the uplink.
* `AtMostOneWay`: whichever of two sandboxes installed its rules last, and while
  they are being installed and removed, connections are never possible from each
  to the other.
* `ManifestMeansVerified`, `ImplementsCache`: a manifest can be trusted although
  nothing else is looked at, and what is found under a key that was answered stays
  complete and verified while others go on provisioning.
* `ServedVerified`, an action property, is about the tree and not its name: a sandbox
  starts on a complete, verified tree within its limits, and that very tree stays the
  entry while the sandbox runs.
* `InUseNotReplaced`, `NoNeedlessDownload`: processes that waited for the lock
  look again; a request whose limits reject the entry never gets to exchange it.
* The last three exempt one process at one moment: one that misread a good entry.
  It downloads a second time, exchanges the entry under the sandboxes that run on it
  and deletes their tree (section 5).  Without the exemption TLC finds just that; with
  it the properties say that nothing else in the code does.
* `ConfinedFirst`: only the order of the parent's calls and the pipe keep the
  child from running before it is in its cgroup and has its interface.
* `StatusPreserved`, `CleanReturn`, `ReleaseOrder`: on every return path the
  result is the right one and what was made is undone in an order in which
  nobody uses what is gone.
* `EveryRunEnds`, `SignalReachesPayload`: nobody waits for ever.
* `ViewAsConfigured`: a child that enters its root finds there each mount that
  was asked for, made of the object that was opened and checked, with its attributes
  and no others, on a target of its name, and no mount hides another; the seal is on
  the root.  Were it set after the mounts, it would make the writable ones read-only.
  What the host puts under a name after its mount was verified is not seen, and
  nothing is claimed of it.  Neither the policy nor the second
  lookup suffices alone: the policy lets a bind mount on `/etc` pass next to
  DNS servers, which only the lookup refuses, and the lookup comes too early to
  see a later mount on a directory above.
* `HostChangesDeclared`: the seal is set after the targets were made and before
  the name `/dev` is looked up again to fill it; with the overlay it is what
  keeps those links, and the payload's writes, away from the host.
* `StagingRemoved`: every return path of `createOverlayRoot` and `IsolateRootFS`
  removes the staging directory or says that it could not.
* `EntriesSound` is `EntriesCompatible` (no name is a file and a directory),
  `NamesDenoteThemselves` (what is accepted is what `path.Clean` would say) and
  `DiskHoldsNoSurprise`.  With `ExtractedAsArchived`: the map of accepted entries is
  all that the checks look at, yet no order of entries makes the disk disagree with
  it, and the order has no influence on the result.
* `WithinLimits` is `DiskBounded` and `StatisticsOfTree`: the limits hold on disk at
  every moment, failures included, and the manifest's numbers are those of the tree.
* `PublishedIsWhole`, `ProvisionedSurvives`: the flushes come in an order in which
  no loss of power leaves half a publication, or takes away what was returned.  The
  second exempts a return on finding an entry (`Validate`), which flushes nothing, after
  a run that was cut short between rename and flush (`unflushed`; section 5).
* `LimitsHold` is `RunsUnderItsLimits` (between the check of the controllers and the
  payload's start a limit may vanish; then the run fails, it does not go on without
  it) and `FileSizeNeverWeaker`, for all combinations of inherited and requested
  limits.
* `CgroupsAccounted` is `PathIsOwn` and `LeftCgroupReported`: nobody removes another
  run's cgroup, and what is left behind was reported.
* `SessionIntact` is `InputInOrder`, `OutputComplete` and `SizeUsable`: nothing is lost
  in the copiers, nor when the session is closed while bytes are in the pty.
* `OutputDrains`, `SizeFollows`: output gets through while the input is stuck;
  coalesced signals lose no final size.
* `AsConfigured` is `Precedence` and `PayloadEnvironment`: two parses over different
  defaults bring back nothing; each variable comes from the right source, once.
* `ChildAgrees` is `SnapshotAccepted` and `LimitsAgree`: the child accepts what the
  parent accepted and completed; two interpretations of the limits are one.
* `PayloadConfined` is `PayloadHasWhatIsLeft` and `EverythingFiltered`, with a program
  that is installed: the calls act on one thread, the payload is forked from one
  thread, and these are the same; no thread that began before or in between is
  without the filter.
* `CallsDecided` is `DecidesByPolicy` (the relative jumps are right for every length of
  the list and both shapes of the prologue) and `InitSurvives` (the table of names
  keeps everybody from blocking what the init needs).
* `NeverRefused` is `NeverDenied` (the bounding set goes before the effective one, which
  must have SETPCAP until then, and the filter comes after `no_new_privs`; that SETPCAP
  is the last to leave the bounding set makes no difference to the kernel) and `NeverRejected` (the kernel accepts the program).

### Bounds

* Two runs in `BridgeHost`: exclusion is a property of pairs, and the proof
  covers any number.  `FewStuckRules` (with `MaxStuckRules`) bounds how many of
  the six deletions fail in one run, and `OneTroubled` lets only one of the two
  runs meet failures or a crash in `bridge_disjoint`, while the other inserts
  and removes its rules freely; both are state constraints of `MCBridgeHost`.
  One stuck rule is enough to have the rollback fail, the deferred clean-up try
  it again, and either succeed or fail.  In `bridge_nested` no deletion fails
  (`MaxStuckRules = 0`): its properties are about the routes.
* Three processes in `RootfsCache`: the limits of `p1` just meet the size of the
  archive, those of `p2` exceed it, those of `p3` fall short of it; two good ones
  and a bad one are what a conflict over one entry takes.  Keys share nothing but
  the lock, so one key is the worst case.
* `SandboxLifecycle`: channels of capacity 1 instead of 4 and 8, so that two
  signals overflow them.  `MaxSignals` bounds the signals of a run.
* `MountIsolation`: five lists of at most two bind mounts (none; two apart, one of
  them on the nested file system; two that overlap, in either order; one above
  `resolv.conf`), with and without a read-only root and DNS; a complete, an empty
  and an odd tree.  Hiding and overlapping are relations of two mounts.
  `MaxReplacements = 2` lets the host replace a name and what is below it, or
  the same name twice, at any two moments.
* `ArchiveExtract`: limits of 5 entries, 3 units in all and 2 in a file, below what
  the archives of `MCEntries` need, so that each is met and exceeded; conflicts
  are relations of two entries, implicit parents add a third.
* `CacheDurability`: `MaxAttempts = 2` trees are extracted: one to be published or
  lost, one to replace it.  `ProvisionProofs` has no such bound.
* `ResourceLimits`: `MaxWord = 63` and `UnitBytes = 16` scale a word of 64 bits and
  its unit together: four units overflow.  `MaxCleanups = 2` is the
  first call and one retry.
* `ChildPrivileges`: three threads are the goroutine's, the monitor and one that begins
  in between.  `LastCap = 3` of the kernel is below `LastName = 4` of the program.
  `MaxInsns = 32` in place of 4096: the longest program of the run has 33
  instructions, so that one is too long and the others are not.
* `TerminalSession`: `MaxTyped` and `MaxPrinted` are 2 and `PtyBuffer` is 1, so that it
  is full and writes are short; `MaxResizes = 2` suffices for a change that comes
  while the one before is being served, between the reading and the setting.
* `Configuration`: `UnitBytes = 4` and `MaxWord = 63`; two flags at a time, for a flag
  is in conflict with a file, a default or one other flag.

`CHECK_DEADLOCK FALSE` is set for the bridge runs, where every sandbox may have
exited, and for `mount_isolation`, where the child may have failed or been killed.  In
`SandboxLifecycle` the parent can always be killed until the run is over, so the deadlock check says little there and `EveryRunEnds` takes
its place.  The other modules have a step of their own for a run that is over.

### Fairness

`RootfsCache`: a process that can take its next step takes it (weak fairness),
which includes a server that finishes the body it began, because the code has no
timeout on it; and a waiter that finds the lock free again and again gets it
(strong fairness), because Linux wakes the waiters of an flock in turn.
Crashes, restarts and `OpenRootfs` are not fair.  The failures of calls are branches of the
actions, so fairness never makes a call succeed, except that the strong fairness
on the lock is on getting it.

`SandboxLifecycle`: every process and goroutine that can run is scheduled.  It
is not assumed that standard input ends, that signals arrive or that the helper
ends.  `copyInput` must return only once it was told to stop or the pty is hung
up.  `FairSpec` assumes nothing of the payload; `EveryRunEnds` has its own premise,
`PayloadEnds`: a payload ends unless nobody reads its output.

`TerminalSession`: the goroutines run when they can and a posted signal is
delivered (weak fairness); the host reads its standard output, which may fail but
does not block for ever.  Nothing is assumed of the user, who may never type, nor
of the payload, which may never read or end.  Under the same fairness
`terminal_tracks` finds its counterexample.

## 4. What is proved

The theorems hold for every value of the constants that meets the named
assumptions: any number of runs, processes, threads, keys, subnets, names and
replacements, any channel and buffer capacities, any width of a machine word, any
number of failures and crashes.  The assumptions say what kind of value a constant
is and that the marks for "nothing" (`Absent`, `None`, `Zero`) are not values.
Some say more:

* `BridgeConfigAssumption` gives every run a subnet, and keeps the uplink apart
  from the interfaces of the runs.
* `LimitsAssumption` of `ResourceLimits`: requests and inherited limits fit the
  word, as Go integers and `rlim_t` do.
* `ConfinementAssumption`: the kernel has SETPCAP and SYS_ADMIN, the requests are
  ALL or numbers that the program knows, and the runtime has a second thread.
* `BoundsAssumption` of `TerminalSession`: a pty holds at least one byte.
* `InputsAssumption`, `HostAssumption` and `NamesAssumption` of `Configuration`: flags
  and fields have values of their types, as package flag and the YAML decoder see to;
  environments are sequences of keys and values; TERM is a name that
  `environmentName` matches, and the empty string is UTF-8.
* `EntriesAssumption` of `ArchiveExtract`: a name has at least one component, which
  may be empty, as `strings.Split` never returns an empty slice.

Every theorem is proved the same way: an inductive invariant, one step per action,
and the property from it.  Induction over data, which the prover's library offers
only in a form that the installed provers cannot use, is done by least
counterexample where it is needed (see `ProvisionProofs` and `PayloadProofs`).  What the invariants add to the properties is the reason
why the code works:

* `BridgeHostProofs`.  `TypeCorrect` needs to know that the loop variable never
  passes the end of the list of rules (`RuleCount`).  `SubnetsExclude` and
  `BridgeImplementsLease` rest on `LeaseInv`: a run that holds its subnet
  has its route in the table until its bridge goes, and nobody holds a subnet
  while still in set-up.  Exclusion alone is not inductive: without the route
  the second reader would have nothing to see.
  `SuccessLeavesNothing` needs `OwnInv` (what is on the host is known to the state
  that `cleanup` works from, and as long as nothing failed each part of the clean-up
  is complete before the next begins) and `ChainsInv`: the chains hold exactly the
  rules that the states know of, each once, in its chain, and those of one run in
  the order of `firewallRules`, whatever was inserted or deleted between them.
  From `ChainsInv` alone follow `UplinkAsIntended` and `OneWayAtMost`: the rules of a
  run keep their order, and rules of others in between either do not match or
  decide the same (`AllAgree`); of two runs, each has the rule that refuses new
  connections before the one that lets its own out, and the two orders that would
  let both in contradict each other.
* `RootfsCacheProofs`.  `CacheInv` says that whoever is between `validate` and
  `unlock` holds the lock (`LockInv`), what is known of the archive and the tree
  at each step (`BuildInv`), that whoever is about to answer has a verified entry
  that fits its limits (`AnswerInv`), and where `ok` may be set (`OkInv`).  From
  it follow `TypeCorrect`, `ManifestsTrusted` and `ProvisionImplementsCache`.
  `EntriesInUseStay` and `DownloadsOnce` add `InUseInv`: what a process found wanting
  stays so while it builds, unless it misread it, and complete entries have
  their manifest.  `ServedEntriesVerified` takes both: a tree leaves its name only at
  `Publish` (`TreeKept`), and by `InUseInv` that is not under a sandbox unless the one
  who publishes misread.  `NoTempBehind` adds `TempInv`: there is a temporary directory
  only between its creation and its removal, or with an error on the way to the
  caller.
* `SandboxLifecycleProofs`.  `TypeCorrect`, and `ChildConfined` from
  `ConfinedInv`: a child lives only while the parent supervises it or has the
  deferred `terminateChild` on top of its stack (`Supervised`), the parent's label
  tells which preparations are done (`Progress`), and the pipe carries nothing
  before all of them are (`Handover`).  `ConfinedFirst` alone says nothing of the
  parent, whose next step could undo what the child relies on.
  `ReleasedInOrder` adds `StackInv`: the deferred functions lie on the stack in one
  order, without a gap that matters, at whichever label the function is left
  (`Stacked`, `InOrder`); what exists has its clean-up on the stack or was reported
  (`Owned`); what somebody uses exists (`InUse`).  `ReturnsClean` and `StatusKept`
  add `ReturnInv`: which value `result` has before and after the wait (`Outcome`),
  and how far the payload is when the init has a given label (`Ran`), so that the
  status the parent reads is that of the payload and not of another process.
* `MountIsolationProofs`.  `StagingGone` from `StageInv`: there is no staging
  before it is made, what exists of it can be undone until the function returns,
  it is gone before `pivot_root`, and what a failed clean-up leaves was reported.
  `TypeCorrect` needs `HoldInv`: the sources are held one by one and all of them
  before a target is made, for the kind of a target comes from its source.
  `HostProtected` from `HostInv`: past the preflight the root is an overlay or
  read-only, from the first mount on the seal covers the root and what is mounted
  inside it, and every bind mount that is not read-only was declared writable.
  `ViewComplete` from `TargetsInv` and `ViewInv`.  `TargetsInv`: the targets opened
  so far are those of the configuration in their order; whatever part of a
  target's path was not replaced since is still a directory (`TargetSound`);
  `resolv.conf` is above no other target.  `ViewInv`: the mounts are those of the
  configuration in the order of attachment, each on its target with its own
  attributes, and each that was verified is not hidden.  A verified mount is hidden only by a later one on
  the same node or above it; the same node would need two targets with one path,
  which the policy on bind mounts excludes but for `resolv.conf`, and one above is
  excluded by the order of attachment and, for `resolv.conf`, by the descriptor,
  which is a file while what leads to a sound target is a directory.
* `ProvisionProofs`, of the archive.  `AsArchived`, `NamesAreSound` and
  `LimitsHoldOnDisk` hold for any set of entries, any limits, archives of any length
  and any failures.  `TreeInv` says at each step what is on disk (`Reached`: the
  accepted entries with their parents, and of the entry at hand the parents made so
  far and the file begun), that the tree is closed under parents, that each node is
  what its entry asks for with the mode it has *by now* (`NodesInv`: everything
  allowed until the end, then from the deepest directory to the highest, `OrderInv`),
  and that the entry at hand conflicts with none before it (`CurInv`).  Hence there
  is never an obstacle (`NoObstacle`), which is `DiskHoldsNoSurprise`.  `TreeInv`
  ends with a failure; that the accepted names stay sound beyond it is `AcceptedInv`.
  `LimitsInv` counts: on disk are the bytes of the statistics and those of the file
  begun, for `WithinLimits` alone does not say that removing a file that is too long
  gives back just what it took; a file that stays after a failure is one unit too long
  at most (`LeftInv`).
  Three operators of the model are recursive: the sum of the file sizes, `Lexical`,
  and the least element of a set.  Instead of the library's induction the proofs take
  a least counterexample: `LeastMember` from the well-foundedness of `<`,
  `SmallestMember` for finite sets; `FoldExists` then gives a function for every
  recursion over a finite set (the definition of `MapThenFoldSet`), `SumFacts` the
  sum in any order, and `ValidNames` that for a name that passes
  `normalizeArchivePath`, `Lexical` and `Clean` agree.
  The proof found one mistake in the model: `Refusal` and `Obstacle` were `CASE`
  expressions with overlapping guards.  TLC takes the first that holds, as the code
  does, but by the definition of `CASE` any of them may be taken, and the reason of a
  refusal was undetermined.  They are `IF` chains now.
* `ProvisionProofs`, of the loss of power.  `PowerTypes`, `PublishedWhole` and `Survives`
  (an action property) from `DurableInv`: what is kept was written (`WrittenInv`), the
  present tree has what each step gave it (`BuildInv`), and its manifest and top are
  flushed before it is published, as are those of whatever is published on disk
  (`FlushInv`); and unless a run was cut short before its last flush, what the version
  directory names is what is kept of it whenever no run is between the two
  (`TargetInv`).  `PublishedIsWhole` speaks of what is kept only; without the same of
  the disk, the kernel's writeback of the rename could break it.
* `ResourceLimitsProofs`.  `CgroupsHaveOwners` from `AccountInv`: a run and its
  cgroup know each other until the run has removed it, which `PathIsOwn` says of one
  direction only.  `LimitsEnforced` from `LimitsInv`: of each file that `configure`
  has passed, the value is there, or the controller was taken away after all of its
  files were written (`WrittenSoFar`); and the files of one controller come and go
  together (`WholeCgroups`), so that one taken away half way makes the next write
  fail.
* `PayloadProofs`, of the privileges.  `PayloadStaysConfined` and `ChildNeverRefused` from
  `ConfinedInv`: the goroutine stays on its thread from the first step on, the
  thread's sets are exactly known at every step (`Drops`, `ThreadSets`), and the
  child and its filter go in step (`InStep`).  `CallsDecidedByPolicy` from
  `FilterInv`: before the instruction `ip` of the program is executed, the call has
  passed every check before it and the accumulator holds what the instruction
  compares (`Reached`), for a list of names of any length; that the kernel accepts
  the program is `Accepted`, from the same arithmetic of jumps.
* `PayloadProofs`, of the configuration.  `SettingsArrive` and `RulesAgree` from
  `ConfigInv`, which says what each stage may rely on: after the file, each field is
  what the sources before the flags say; from the parent on, the configuration is valid
  at every stage, and from `resolve` on its environment is complete.  The parts are
  facts about the loops of the code: that the flags set one after the other leave the
  last value of each field (`LastFlag`), that `Environment` gathers the first entry of
  every whitelisted key that `env_vars` has not (`GatheredStep`), that TERM is replaced
  and nothing else (`KeptStep`); that the pipe keeps the keys and what `Validate` looks
  at (`MarshalFacts`); and that a product which fits the word is not changed by it
  (`SizesFit`).  `SomeFold` gives the functions that these folds define.
* `TerminalSessionProofs`.  `SessionKeepsAll` from `InputInv` and `OutputInv`: what was
  taken from the source is, in this order, at the destination, in the pty and in the
  copier, and the copier reads again only when it has written everything; output
  ends only after the payload, with nothing left.  `SizeInv` keeps the size without
  dimensions from the pty while it is being set.  The lemmas on sequences (`Cut`,
  `HeadMoves`, `BytesContinue`, `BytesBegin`) say that cutting and moving bytes
  keeps their order.

Model-checked only:

* the liveness properties (`EveryRequestAnswered`, `EveryRunEnds`,
  `SignalReachesPayload`, `OutputDrains`, `SizeFollows`), which need fairness and
  `ENABLED` and are beyond the prover.  Every safety property that a passing run checks
  is proved.

## 5. Where the code and its words differ

One run expects a violation: `terminal_tracks`, `TracksResizing`.  The README says
that `--interactive` tracks resizing; a change after `start` has read the size and
before `watchResize` asks for SIGWINCH is not seen until the next one.

Three more sentences say more than the code does; the models follow the code, and
their properties are stated accordingly.

* The comment above `dropCapabilities` in `child.go` says that the executable gets no
  capabilities; with a list other than ALL it has those that are not listed
  (`PayloadHasWhatIsLeft`), and with an empty list all of them.
* The README says that whitelisted variables are copied; a value that is not UTF-8
  arrives changed, because the snapshot is JSON (`PayloadEnvironment`).
* The comment on `Resolve` promises the completed rootfs; after a loss of power an
  entry whose manifest was flushed and whose files were not is accepted
  (`PublishedIsWhole` stops at the manifest and the names at the top).

Other behaviours met while modelling, of which no comment, test or document
speaks.

* Between the return of `cmd.Wait` and the closing of `done` a signal may be sent
  to a process id that is free again; the same window exists in `runInit`.
* A signal that reaches the child before its `Notify` ends it with status 2.
* When the host's standard output fails nobody drains the pty, and a payload
  that goes on writing blocks with everyone who waits for it.
* The body of a download has no timeout while the lock is held.
* A passing read error makes `provision` exchange an entry in use and delete the tree
  that a sandbox runs on.
* When a run is cut short between the rename and the flush of the version directory, the
  next one finds the entry valid and returns it without a flush; a loss of power may
  then take it away as a whole.
* A child that is killed while it builds its root leaves its staging directory in
  the host's temporary directory, and nobody looks for it later.

## 6. What is not modelled

* The child's own network (`configureChildIface`, `loopback_linux.go`, `mac.go`): a
  fixed sequence of commands in its own namespace, each of which ends the child when
  it fails; one fallible step of the child in `SandboxLifecycle`.
* Formatting and logging, the progress display (`progress.go`), build stubs.
* Syntax: addresses, URLs, YAML, names of capabilities, `/proc/self/cgroup`, the
  length header of the snapshot.  Each is one success or failure.
* Of `fs/isolation.go`: the single files of `/dev`, the contents of `resolv.conf`,
  the closing of descriptors.  In `SandboxLifecycle` the whole function is one
  fallible step (`rootfs`).
* The decompression of archives and HTTP, which are libraries: a download or an
  entry is delivered, delivered in part, or fails.
* `testprobe`, a payload of the integration tests; `src/sandbox/demo`,
  `src/examples`, `src/docs`: not part of the program.

Three hazards have no property: a download that stops sending while the lock is held
(an assumption of the fairness instead), extracted files that a loss of power
may leave empty, which the code does not exclude, and a parent that is killed, whose
child ends by `Pdeathsig` (an assumption on the kernel) and whose cgroup, bridge and raw
terminal nobody undoes.

## 7. Plan

Done, in the order of importance: what is shared without a lock (bridge), shared
with one (cache), the run, its root file system; then what those treat as single
steps: extraction, loss of power, cgroups, confinement, filter, terminal data,
configuration.  To come:

1. The safety that the liveness properties rest on: that in each state in which a
   request, a run or the output is not finished, a step that fairness speaks of
   exists, as invariants with proofs.
2. A composition of `SandboxLifecycle` with an abstract bridge and cache, several
   runs at once.
