-------------------------- MODULE SandboxLifecycle --------------------------
(***************************************************************************)
(* One run of the sandbox: the process of Parent (parent/parent.go), its   *)
(* terminal goroutines (parent/terminal.go), the child it starts as init   *)
(* of a new PID namespace (child/child.go), the pipe that carries the      *)
(* configuration between them (internal/ipc/ipc.go), the signal forwarders *)
(* of both, the payload, and a helper process that the payload may leave   *)
(* to the init.  Every call that can fail may fail; the child or the       *)
(* parent may be killed at any moment.                                     *)
(*                                                                         *)
(* What the parent does before it asks for signals (validation, rootfs     *)
(* provisioning, see RootfsCache) is one step here, and so are the set-up  *)
(* and the removal of the bridge, whose commands BridgeHost models.        *)
(***************************************************************************)
EXTENDS Naturals, Sequences

CONSTANTS
  Configs,        \* the configurations a run may be asked for
  SignalBuffer,   \* capacity of the parent's signal channel (4 in Parent)
  InitBuffer,     \* capacity of the init's signal channel (8 in runInit)
  MaxSignals      \* bound on the signals sent to the parent in a run

\* What a Config asks for that matters here; snapshot says whether its encoding
\* fits the buffer of a pipe.
ConfigTypes ==
  [interactive : BOOLEAN, bridge : BOOLEAN, limits : BOOLEAN,
   snapshot : {"small", "large"}]

ASSUME LifecycleAssumption ==
  /\ Configs \subseteq ConfigTypes
  /\ SignalBuffer \in Nat \ {0}
  /\ InitBuffer \in Nat \ {0}
  /\ MaxSignals \in Nat

VARIABLES
  cfg,            \* the configuration of this run
  pc,             \* the next step of Parent
  result,         \* its named result
  defers,         \* the deferred functions, last one last
  childReaped,    \* its local variable of that name
  failed,         \* the clean-ups that reported an error
  cgroup,         \* the resource cgroup exists
  attached,       \* the child was moved into it
  bridge,         \* the bridge, veth pair and rules exist
  moved,          \* the veth peer is in the child's network namespace
  readEnd,        \* the parent holds the read end of the pipe
  writeEnd,       \* the parent holds the write end
  pipe,           \* the snapshot: how much was sent and how much read
  tty,            \* mode of the host terminal
  saved,          \* interactiveTerminal.state is set
  master,         \* the parent holds the master side of the pty
  inputStop,      \* the channel inputStop is closed
  input,          \* the goroutine copyInput
  output,         \* the goroutine copyOutput
  outputLost,     \* copyOutput gave up because the host's stdout failed
  resize,         \* the goroutine of watchResize
  signals,        \* number of signals in the parent's channel
  forwarder,      \* the goroutine forwardSignals
  sent,           \* number of signals sent to the parent so far
  child,          \* the next step of Child, and what became of it
  childStatus,    \* its wait status
  initSignals,    \* number of signals in the init's channel
  initForwarder,  \* the goroutine forwardPayloadSignals
  payload,        \* the payload process
  payloadStatus,  \* its wait status
  signaled,       \* the payload was sent a signal
  helper          \* a process of the namespace whose parent is the init

parentVars == <<pc, result, defers, childReaped, failed>>
hostVars == <<cgroup, attached, bridge, moved>>
pipeVars == <<readEnd, writeEnd, pipe>>
copyVars == <<input, output, outputLost>>
termVars == <<tty, saved, master, inputStop, copyVars, resize>>
signalVars == <<signals, forwarder, sent>>
childVars == <<child, childStatus, initSignals, initForwarder>>
payloadVars == <<payload, payloadStatus, signaled, helper>>
vars == <<cfg, parentVars, hostVars, pipeVars, termVars, signalVars,
          childVars, payloadVars>>

\* Wait statuses, and the exit code that parent and init make of one.
Exited(n) == [how |-> "exit", n |-> n]
Signaled(n) == [how |-> "signal", n |-> n]
NoStatus == [how |-> "none", n |-> 0]
SIGKILL == 9
SIGTERM == 15
Code(status) == IF status.how = "exit" THEN status.n ELSE 128 + status.n

ParentLabels ==
  {"preflight", "limits", "bridge", "firewall", "pipe", "start", "closeRead",
   "attach", "move", "makeRaw", "write", "writing", "closeWrite", "wait",
   "join", "return", "closing", "exited", "crashed"}

Deferred == {"cgroup", "bridge", "pipe", "terminal", "resize", "child"}

\* The steps of Child between the snapshot and runInit, each of which may fail.
NextStep ==
  [fileSize |-> "network", network |-> "rootfs", rootfs |-> "chdir",
   chdir |-> "capabilities", capabilities |-> "seccomp", seccomp |-> "lookPath",
   lookPath |-> "notify"]
SetupLabels == DOMAIN NextStep
InitLabels == {"notify", "startPayload", "reap", "finish"}
ChildLabels == {"none", "read", "zombie", "reaped"} \cup SetupLabels \cup InitLabels

Init ==
  /\ cfg \in Configs
  /\ pc = "preflight" /\ result = 1 /\ defers = <<>>
  /\ childReaped = FALSE /\ failed = {}
  /\ cgroup = FALSE /\ attached = FALSE /\ bridge = FALSE /\ moved = FALSE
  /\ readEnd = FALSE /\ writeEnd = FALSE /\ pipe = "empty"
  /\ tty = "cooked" /\ saved = FALSE /\ master = FALSE /\ inputStop = FALSE
  /\ input = "none" /\ output = "none" /\ outputLost = FALSE /\ resize = "none"
  /\ signals = 0 /\ forwarder = "none" /\ sent = 0
  /\ child = "none" /\ childStatus = NoStatus
  /\ initSignals = 0 /\ initForwarder = "none"
  /\ payload = "none" /\ payloadStatus = NoStatus /\ signaled = FALSE
  /\ helper = "none"

-----------------------------------------------------------------------------
(* Processes and their ends.                                               *)

ChildAlive == child \notin {"none", "zombie", "reaped"}
ChildGone == child \in {"zombie", "reaped"}

\* The init of a PID namespace takes every other process of it along.
NamespaceDies ==
  /\ payload' = IF payload \in {"running", "zombie"} THEN "gone" ELSE payload
  /\ helper' = IF helper \in {"running", "zombie"} THEN "gone" ELSE helper
  /\ initForwarder' = IF initForwarder = "running" THEN "gone" ELSE initForwarder
  /\ UNCHANGED <<payloadStatus, signaled>>

ChildEnds(status, becomes) ==
  /\ child' = becomes
  /\ childStatus' = status
  /\ NamespaceDies
  /\ UNCHANGED initSignals

\* Parent and child: a step to the next label, an early `return 1'.
GoTo(label) == pc' = label /\ UNCHANGED result
ReturnError == pc' = "return" /\ result' = 1
Defer(f) == defers' = Append(defers, f)
ChildReturns(code) == ChildEnds(Exited(code), "zombie")

-----------------------------------------------------------------------------
(* Parent, up to the start of the child.                                   *)

Preflight ==
  /\ pc = "preflight"
  /\ GoTo("limits") \/ ReturnError
  /\ UNCHANGED <<cfg, defers, childReaped, failed, hostVars, pipeVars, termVars,
                 signalVars, childVars, payloadVars>>

\* Mutant: the directory of limits that cannot be configured is forgotten.
PrepareLimitsLeaks ==
  /\ pc = "limits"
  /\ \/ GoTo("bridge") /\ Defer("cgroup") /\ cgroup' = cfg.limits
     \/ cfg.limits /\ ReturnError /\ cgroup' \in BOOLEAN /\ UNCHANGED defers
  /\ UNCHANGED <<cfg, childReaped, failed, attached, bridge, moved, pipeVars, termVars,
                 signalVars, childVars, payloadVars>>

\* PrepareResourceLimits removes the directory it made when it cannot configure
\* it, which may fail as well.
PrepareLimits ==
  /\ pc = "limits"
  /\ \/ GoTo("bridge") /\ Defer("cgroup") /\ cgroup' = cfg.limits /\ UNCHANGED failed
     \/ /\ cfg.limits
        /\ ReturnError
        /\ \/ UNCHANGED <<cgroup, failed>>
           \/ cgroup' = TRUE /\ failed' = failed \cup {"cgroup"}
        /\ UNCHANGED defers
  /\ UNCHANGED <<cfg, childReaped, attached, bridge, moved, pipeVars, termVars,
                 signalVars, childVars, payloadVars>>

\* SetupParentBridge cleans up after itself, or reports that it could not.
SetupBridge ==
  /\ pc = "bridge"
  /\ \/ ~cfg.bridge /\ GoTo("pipe") /\ UNCHANGED <<defers, bridge, failed>>
     \/ cfg.bridge /\ GoTo("firewall") /\ Defer("bridge") /\ bridge' = TRUE /\ UNCHANGED failed
     \/ /\ cfg.bridge
        /\ ReturnError
        /\ \/ UNCHANGED <<bridge, failed>>
           \/ bridge' = TRUE /\ failed' = failed \cup {"bridge"}
        /\ UNCHANGED defers
  /\ UNCHANGED <<cfg, childReaped, cgroup, attached, moved, pipeVars, termVars,
                 signalVars, childVars, payloadVars>>

SetupFirewall ==
  /\ pc = "firewall"
  /\ GoTo("pipe") \/ ReturnError
  /\ UNCHANGED <<cfg, defers, childReaped, failed, hostVars, pipeVars, termVars,
                 signalVars, childVars, payloadVars>>

CreatePipe ==
  /\ pc = "pipe"
  /\ \/ GoTo("start") /\ Defer("pipe") /\ readEnd' = TRUE /\ writeEnd' = TRUE
     \/ ReturnError /\ UNCHANGED <<defers, readEnd, writeEnd>>
  /\ UNCHANGED <<cfg, childReaped, failed, hostVars, pipe, termVars, signalVars,
                 childVars, payloadVars>>

\* cmd.Start, or terminal.start with its two copying goroutines.
Start ==
  /\ pc = "start"
  /\ \/ /\ GoTo("closeRead")
        /\ child' = "read"
        /\ IF cfg.interactive
           THEN /\ Defer("terminal")
                /\ master' = TRUE /\ input' = "poll" /\ output' = "copy"
           ELSE UNCHANGED <<defers, master, input, output>>
     \/ ReturnError /\ UNCHANGED <<child, defers, master, input, output>>
  /\ UNCHANGED <<cfg, childReaped, failed, hostVars, pipeVars, tty, saved,
                 inputStop, outputLost, resize, signalVars, childStatus,
                 initSignals, initForwarder, payloadVars>>

\* Mutant: the parent keeps its copy of the read end.
CloseReadKeeps ==
  /\ pc = "closeRead"
  /\ GoTo("attach")
  /\ IF cfg.interactive
     THEN resize' = "running" /\ defers' = defers \o <<"resize", "child">>
     ELSE UNCHANGED resize /\ Defer("child")
  /\ UNCHANGED <<cfg, childReaped, failed, hostVars, pipeVars, tty, saved,
                 master, inputStop, copyVars, signalVars, childVars, payloadVars>>

\* The child has its own copy of the read end: the parent gives up its one, so
\* that a write fails once the child is dead.
CloseRead ==
  /\ pc = "closeRead"
  /\ GoTo("attach")
  /\ readEnd' = FALSE
  /\ IF cfg.interactive
     THEN resize' = "running" /\ defers' = defers \o <<"resize", "child">>
     ELSE UNCHANGED resize /\ Defer("child")
  /\ UNCHANGED <<cfg, childReaped, failed, hostVars, writeEnd, pipe, tty, saved,
                 master, inputStop, copyVars, signalVars, childVars, payloadVars>>

-----------------------------------------------------------------------------
(* Parent, from the start of the child to its end.                         *)

\* Mutant: an error of Attach is logged and the run goes on.
AttachIgnoresError ==
  /\ pc = "attach"
  /\ GoTo("move")
  /\ \/ attached' = cfg.limits
     \/ UNCHANGED attached
  /\ UNCHANGED <<cfg, defers, childReaped, failed, cgroup, bridge, moved, pipeVars,
                 termVars, signalVars, childVars, payloadVars>>

Attach ==
  /\ pc = "attach"
  /\ \/ GoTo("move") /\ attached' = cfg.limits
     \/ cfg.limits /\ ReturnError /\ UNCHANGED attached
  /\ UNCHANGED <<cfg, defers, childReaped, failed, cgroup, bridge, moved, pipeVars,
                 termVars, signalVars, childVars, payloadVars>>

\* MoveVethToChild needs a child that has a namespace still.
MoveVeth ==
  /\ pc = "move"
  /\ \/ ~cfg.bridge /\ GoTo("makeRaw") /\ UNCHANGED moved
     \/ cfg.bridge /\ ChildAlive /\ GoTo("makeRaw") /\ moved' = TRUE
     \/ cfg.bridge /\ ReturnError /\ UNCHANGED moved
  /\ UNCHANGED <<cfg, defers, childReaped, failed, cgroup, attached, bridge, pipeVars,
                 termVars, signalVars, childVars, payloadVars>>

\* makeRaw undoes its own work when it cannot finish it; the state is published
\* for close only when all is done.
MakeRaw ==
  /\ pc = "makeRaw"
  /\ \/ ~cfg.interactive /\ GoTo("write") /\ UNCHANGED <<tty, saved, failed>>
     \/ cfg.interactive /\ GoTo("write") /\ tty' = "raw" /\ saved' = TRUE /\ UNCHANGED failed
     \/ /\ cfg.interactive
        /\ ReturnError
        /\ \/ UNCHANGED <<tty, failed>>
           \/ tty' = "raw" /\ failed' = failed \cup {"terminal"}
        /\ UNCHANGED saved
  /\ UNCHANGED <<cfg, defers, childReaped, hostVars, pipeVars, master, inputStop,
                 copyVars, resize, signalVars, childVars, payloadVars>>

\* Somebody could still read what is written into the pipe.
HasReader == readEnd \/ child = "read"

\* WriteConfig: a large snapshot goes in two parts, the second one when the
\* child has taken the first; without a reader the write fails.
WriteConfig ==
  /\ pc = "write"
  /\ \/ /\ HasReader
        /\ IF cfg.snapshot = "small"
           THEN GoTo("closeWrite") /\ pipe' = "all"
           ELSE GoTo("writing") /\ pipe' = "part"
     \/ ReturnError /\ UNCHANGED pipe
  /\ UNCHANGED <<cfg, defers, childReaped, failed, hostVars, readEnd, writeEnd,
                 termVars, signalVars, childVars, payloadVars>>

WriteRest ==
  /\ pc = "writing"
  /\ \/ HasReader /\ pipe = "drained" /\ GoTo("closeWrite") /\ pipe' = "all"
     \/ ~HasReader /\ ReturnError /\ UNCHANGED pipe
  /\ UNCHANGED <<cfg, defers, childReaped, failed, hostVars, readEnd, writeEnd,
                 termVars, signalVars, childVars, payloadVars>>

CloseWrite ==
  /\ pc = "closeWrite"
  /\ GoTo("wait")
  /\ writeEnd' = FALSE
  /\ forwarder' = "running"
  /\ UNCHANGED <<cfg, defers, childReaped, failed, hostVars, readEnd, pipe, termVars,
                 signals, sent, childVars, payloadVars>>

\* cmd.Wait returns, and the channel done is closed.
Wait ==
  /\ pc = "wait" /\ child = "zombie"
  /\ GoTo("join")
  /\ child' = "reaped"
  /\ UNCHANGED <<cfg, defers, childReaped, failed, hostVars, pipeVars, termVars,
                 signalVars, childStatus, initSignals, initForwarder, payloadVars>>

\* The forwarder has returned; waitForChild translates the wait status.
Join ==
  /\ pc = "join" /\ forwarder = "done"
  /\ pc' = "return"
  /\ result' = Code(childStatus)
  /\ childReaped' = TRUE
  /\ UNCHANGED <<cfg, defers, failed, hostVars, pipeVars, termVars, signalVars,
                 childVars, payloadVars>>

-----------------------------------------------------------------------------
(* Parent, the deferred functions: the last one first.                     *)

Returning(f) == pc = "return" /\ defers # <<>> /\ defers[Len(defers)] = f
Pop == defers' = SubSeq(defers, 1, Len(defers) - 1)

\* A clean-up that fails turns a result of zero into one.
Cleaned == UNCHANGED <<result, failed>>
CleanupFails(f) ==
  /\ failed' = failed \cup {f}
  /\ result' = IF result = 0 THEN 1 ELSE result

\* terminateChild: SIGKILL, and the wait for the end of the namespace.
TerminateChild ==
  /\ Returning("child") /\ Pop
  /\ IF childReaped THEN UNCHANGED <<childVars, payloadVars>>
     ELSE IF ChildAlive THEN ChildEnds(Signaled(SIGKILL), "reaped")
     ELSE child' = "reaped" /\ UNCHANGED <<childStatus, initSignals, initForwarder, payloadVars>>
  /\ UNCHANGED <<cfg, pc, result, childReaped, failed, hostVars, pipeVars, termVars,
                 signalVars>>

StopResize ==
  /\ Returning("resize") /\ Pop
  /\ resize' = "done"
  /\ UNCHANGED <<cfg, pc, result, childReaped, failed, hostVars, pipeVars, tty, saved,
                 master, inputStop, copyVars, signalVars, childVars, payloadVars>>

\* interactiveTerminal.close asks copyInput to stop and waits for both copiers.
TerminalClose ==
  /\ Returning("terminal")
  /\ pc' = "closing"
  /\ inputStop' = TRUE
  /\ UNCHANGED <<cfg, result, defers, childReaped, failed, hostVars, pipeVars, tty,
                 saved, master, copyVars, resize, signalVars, childVars, payloadVars>>

\* Mutant: the master is closed without waiting for copyInput.
TerminalRestoreEarly ==
  /\ pc = "closing" /\ output = "done"
  /\ pc' = "return" /\ Pop
  /\ master' = FALSE
  /\ tty' = (IF saved THEN "cooked" ELSE tty) /\ Cleaned
  /\ UNCHANGED <<cfg, childReaped, hostVars, pipeVars, saved, inputStop, copyVars,
                 resize, signalVars, childVars, payloadVars>>

TerminalRestore ==
  /\ pc = "closing" /\ input = "done" /\ output = "done"
  /\ pc' = "return" /\ Pop
  /\ master' = FALSE
  /\ LET restored == IF saved THEN "cooked" ELSE tty IN
     \/ tty' = restored /\ Cleaned
     \/ tty' \in {restored, tty} /\ CleanupFails("terminal")
  /\ UNCHANGED <<cfg, childReaped, hostVars, pipeVars, saved, inputStop, copyVars,
                 resize, signalVars, childVars, payloadVars>>

ClosePipe ==
  /\ Returning("pipe") /\ Pop
  /\ readEnd' = FALSE /\ writeEnd' = FALSE
  /\ UNCHANGED <<cfg, pc, result, childReaped, failed, hostVars, pipe, termVars,
                 signalVars, childVars, payloadVars>>

TeardownBridge ==
  /\ Returning("bridge") /\ Pop
  /\ \/ bridge' = FALSE /\ Cleaned
     \/ UNCHANGED bridge /\ CleanupFails("bridge")
  /\ UNCHANGED <<cfg, pc, childReaped, cgroup, attached, moved, pipeVars, termVars,
                 signalVars, childVars, payloadVars>>

\* rmdir refuses a cgroup with a process in it.
CleanupCgroup ==
  /\ Returning("cgroup") /\ Pop
  /\ \/ ~(attached /\ ChildAlive) /\ cgroup' = FALSE /\ Cleaned
     \/ cgroup /\ UNCHANGED cgroup /\ CleanupFails("cgroup")
  /\ UNCHANGED <<cfg, pc, childReaped, attached, bridge, moved, pipeVars, termVars,
                 signalVars, childVars, payloadVars>>

Exit ==
  /\ pc = "return" /\ defers = <<>>
  /\ pc' = "exited"
  /\ UNCHANGED <<cfg, result, defers, childReaped, failed, hostVars, pipeVars, termVars,
                 signalVars, childVars, payloadVars>>

-----------------------------------------------------------------------------
(* The goroutines of the parent.                                           *)

\* forwardSignals sends a signal on to the child.  Before the child asked for
\* signals the Go runtime ends it with status 2, or, when it has just been
\* executed, the kernel drops what an init has no handler for.
ForwardSignal ==
  /\ forwarder = "running" /\ signals > 0
  /\ signals' = signals - 1
  /\ CASE child \in InitLabels \ {"notify"} ->
            /\ initSignals' = IF initSignals < InitBuffer THEN initSignals + 1 ELSE initSignals
            /\ UNCHANGED <<child, childStatus, initForwarder, payloadVars>>
       [] ChildAlive /\ child \notin InitLabels \ {"notify"} ->
            \/ ChildReturns(2)
            \/ UNCHANGED <<childVars, payloadVars>>
       [] ~ChildAlive -> UNCHANGED <<childVars, payloadVars>>
  /\ UNCHANGED <<cfg, parentVars, hostVars, pipeVars, termVars, forwarder, sent>>

ForwarderStops ==
  /\ forwarder = "running" /\ pc = "join"
  /\ forwarder' = "done"
  /\ UNCHANGED <<cfg, parentVars, hostVars, pipeVars, termVars, signals, sent,
                 childVars, payloadVars>>

\* copyInput polls with a timeout, and looks at inputStop in between; the write
\* of what it read may block until the payload reads or the pty hangs up.
CopyInput ==
  /\ \/ input = "poll" /\ ~inputStop /\ input' = "write"
     \/ input = "poll" /\ input' = "done"
     \/ input = "write" /\ payload = "running" /\ input' = "poll"
     \/ input = "write" /\ ChildGone /\ input' = "done"
  /\ UNCHANGED <<cfg, parentVars, hostVars, pipeVars, tty, saved, master, inputStop,
                 output, outputLost, resize, signalVars, childVars, payloadVars>>

\* copyOutput ends when every process that has the pty open is gone, or when
\* the host's standard output fails.
CopyOutput ==
  /\ output = "copy"
  /\ output' = "done"
  /\ \/ ChildGone /\ UNCHANGED outputLost
     \/ outputLost' = TRUE
  /\ UNCHANGED <<cfg, parentVars, hostVars, pipeVars, tty, saved, master, inputStop,
                 input, resize, signalVars, childVars, payloadVars>>

-----------------------------------------------------------------------------
(* Child and runInit.                                                      *)

\* ReadConfig: the snapshot is read to its end, or ends early, or is refused.
ReadConfig ==
  /\ child = "read"
  /\ \/ /\ pipe = "part" /\ pipe' = "drained"
        /\ UNCHANGED <<childVars, payloadVars>>
     \/ /\ pipe = "all" /\ pipe' = "read"
        /\ \/ child' = "fileSize" /\ UNCHANGED <<childStatus, initSignals, initForwarder, payloadVars>>
           \/ ChildReturns(1)
     \/ /\ pipe \in {"empty", "drained"} /\ ~writeEnd
        /\ ChildReturns(1)
        /\ UNCHANGED pipe
  /\ UNCHANGED <<cfg, parentVars, hostVars, readEnd, writeEnd, termVars, signalVars>>

\* ApplyFileSizeLimit, the network of the namespace (ConfigureChildIface needs
\* the moved veth), IsolateRootFS, Chdir, dropCapabilities, ApplySeccompFilter
\* and LookPath, in this order.
SetupStep ==
  /\ child \in SetupLabels
  /\ \/ /\ child = "network" /\ cfg.bridge => moved
        /\ child' = NextStep[child]
        /\ UNCHANGED <<childStatus, initSignals, initForwarder, payloadVars>>
     \/ ChildReturns(1)
  /\ UNCHANGED <<cfg, parentVars, hostVars, pipeVars, termVars, signalVars>>

Notify ==
  /\ child = "notify"
  /\ child' = "startPayload"
  /\ UNCHANGED <<cfg, parentVars, hostVars, pipeVars, termVars, signalVars,
                 childStatus, initSignals, initForwarder, payloadVars>>

\* Mutant: the init starts no forwarder.
StartPayloadAlone ==
  /\ child = "startPayload"
  /\ \/ /\ child' = "reap" /\ payload' = "running" /\ initForwarder' = "done"
        /\ UNCHANGED <<childStatus, initSignals, payloadStatus, signaled, helper>>
     \/ ChildReturns(127)
  /\ UNCHANGED <<cfg, parentVars, hostVars, pipeVars, termVars, signalVars>>

StartPayload ==
  /\ child = "startPayload"
  /\ \/ /\ child' = "reap" /\ payload' = "running" /\ initForwarder' = "running"
        /\ UNCHANGED <<childStatus, initSignals, payloadStatus, signaled, helper>>
     \/ ChildReturns(127)
  /\ UNCHANGED <<cfg, parentVars, hostVars, pipeVars, termVars, signalVars>>

\* Mutant: the init takes the first process it reaps for the payload.
ReapFirst ==
  /\ child = "reap"
  /\ child' = "finish"
  /\ \/ payload = "zombie" /\ payload' = "reaped" /\ UNCHANGED helper
     \/ helper = "zombie" /\ helper' = "reaped" /\ UNCHANGED payload
  /\ UNCHANGED <<cfg, parentVars, hostVars, pipeVars, termVars, signalVars,
                 childStatus, initSignals, initForwarder, payloadStatus, signaled>>

\* reapUntilPayloadExits waits for any child; others than the payload are
\* reaped and forgotten.
Reap ==
  /\ child = "reap"
  /\ \/ payload = "zombie" /\ payload' = "reaped" /\ child' = "finish" /\ UNCHANGED helper
     \/ helper = "zombie" /\ helper' = "reaped" /\ UNCHANGED <<child, payload>>
  /\ UNCHANGED <<cfg, parentVars, hostVars, pipeVars, termVars, signalVars,
                 childStatus, initSignals, initForwarder, payloadStatus, signaled>>

\* The init's forwarder has returned; runInit translates the wait status.
FinishInit ==
  /\ child = "finish" /\ initForwarder = "done"
  /\ ChildReturns(Code(payloadStatus))
  /\ UNCHANGED <<cfg, parentVars, hostVars, pipeVars, termVars, signalVars>>

\* forwardPayloadSignals; the payload dies of the signal or handles it.
ForwardPayloadSignal ==
  /\ initForwarder = "running" /\ initSignals > 0
  /\ initSignals' = initSignals - 1
  /\ IF payload = "running"
     THEN /\ signaled' = TRUE
          /\ \/ payload' = "zombie" /\ payloadStatus' = Signaled(SIGTERM)
             \/ UNCHANGED <<payload, payloadStatus>>
     ELSE UNCHANGED <<signaled, payload, payloadStatus>>
  /\ UNCHANGED <<cfg, parentVars, hostVars, pipeVars, termVars, signalVars,
                 child, childStatus, initForwarder, helper>>

InitForwarderStops ==
  /\ initForwarder = "running" /\ child = "finish"
  /\ initForwarder' = "done"
  /\ UNCHANGED <<cfg, parentVars, hostVars, pipeVars, termVars, signalVars,
                 child, childStatus, initSignals, payloadVars>>

-----------------------------------------------------------------------------
(* The environment.                                                        *)

PayloadExit ==
  /\ payload = "running"
  /\ payload' = "zombie"
  /\ payloadStatus' \in {Exited(0), Exited(3), Signaled(SIGKILL)}
  /\ UNCHANGED <<cfg, parentVars, hostVars, pipeVars, termVars, signalVars,
                 childVars, signaled, helper>>

\* The payload leaves a process to the init, which ends with a status of its own.
HelperStep ==
  /\ \/ payload = "running" /\ helper = "none" /\ helper' = "running"
     \/ helper = "running" /\ helper' = "zombie"
  /\ UNCHANGED <<cfg, parentVars, hostVars, pipeVars, termVars, signalVars,
                 childVars, payload, payloadStatus, signaled>>

\* The OOM killer, or an administrator, kills the init of the namespace.
SandboxKilled ==
  /\ ChildAlive
  /\ ChildEnds(Signaled(SIGKILL), "zombie")
  /\ UNCHANGED <<cfg, parentVars, hostVars, pipeVars, termVars, signalVars>>

\* Mutant: one signal more than the channel holds.
SignalArrivesUnbounded ==
  /\ sent < MaxSignals
  /\ pc \notin {"preflight", "exited", "crashed"}
  /\ sent' = sent + 1
  /\ signals' = IF signals <= SignalBuffer THEN signals + 1 ELSE signals
  /\ UNCHANGED <<cfg, parentVars, hostVars, pipeVars, termVars, forwarder, childVars,
                 payloadVars>>

\* A signal for the parent, which asked for it after the preflight; the Go
\* runtime drops what does not fit the channel.
SignalArrives ==
  /\ sent < MaxSignals
  /\ pc \notin {"preflight", "exited", "crashed"}
  /\ sent' = sent + 1
  /\ signals' = IF signals < SignalBuffer THEN signals + 1 ELSE signals
  /\ UNCHANGED <<cfg, parentVars, hostVars, pipeVars, termVars, forwarder, childVars,
                 payloadVars>>

\* SIGKILL or loss of the parent: its descriptors are closed, its goroutines are
\* gone, and Pdeathsig kills the child.
ParentKilled ==
  /\ pc \notin {"exited", "crashed"}
  /\ pc' = "crashed"
  /\ readEnd' = FALSE /\ writeEnd' = FALSE /\ master' = FALSE
  /\ input' = "done" /\ output' = "done" /\ resize' = "done" /\ forwarder' = "done"
  /\ IF ChildAlive THEN ChildEnds(Signaled(SIGKILL), "reaped")
     ELSE /\ child' = IF child = "zombie" THEN "reaped" ELSE child
          /\ UNCHANGED <<childStatus, initSignals, initForwarder, payloadVars>>
  /\ UNCHANGED <<cfg, result, defers, childReaped, failed, hostVars, pipe, tty, saved,
                 inputStop, outputLost, signals, sent>>

\* The run is over.
Ended ==
  /\ pc \in {"exited", "crashed"}
  /\ UNCHANGED vars

-----------------------------------------------------------------------------

DeferredStep ==
  \/ TerminateChild \/ StopResize \/ TerminalClose \/ TerminalRestore \/ ClosePipe
  \/ TeardownBridge \/ CleanupCgroup \/ Exit

ParentStep ==
  \/ Preflight \/ PrepareLimits \/ SetupBridge \/ SetupFirewall \/ CreatePipe \/ Start
  \/ CloseRead \/ Attach \/ MoveVeth \/ MakeRaw \/ WriteConfig \/ WriteRest \/ CloseWrite
  \/ Wait \/ Join \/ DeferredStep

ChildStep ==
  \/ ReadConfig \/ SetupStep \/ Notify \/ StartPayload \/ Reap \/ FinishInit

Forwarding ==
  \/ ForwardSignal \/ ForwarderStops \/ ForwardPayloadSignal \/ InitForwarderStops

Next ==
  \/ ParentStep \/ ChildStep \/ Forwarding \/ CopyInput \/ CopyOutput
  \/ PayloadExit \/ HelperStep \/ SandboxKilled \/ SignalArrives \/ ParentKilled
  \/ Ended

Spec == Init /\ [][Next]_vars

\* Goroutines and processes that can run are scheduled.  That standard input
\* ends is not assumed: copyInput returns when it is told to, or when the write
\* it is blocked in fails.
Scheduling ==
  /\ WF_vars(ParentStep) /\ WF_vars(ChildStep)
  /\ WF_vars(ForwardSignal) /\ WF_vars(ForwarderStops)
  /\ WF_vars(ForwardPayloadSignal) /\ WF_vars(InitForwarderStops)
  /\ WF_vars(CopyInput /\ (inputStop \/ ChildGone) /\ input' = "done")
  /\ WF_vars(CopyOutput /\ ChildGone)

\* A payload that ends some day, unless its output is no longer read: then it
\* may block in a write for ever.
PayloadEnds == WF_vars(PayloadExit /\ ~outputLost)

\* The payload may never end.
FairSpec == Spec /\ Scheduling

-----------------------------------------------------------------------------
(* Properties.                                                             *)

Statuses == [how : {"none", "exit", "signal"}, n : Nat]

ParentType ==
  /\ pc \in ParentLabels /\ result \in Nat /\ defers \in Seq(Deferred)
  /\ childReaped \in BOOLEAN /\ failed \subseteq Deferred

HostType ==
  /\ cgroup \in BOOLEAN /\ attached \in BOOLEAN
  /\ bridge \in BOOLEAN /\ moved \in BOOLEAN

PipeType ==
  /\ readEnd \in BOOLEAN /\ writeEnd \in BOOLEAN
  /\ pipe \in {"empty", "part", "drained", "all", "read"}

TermType ==
  /\ tty \in {"cooked", "raw"} /\ saved \in BOOLEAN /\ master \in BOOLEAN
  /\ inputStop \in BOOLEAN /\ input \in {"none", "poll", "write", "done"}
  /\ output \in {"none", "copy", "done"} /\ outputLost \in BOOLEAN
  /\ resize \in {"none", "running", "done"}

SignalType ==
  /\ signals \in 0 .. SignalBuffer /\ sent \in Nat
  /\ forwarder \in {"none", "running", "done"}

ChildType ==
  /\ child \in ChildLabels /\ childStatus \in Statuses
  /\ initSignals \in 0 .. InitBuffer
  /\ initForwarder \in {"none", "running", "done", "gone"}

PayloadType ==
  /\ payload \in {"none", "running", "zombie", "reaped", "gone"}
  /\ payloadStatus \in Statuses /\ signaled \in BOOLEAN
  /\ helper \in {"none", "running", "zombie", "reaped", "gone"}

\* Every variable of the parent, its goroutines, the child and the payload has
\* its type; in particular no more signals are queued than a channel holds.
TypeOK ==
  /\ cfg \in ConfigTypes
  /\ ParentType /\ HostType /\ PipeType /\ TermType /\ SignalType
  /\ ChildType /\ PayloadType

\* The child does nothing but wait for its snapshot until the parent has put it
\* under the limits, moved its network interface and saved the terminal; so the
\* payload runs only inside all of them, and in front of a raw terminal.  The
\* order of Parent's calls and the pipe are all there is to ensure it.
ConfinedFirst ==
  child \in SetupLabels \cup InitLabels =>
    /\ cfg.limits => cgroup /\ attached
    /\ cfg.bridge => bridge /\ moved
    /\ cfg.interactive => saved /\ tty = "raw" /\ master

\* When a payload was started and the init was not killed, the payload has ended
\* and the result of Parent is its status, 128 + n for signal n, whatever other
\* processes the init reaped first and whatever signals were in flight; only a
\* failed clean-up turns 0 into 1.
StatusPreserved ==
  pc = "exited" /\ payload # "none" /\ childStatus.how = "exit" =>
    LET expected == IF payloadStatus.how = "exit" THEN payloadStatus.n
                    ELSE 128 + payloadStatus.n
    IN  /\ payloadStatus # NoStatus
        /\ \/ result = expected
           \/ result = 1 /\ expected = 0 /\ failed # {}

\* What Parent made on the host and is still there.
Leftovers ==
  {f \in Deferred :
     \/ f = "cgroup" /\ cgroup
     \/ f = "bridge" /\ bridge
     \/ f = "terminal" /\ (tty = "raw" \/ master)
     \/ f = "pipe" /\ (readEnd \/ writeEnd)
     \/ f = "child" /\ child \notin {"none", "reaped"}
     \/ f = "resize" /\ resize = "running"}

\* On every return path Parent has undone what it did: the child is reaped, the
\* terminal restored, bridge and cgroup are gone.  What it could not undo it
\* reported, and then the result is not zero.  A result of zero means that the
\* payload ran and returned zero.
CleanReturn ==
  pc = "exited" =>
    /\ Leftovers \subseteq failed
    /\ result = 0 => failed = {} /\ payloadStatus = Exited(0)

\* A resource is released only when nobody uses it any more: the pty master
\* after the copiers and the resize goroutine, the cgroup and the bridge after
\* the child, and no signal is forwarded once the clean-up has begun.
ReleaseOrder ==
  /\ input \in {"poll", "write"} \/ output = "copy" \/ resize = "running" => master
  /\ ChildAlive /\ attached => cgroup
  /\ ChildAlive /\ moved => bridge
  /\ forwarder = "running" => pc \in {"wait", "join"}

\* Every run of a payload that ends comes to an end, with nothing left in the
\* sandbox: no goroutine,
\* parent or init waits for ever for another, on no error path, also when the
\* child is killed half way through a large snapshot or with input still to be
\* written to its terminal.
EveryRunEnds ==
  PayloadEnds => <>(outputLost \/ (pc \in {"exited", "crashed"} /\ child \in {"none", "reaped"}))

\* A signal the parent got is passed on, by two forwarders, as long as there is
\* a payload to pass it to.
SignalReachesPayload ==
  (pc = "wait" /\ payload = "running" /\ ~signaled /\ signals > 0)
    ~> (signaled \/ payload # "running")
=============================================================================
