----------------------- MODULE SandboxLifecycleProofs -----------------------
(***************************************************************************)
(* Theorems about SandboxLifecycle, for every configuration, every size of *)
(* the signal channels and any number of signals.                          *)
(***************************************************************************)
EXTENDS SandboxLifecycle, TLAPS, SequenceTheorems

-----------------------------------------------------------------------------
(* Type correctness.                                                       *)

\* The steps of Child between the snapshot and runInit, written out.
LEMMA SetupChain ==
  /\ SetupLabels = {"fileSize", "network", "rootfs", "chdir", "capabilities",
                    "seccomp", "lookPath"}
  /\ \A l \in SetupLabels : NextStep[l] \in SetupLabels \cup {"notify"}
BY DEF SetupLabels, NextStep

\* The functions that Parent defers.
LEMMA DeferredMembers ==
  {"cgroup", "bridge", "pipe", "terminal", "resize", "child"} = Deferred
BY DEF Deferred

\* Pushing a deferred function on the stack, and taking the last one from it,
\* leaves a stack of them.
LEMMA StackType ==
  ASSUME defers \in Seq(Deferred)
  PROVE  /\ \A f \in Deferred : Append(defers, f) \in Seq(Deferred)
         /\ \A f, g \in Deferred : defers \o <<f, g>> \in Seq(Deferred)
         /\ defers # <<>> => SubSeq(defers, 1, Len(defers) - 1) \in Seq(Deferred)
<1>1. Len(defers) \in Nat /\ (defers # <<>> => Len(defers) > 0)
  BY EmptySeq
<1>2. defers # <<>> => SubSeq(defers, 1, Len(defers) - 1) \in Seq(Deferred)
  BY <1>1, SubSeqProperties
<1>3. \A f \in Deferred : Append(defers, f) \in Seq(Deferred)
  OBVIOUS
<1>4. \A f, g \in Deferred : defers \o <<f, g>> \in Seq(Deferred)
  <2> TAKE f, g \in Deferred
  <2>1. <<f, g>> \in Seq(Deferred)
    OBVIOUS
  <2> QED
    BY <2>1
<1> QED
  BY <1>2, <1>3, <1>4

\* The exit code that parent and init make of a wait status is a number.
LEMMA CodeType == \A s \in Statuses : Code(s) \in Nat
BY DEF Statuses, Code

\* Every way to end is a status.
LEMMA StatusType ==
  /\ \A n \in Nat : Exited(n) \in Statuses /\ Signaled(n) \in Statuses
  /\ Signaled(SIGKILL) \in Statuses /\ Signaled(SIGTERM) \in Statuses
BY DEF Exited, Signaled, Statuses, SIGKILL, SIGTERM

\* A run begins with types in order.
LEMMA TypeInit == Init => TypeOK
<1> SUFFICES ASSUME Init PROVE TypeOK
  OBVIOUS
<1>1. cfg \in ConfigTypes
  BY LifecycleAssumption DEF Init
<1>2. ParentType
  <2>1. <<>> \in Seq(Deferred) /\ {} \subseteq Deferred
    OBVIOUS
  <2>2. pc \in ParentLabels /\ result \in Nat /\ childReaped \in BOOLEAN
    BY DEF Init, ParentLabels
  <2> QED
    BY <2>1, <2>2 DEF Init, ParentType
<1>3. HostType /\ PipeType /\ TermType
  BY DEF Init, HostType, PipeType, TermType
<1>4. SignalType /\ ChildType
  BY LifecycleAssumption
     DEF Init, SignalType, ChildType, ChildLabels, NoStatus, Statuses
<1>5. PayloadType
  BY DEF Init, PayloadType, NoStatus, Statuses
<1> QED
  BY <1>1, <1>2, <1>3, <1>4, <1>5 DEF TypeOK

\* The end of the child and of its namespace keeps the types of both.
LEMMA ChildEndsType ==
  ASSUME TypeOK, NEW st \in Statuses, NEW becomes \in {"zombie", "reaped"},
         ChildEnds(st, becomes)
  PROVE  ChildType' /\ PayloadType'
BY DEF TypeOK, ChildType, PayloadType, ChildEnds, NamespaceDies, ChildLabels

\* Every step keeps them.
LEMMA TypeStep == TypeOK /\ [Next]_vars => TypeOK'
<1> SUFFICES ASSUME TypeOK, [Next]_vars PROVE TypeOK'
  OBVIOUS
<1> USE LifecycleAssumption
    DEF TypeOK, parentVars, hostVars, pipeVars, copyVars, termVars, signalVars,
        childVars, payloadVars
<1>1. CASE Preflight
  <2>1. ParentType'
    BY <1>1
       DEF Preflight, ParentType, ParentLabels, GoTo, ReturnError
  <2>2. cfg' \in ConfigTypes /\ HostType' /\ PipeType' /\ TermType' /\ SignalType' /\ ChildType' /\ PayloadType'
    BY <1>1 DEF Preflight, HostType, PipeType, TermType, SignalType, ChildType, PayloadType
  <2> QED
    BY <2>1, <2>2
<1>2. CASE PrepareLimits
  <2>1. ParentType'
    BY <1>2, StackType, DeferredMembers
       DEF PrepareLimits, ParentType, ParentLabels, GoTo, ReturnError, Defer
  <2>2. HostType'
    BY <1>2
       DEF PrepareLimits, HostType, ConfigTypes
  <2>3. cfg' \in ConfigTypes /\ PipeType' /\ TermType' /\ SignalType' /\ ChildType' /\ PayloadType'
    BY <1>2 DEF PrepareLimits, PipeType, TermType, SignalType, ChildType, PayloadType
  <2> QED
    BY <2>1, <2>2, <2>3
<1>3. CASE SetupBridge
  <2>1. ParentType'
    BY <1>3, StackType, DeferredMembers
       DEF SetupBridge, ParentType, ParentLabels, GoTo, ReturnError, Defer
  <2>2. HostType'
    BY <1>3
       DEF SetupBridge, HostType
  <2>3. cfg' \in ConfigTypes /\ PipeType' /\ TermType' /\ SignalType' /\ ChildType' /\ PayloadType'
    BY <1>3 DEF SetupBridge, PipeType, TermType, SignalType, ChildType, PayloadType
  <2> QED
    BY <2>1, <2>2, <2>3
<1>4. CASE SetupFirewall
  <2>1. ParentType'
    BY <1>4
       DEF SetupFirewall, ParentType, ParentLabels, GoTo, ReturnError
  <2>2. cfg' \in ConfigTypes /\ HostType' /\ PipeType' /\ TermType' /\ SignalType' /\ ChildType' /\ PayloadType'
    BY <1>4 DEF SetupFirewall, HostType, PipeType, TermType, SignalType, ChildType, PayloadType
  <2> QED
    BY <2>1, <2>2
<1>5. CASE CreatePipe
  <2>1. ParentType'
    BY <1>5, StackType, DeferredMembers
       DEF CreatePipe, ParentType, ParentLabels, GoTo, ReturnError, Defer
  <2>2. PipeType'
    BY <1>5
       DEF CreatePipe, PipeType
  <2>3. cfg' \in ConfigTypes /\ HostType' /\ TermType' /\ SignalType' /\ ChildType' /\ PayloadType'
    BY <1>5 DEF CreatePipe, HostType, TermType, SignalType, ChildType, PayloadType
  <2> QED
    BY <2>1, <2>2, <2>3
<1>6. CASE Start
  <2>1. ParentType'
    BY <1>6, StackType, DeferredMembers
       DEF Start, ParentType, ParentLabels, GoTo, ReturnError, Defer
  <2>2. TermType'
    BY <1>6
       DEF Start, TermType
  <2>3. ChildType'
    BY <1>6
       DEF Start, ChildType, ChildLabels
  <2>4. cfg' \in ConfigTypes /\ HostType' /\ PipeType' /\ SignalType' /\ PayloadType'
    BY <1>6 DEF Start, HostType, PipeType, SignalType, PayloadType
  <2> QED
    BY <2>1, <2>2, <2>3, <2>4
<1>7. CASE CloseRead
  <2>1. ParentType'
    BY <1>7, StackType, DeferredMembers
       DEF CloseRead, ParentType, ParentLabels, GoTo, Defer
  <2>2. PipeType'
    BY <1>7
       DEF CloseRead, PipeType
  <2>3. TermType'
    BY <1>7
       DEF CloseRead, TermType
  <2>4. cfg' \in ConfigTypes /\ HostType' /\ SignalType' /\ ChildType' /\ PayloadType'
    BY <1>7 DEF CloseRead, HostType, SignalType, ChildType, PayloadType
  <2> QED
    BY <2>1, <2>2, <2>3, <2>4
<1>8. CASE Attach
  <2>1. ParentType'
    BY <1>8
       DEF Attach, ParentType, ParentLabels, GoTo, ReturnError
  <2>2. HostType'
    BY <1>8
       DEF Attach, HostType, ConfigTypes
  <2>3. cfg' \in ConfigTypes /\ PipeType' /\ TermType' /\ SignalType' /\ ChildType' /\ PayloadType'
    BY <1>8 DEF Attach, PipeType, TermType, SignalType, ChildType, PayloadType
  <2> QED
    BY <2>1, <2>2, <2>3
<1>9. CASE MoveVeth
  <2>1. ParentType'
    BY <1>9
       DEF MoveVeth, ParentType, ParentLabels, GoTo, ReturnError
  <2>2. HostType'
    BY <1>9
       DEF MoveVeth, HostType
  <2>3. cfg' \in ConfigTypes /\ PipeType' /\ TermType' /\ SignalType' /\ ChildType' /\ PayloadType'
    BY <1>9 DEF MoveVeth, PipeType, TermType, SignalType, ChildType, PayloadType
  <2> QED
    BY <2>1, <2>2, <2>3
<1>10. CASE MakeRaw
  <2>1. ParentType'
    BY <1>10, DeferredMembers
       DEF MakeRaw, ParentType, ParentLabels, GoTo, ReturnError
  <2>2. TermType'
    BY <1>10
       DEF MakeRaw, TermType
  <2>3. cfg' \in ConfigTypes /\ HostType' /\ PipeType' /\ SignalType' /\ ChildType' /\ PayloadType'
    BY <1>10 DEF MakeRaw, HostType, PipeType, SignalType, ChildType, PayloadType
  <2> QED
    BY <2>1, <2>2, <2>3
<1>11. CASE WriteConfig
  <2>1. ParentType'
    BY <1>11
       DEF WriteConfig, ParentType, ParentLabels, GoTo, ReturnError
  <2>2. PipeType'
    BY <1>11
       DEF WriteConfig, PipeType
  <2>3. cfg' \in ConfigTypes /\ HostType' /\ TermType' /\ SignalType' /\ ChildType' /\ PayloadType'
    BY <1>11 DEF WriteConfig, HostType, TermType, SignalType, ChildType, PayloadType
  <2> QED
    BY <2>1, <2>2, <2>3
<1>12. CASE WriteRest
  <2>1. ParentType'
    BY <1>12
       DEF WriteRest, ParentType, ParentLabels, GoTo, ReturnError
  <2>2. PipeType'
    BY <1>12
       DEF WriteRest, PipeType
  <2>3. cfg' \in ConfigTypes /\ HostType' /\ TermType' /\ SignalType' /\ ChildType' /\ PayloadType'
    BY <1>12 DEF WriteRest, HostType, TermType, SignalType, ChildType, PayloadType
  <2> QED
    BY <2>1, <2>2, <2>3
<1>13. CASE CloseWrite
  <2>1. ParentType'
    BY <1>13
       DEF CloseWrite, ParentType, ParentLabels, GoTo
  <2>2. PipeType'
    BY <1>13
       DEF CloseWrite, PipeType
  <2>3. SignalType'
    BY <1>13
       DEF CloseWrite, SignalType
  <2>4. cfg' \in ConfigTypes /\ HostType' /\ TermType' /\ ChildType' /\ PayloadType'
    BY <1>13 DEF CloseWrite, HostType, TermType, ChildType, PayloadType
  <2> QED
    BY <2>1, <2>2, <2>3, <2>4
<1>14. CASE Wait
  <2>1. ParentType'
    BY <1>14
       DEF Wait, ParentType, ParentLabels, GoTo
  <2>2. ChildType'
    BY <1>14
       DEF Wait, ChildType, ChildLabels
  <2>3. cfg' \in ConfigTypes /\ HostType' /\ PipeType' /\ TermType' /\ SignalType' /\ PayloadType'
    BY <1>14 DEF Wait, HostType, PipeType, TermType, SignalType, PayloadType
  <2> QED
    BY <2>1, <2>2, <2>3
<1>15. CASE Join
  <2>1. ParentType'
    BY <1>15, CodeType
       DEF Join, ParentType, ParentLabels, ChildType
  <2>2. cfg' \in ConfigTypes /\ HostType' /\ PipeType' /\ TermType' /\ SignalType' /\ ChildType' /\ PayloadType'
    BY <1>15 DEF Join, HostType, PipeType, TermType, SignalType, ChildType, PayloadType
  <2> QED
    BY <2>1, <2>2
<1>16. CASE TerminateChild
  <2>1. ParentType'
    BY <1>16, StackType, DeferredMembers
       DEF TerminateChild, ParentType, ParentLabels, Returning, Pop
  <2>2. ChildType' /\ PayloadType'
    BY <1>16, ChildEndsType, StatusType
       DEF TerminateChild, ChildType, PayloadType, ChildLabels
  <2>3. cfg' \in ConfigTypes /\ HostType' /\ PipeType' /\ TermType' /\ SignalType'
    BY <1>16 DEF TerminateChild, HostType, PipeType, TermType, SignalType
  <2> QED
    BY <2>1, <2>2, <2>3
<1>17. CASE StopResize
  <2>1. ParentType'
    BY <1>17, StackType, DeferredMembers
       DEF StopResize, ParentType, ParentLabels, Returning, Pop
  <2>2. TermType'
    BY <1>17
       DEF StopResize, TermType
  <2>3. cfg' \in ConfigTypes /\ HostType' /\ PipeType' /\ SignalType' /\ ChildType' /\ PayloadType'
    BY <1>17 DEF StopResize, HostType, PipeType, SignalType, ChildType, PayloadType
  <2> QED
    BY <2>1, <2>2, <2>3
<1>18. CASE TerminalClose
  <2>1. ParentType'
    BY <1>18
       DEF TerminalClose, ParentType, ParentLabels, Returning
  <2>2. TermType'
    BY <1>18
       DEF TerminalClose, TermType
  <2>3. cfg' \in ConfigTypes /\ HostType' /\ PipeType' /\ SignalType' /\ ChildType' /\ PayloadType'
    BY <1>18 DEF TerminalClose, HostType, PipeType, SignalType, ChildType, PayloadType
  <2> QED
    BY <2>1, <2>2, <2>3
<1>19. CASE TerminalRestore
  <2>1. ParentType'
    BY <1>19, StackType, DeferredMembers
       DEF TerminalRestore, ParentType, ParentLabels, Pop, Cleaned, CleanupFails
  <2>2. TermType'
    BY <1>19
       DEF TerminalRestore, TermType
  <2>3. cfg' \in ConfigTypes /\ HostType' /\ PipeType' /\ SignalType' /\ ChildType' /\ PayloadType'
    BY <1>19 DEF TerminalRestore, HostType, PipeType, SignalType, ChildType, PayloadType
  <2> QED
    BY <2>1, <2>2, <2>3
<1>20. CASE ClosePipe
  <2>1. ParentType'
    BY <1>20, StackType, DeferredMembers
       DEF ClosePipe, ParentType, ParentLabels, Returning, Pop
  <2>2. PipeType'
    BY <1>20
       DEF ClosePipe, PipeType
  <2>3. cfg' \in ConfigTypes /\ HostType' /\ TermType' /\ SignalType' /\ ChildType' /\ PayloadType'
    BY <1>20 DEF ClosePipe, HostType, TermType, SignalType, ChildType, PayloadType
  <2> QED
    BY <2>1, <2>2, <2>3
<1>21. CASE TeardownBridge
  <2>1. ParentType'
    BY <1>21, StackType, DeferredMembers
       DEF TeardownBridge, ParentType, ParentLabels, Returning, Pop, Cleaned, CleanupFails
  <2>2. HostType'
    BY <1>21
       DEF TeardownBridge, HostType
  <2>3. cfg' \in ConfigTypes /\ PipeType' /\ TermType' /\ SignalType' /\ ChildType' /\ PayloadType'
    BY <1>21 DEF TeardownBridge, PipeType, TermType, SignalType, ChildType, PayloadType
  <2> QED
    BY <2>1, <2>2, <2>3
<1>22. CASE CleanupCgroup
  <2>1. ParentType'
    BY <1>22, StackType, DeferredMembers
       DEF CleanupCgroup, ParentType, ParentLabels, Returning, Pop, Cleaned, CleanupFails
  <2>2. HostType'
    BY <1>22
       DEF CleanupCgroup, HostType
  <2>3. cfg' \in ConfigTypes /\ PipeType' /\ TermType' /\ SignalType' /\ ChildType' /\ PayloadType'
    BY <1>22 DEF CleanupCgroup, PipeType, TermType, SignalType, ChildType, PayloadType
  <2> QED
    BY <2>1, <2>2, <2>3
<1>23. CASE Exit
  <2>1. ParentType'
    BY <1>23
       DEF Exit, ParentType, ParentLabels
  <2>2. cfg' \in ConfigTypes /\ HostType' /\ PipeType' /\ TermType' /\ SignalType' /\ ChildType' /\ PayloadType'
    BY <1>23 DEF Exit, HostType, PipeType, TermType, SignalType, ChildType, PayloadType
  <2> QED
    BY <2>1, <2>2
<1>24. CASE ReadConfig
  <2>1. PipeType'
    BY <1>24
       DEF ReadConfig, PipeType
  <2>2. ChildType' /\ PayloadType'
    BY <1>24, ChildEndsType, StatusType
       DEF ReadConfig, ChildType, PayloadType, ChildReturns, ChildLabels, SetupLabels, NextStep
  <2>3. cfg' \in ConfigTypes /\ ParentType' /\ HostType' /\ TermType' /\ SignalType'
    BY <1>24 DEF ReadConfig, ParentType, HostType, TermType, SignalType
  <2> QED
    BY <2>1, <2>2, <2>3
<1>25. CASE SetupStep
  <2>1. ChildType' /\ PayloadType'
    BY <1>25, ChildEndsType, StatusType, SetupChain
       DEF SetupStep, ChildType, PayloadType, ChildReturns, ChildLabels, InitLabels
  <2>2. cfg' \in ConfigTypes /\ ParentType' /\ HostType' /\ PipeType' /\ TermType' /\ SignalType'
    BY <1>25 DEF SetupStep, ParentType, HostType, PipeType, TermType, SignalType
  <2> QED
    BY <2>1, <2>2
<1>26. CASE Notify
  <2>1. ChildType'
    BY <1>26
       DEF Notify, ChildType, ChildLabels, InitLabels
  <2>2. cfg' \in ConfigTypes /\ ParentType' /\ HostType' /\ PipeType' /\ TermType' /\ SignalType' /\ PayloadType'
    BY <1>26 DEF Notify, ParentType, HostType, PipeType, TermType, SignalType, PayloadType
  <2> QED
    BY <2>1, <2>2
<1>27. CASE StartPayload
  <2>1. ChildType' /\ PayloadType'
    BY <1>27, ChildEndsType, StatusType
       DEF StartPayload, ChildType, PayloadType, ChildReturns, ChildLabels, InitLabels
  <2>2. cfg' \in ConfigTypes /\ ParentType' /\ HostType' /\ PipeType' /\ TermType' /\ SignalType'
    BY <1>27 DEF StartPayload, ParentType, HostType, PipeType, TermType, SignalType
  <2> QED
    BY <2>1, <2>2
<1>28. CASE Reap
  <2>1. ChildType' /\ PayloadType'
    BY <1>28
       DEF Reap, ChildType, PayloadType, ChildLabels, InitLabels
  <2>2. cfg' \in ConfigTypes /\ ParentType' /\ HostType' /\ PipeType' /\ TermType' /\ SignalType'
    BY <1>28 DEF Reap, ParentType, HostType, PipeType, TermType, SignalType
  <2> QED
    BY <2>1, <2>2
<1>29. CASE FinishInit
  <2>1. ChildType' /\ PayloadType'
    BY <1>29, ChildEndsType, StatusType, CodeType
       DEF FinishInit, ChildReturns, PayloadType
  <2>2. cfg' \in ConfigTypes /\ ParentType' /\ HostType' /\ PipeType' /\ TermType' /\ SignalType'
    BY <1>29 DEF FinishInit, ParentType, HostType, PipeType, TermType, SignalType
  <2> QED
    BY <2>1, <2>2
<1>30. CASE ForwardSignal
  <2>1. SignalType'
    BY <1>30
       DEF ForwardSignal, SignalType
  <2>2. ChildType' /\ PayloadType'
    <3>1. CASE child \in InitLabels \ {"notify"}
      <4>1. /\ initSignals' = (IF initSignals < InitBuffer THEN initSignals + 1 ELSE initSignals)
            /\ UNCHANGED <<child, childStatus, initForwarder, payloadVars>>
        BY <1>30, <3>1 DEF ForwardSignal, ChildAlive, InitLabels
      <4> QED
        BY <4>1 DEF ChildType, PayloadType
    <3>2. CASE ChildAlive /\ child \notin InitLabels \ {"notify"}
      <4>1. ChildReturns(2) \/ UNCHANGED <<childVars, payloadVars>>
        BY <1>30, <3>2 DEF ForwardSignal
      <4>2. ChildReturns(2) => ChildType' /\ PayloadType'
        BY ChildEndsType, StatusType DEF ChildReturns
      <4> QED
        BY <4>1, <4>2 DEF ChildType, PayloadType
    <3>3. CASE ~ChildAlive
      <4>1. UNCHANGED <<childVars, payloadVars>>
        BY <1>30, <3>3 DEF ForwardSignal, ChildAlive, InitLabels
      <4> QED
        BY <4>1 DEF ChildType, PayloadType
    <3> QED
      BY <3>1, <3>2, <3>3
  <2>3. cfg' \in ConfigTypes /\ ParentType' /\ HostType' /\ PipeType' /\ TermType'
    BY <1>30 DEF ForwardSignal, ParentType, HostType, PipeType, TermType
  <2> QED
    BY <2>1, <2>2, <2>3
<1>31. CASE ForwarderStops
  <2>1. SignalType'
    BY <1>31
       DEF ForwarderStops, SignalType
  <2>2. cfg' \in ConfigTypes /\ ParentType' /\ HostType' /\ PipeType' /\ TermType' /\ ChildType' /\ PayloadType'
    BY <1>31 DEF ForwarderStops, ParentType, HostType, PipeType, TermType, ChildType, PayloadType
  <2> QED
    BY <2>1, <2>2
<1>32. CASE ForwardPayloadSignal
  <2>1. ChildType'
    BY <1>32
       DEF ForwardPayloadSignal, ChildType
  <2>2. PayloadType'
    BY <1>32, StatusType
       DEF ForwardPayloadSignal, PayloadType
  <2>3. cfg' \in ConfigTypes /\ ParentType' /\ HostType' /\ PipeType' /\ TermType' /\ SignalType'
    BY <1>32 DEF ForwardPayloadSignal, ParentType, HostType, PipeType, TermType, SignalType
  <2> QED
    BY <2>1, <2>2, <2>3
<1>33. CASE InitForwarderStops
  <2>1. ChildType'
    BY <1>33
       DEF InitForwarderStops, ChildType
  <2>2. cfg' \in ConfigTypes /\ ParentType' /\ HostType' /\ PipeType' /\ TermType' /\ SignalType' /\ PayloadType'
    BY <1>33 DEF InitForwarderStops, ParentType, HostType, PipeType, TermType, SignalType, PayloadType
  <2> QED
    BY <2>1, <2>2
<1>34. CASE CopyInput
  <2>1. TermType'
    BY <1>34
       DEF CopyInput, TermType
  <2>2. cfg' \in ConfigTypes /\ ParentType' /\ HostType' /\ PipeType' /\ SignalType' /\ ChildType' /\ PayloadType'
    BY <1>34 DEF CopyInput, ParentType, HostType, PipeType, SignalType, ChildType, PayloadType
  <2> QED
    BY <2>1, <2>2
<1>35. CASE CopyOutput
  <2>1. TermType'
    BY <1>35
       DEF CopyOutput, TermType
  <2>2. cfg' \in ConfigTypes /\ ParentType' /\ HostType' /\ PipeType' /\ SignalType' /\ ChildType' /\ PayloadType'
    BY <1>35 DEF CopyOutput, ParentType, HostType, PipeType, SignalType, ChildType, PayloadType
  <2> QED
    BY <2>1, <2>2
<1>36. CASE PayloadExit
  <2>1. PayloadType'
    BY <1>36, StatusType
       DEF PayloadExit, PayloadType
  <2>2. cfg' \in ConfigTypes /\ ParentType' /\ HostType' /\ PipeType' /\ TermType' /\ SignalType' /\ ChildType'
    BY <1>36 DEF PayloadExit, ParentType, HostType, PipeType, TermType, SignalType, ChildType
  <2> QED
    BY <2>1, <2>2
<1>37. CASE HelperStep
  <2>1. PayloadType'
    BY <1>37
       DEF HelperStep, PayloadType
  <2>2. cfg' \in ConfigTypes /\ ParentType' /\ HostType' /\ PipeType' /\ TermType' /\ SignalType' /\ ChildType'
    BY <1>37 DEF HelperStep, ParentType, HostType, PipeType, TermType, SignalType, ChildType
  <2> QED
    BY <2>1, <2>2
<1>38. CASE SandboxKilled
  <2>1. ChildType' /\ PayloadType'
    BY <1>38, ChildEndsType, StatusType
       DEF SandboxKilled
  <2>2. cfg' \in ConfigTypes /\ ParentType' /\ HostType' /\ PipeType' /\ TermType' /\ SignalType'
    BY <1>38 DEF SandboxKilled, ParentType, HostType, PipeType, TermType, SignalType
  <2> QED
    BY <2>1, <2>2
<1>39. CASE SignalArrives
  <2>1. SignalType'
    BY <1>39
       DEF SignalArrives, SignalType
  <2>2. cfg' \in ConfigTypes /\ ParentType' /\ HostType' /\ PipeType' /\ TermType' /\ ChildType' /\ PayloadType'
    BY <1>39 DEF SignalArrives, ParentType, HostType, PipeType, TermType, ChildType, PayloadType
  <2> QED
    BY <2>1, <2>2
<1>40. CASE ParentKilled
  <2>1. ParentType'
    BY <1>40
       DEF ParentKilled, ParentType, ParentLabels
  <2>2. PipeType'
    BY <1>40
       DEF ParentKilled, PipeType
  <2>3. TermType'
    BY <1>40
       DEF ParentKilled, TermType
  <2>4. SignalType'
    BY <1>40
       DEF ParentKilled, SignalType
  <2>5. ChildType' /\ PayloadType'
    BY <1>40, ChildEndsType, StatusType
       DEF ParentKilled, ChildType, PayloadType, ChildLabels
  <2>6. cfg' \in ConfigTypes /\ HostType'
    BY <1>40 DEF ParentKilled, HostType
  <2> QED
    BY <2>1, <2>2, <2>3, <2>4, <2>5, <2>6
<1>41. CASE UNCHANGED vars
  BY <1>41 DEF vars, ParentType, HostType, PipeType, TermType, SignalType,
              ChildType, PayloadType
<1> QED
  BY <1>1, <1>2, <1>3, <1>4, <1>5, <1>6, <1>7, <1>8, <1>9, <1>10, <1>11, <1>12, <1>13, <1>14, <1>15, <1>16, <1>17, <1>18, <1>19, <1>20, <1>21, <1>22, <1>23, <1>24, <1>25, <1>26, <1>27, <1>28, <1>29, <1>30, <1>31, <1>32, <1>33, <1>34, <1>35, <1>36, <1>37, <1>38, <1>39, <1>40, <1>41
     DEF Next, ParentStep, DeferredStep, ChildStep, Forwarding, Ended

\* Type correctness of a run: the stack of deferred functions, the goroutines
\* and the two signal channels, which never hold more than their capacity.
THEOREM TypeCorrect == Spec => []TypeOK
<1> QED
  BY TypeInit, TypeStep, PTL DEF Spec

-----------------------------------------------------------------------------
(* Confinement.                                                            *)

BeforeStart == {"preflight", "limits", "bridge", "firewall", "pipe", "start"}

\* The parent supervises a started child, which it kills first if it returns.
Supervising ==
  {"attach", "move", "makeRaw", "write", "writing", "closeWrite", "wait"}

Top(f) == defers # <<>> /\ defers[Len(defers)] = f

Prepared ==
  /\ cfg.limits => cgroup /\ attached
  /\ cfg.bridge => bridge /\ moved
  /\ cfg.interactive => saved /\ tty = "raw" /\ master

\* A child lives only while the parent supervises it or is about to kill it.
Supervised ==
  /\ pc \in BeforeStart => child = "none"
  /\ ChildAlive => pc \in Supervising \cup {"closeRead", "return"}
  /\ pc \in Supervising \cup {"join"} => Top("child")
  /\ pc = "return" /\ ChildAlive => Top("child")
  /\ childReaped => ~ChildAlive /\ pc \in {"return", "closing", "exited", "crashed"}

\* What Parent has made by each of its steps.
Progress ==
  /\ pc \in {"bridge", "firewall", "pipe", "start", "closeRead"} \cup Supervising
       => (cfg.limits => cgroup)
  /\ pc \in {"firewall", "pipe", "start", "closeRead"} \cup Supervising
       => (cfg.bridge => bridge)
  /\ pc \in {"closeRead"} \cup Supervising => (cfg.interactive => master)
  /\ pc \in Supervising \ {"attach"} => (cfg.limits => attached)
  /\ pc \in Supervising \ {"attach", "move"} => (cfg.bridge => moved)
  /\ pc \in {"write", "writing", "closeWrite", "wait"}
       => (cfg.interactive => saved /\ tty = "raw")

\* The pipe carries nothing before all is prepared, and the child gets past it
\* only with the whole snapshot.
Handover ==
  /\ pc \in BeforeStart \cup {"closeRead", "attach", "move", "makeRaw", "write"}
       => pipe = "empty"
  /\ pipe # "empty" /\ ChildAlive => Prepared
  /\ child \in SetupLabels \cup InitLabels => pipe = "read"

ConfinedInv == TypeOK /\ Supervised /\ Progress /\ Handover

\* A run begins with nothing handed over.
LEMMA ConfinedInit == Init => ConfinedInv
<1> SUFFICES ASSUME Init PROVE ConfinedInv
  OBVIOUS
<1>1. TypeOK
  BY TypeInit
<1>2. Supervised /\ Progress
  BY DEF Init, Supervised, Progress, BeforeStart, Supervising, ChildAlive
<1>3. Handover
  BY SetupChain DEF Init, Handover, ChildAlive, InitLabels
<1> QED
  BY <1>1, <1>2, <1>3 DEF ConfinedInv

\* The last function deferred is the one on top.
LEMMA TopOfStack ==
  ASSUME defers \in Seq(Deferred)
  PROVE  /\ defers' = Append(defers, "child") => Top("child")'
         /\ defers' = defers \o <<"resize", "child">> => Top("child")'
<1>1. Len(defers) \in Nat
  OBVIOUS
<1>2. ASSUME defers' = Append(defers, "child") PROVE Top("child")'
  BY <1>1, <1>2 DEF Top
<1>3. ASSUME defers' = defers \o <<"resize", "child">> PROVE Top("child")'
  BY <1>1, <1>3 DEF Top
<1> QED
  BY <1>2, <1>3

\* Every step keeps the child supervised, and prepared before it is configured.
LEMMA ConfinedStep == ConfinedInv /\ [Next]_vars => ConfinedInv'
<1> SUFFICES ASSUME ConfinedInv, [Next]_vars PROVE ConfinedInv'
  OBVIOUS
<1>t. TypeOK /\ TypeOK'
  BY TypeStep DEF ConfinedInv
<1>s. /\ SetupLabels \cap {"none", "zombie", "reaped", "read"} = {}
      /\ "notify" \notin {"none", "zombie", "reaped", "read"}
  BY SetupChain
<1> SUFFICES Supervised' /\ Progress' /\ Handover'
  BY <1>t DEF ConfinedInv
<1> USE DEF ConfinedInv, Supervised, Progress, Handover, Prepared, BeforeStart, Supervising,
            ChildAlive, parentVars, hostVars, pipeVars, copyVars, termVars, signalVars,
            childVars, payloadVars
<1>1. CASE Preflight
  BY <1>1 DEF Preflight, GoTo, ReturnError, Top
<1>2. CASE PrepareLimits
  BY <1>2 DEF PrepareLimits, GoTo, ReturnError, Top
<1>3. CASE SetupBridge
  BY <1>3 DEF SetupBridge, GoTo, ReturnError, Top
<1>4. CASE SetupFirewall
  BY <1>4 DEF SetupFirewall, GoTo, ReturnError, Top
<1>5. CASE CreatePipe
  BY <1>5 DEF CreatePipe, GoTo, ReturnError, Top
<1>6. CASE Start
  BY <1>6, <1>s DEF Start, GoTo, ReturnError, Top, InitLabels
<1>7. CASE CloseRead
  BY <1>7, <1>t, TopOfStack DEF CloseRead, GoTo, Defer, ParentType, TypeOK
<1>8. CASE Attach
  BY <1>8 DEF Attach, GoTo, ReturnError, Top
<1>9. CASE MoveVeth
  BY <1>9 DEF MoveVeth, GoTo, ReturnError, Top
<1>10. CASE MakeRaw
  BY <1>10 DEF MakeRaw, GoTo, ReturnError, Top
<1>11. CASE WriteConfig
  BY <1>11 DEF WriteConfig, GoTo, ReturnError, Top
<1>12. CASE WriteRest
  BY <1>12 DEF WriteRest, GoTo, ReturnError, Top
<1>13. CASE CloseWrite
  BY <1>13 DEF CloseWrite, GoTo, Top
<1>14. CASE Wait
  BY <1>14, <1>s DEF Wait, GoTo, Top, InitLabels
<1>15. CASE Join
  BY <1>15 DEF Join, Top
<1>16. CASE TerminateChild
  BY <1>16, <1>s DEF TerminateChild, Returning, ChildEnds, Top, InitLabels
<1>17. CASE StopResize
  BY <1>17 DEF StopResize, Returning, Top
<1>18. CASE TerminalClose
  BY <1>18 DEF TerminalClose, Returning, Top
<1>19. CASE TerminalRestore
  BY <1>19 DEF TerminalRestore, Top
<1>20. CASE ClosePipe
  BY <1>20 DEF ClosePipe, Returning, Top
<1>21. CASE TeardownBridge
  BY <1>21 DEF TeardownBridge, Returning, Top
<1>22. CASE CleanupCgroup
  BY <1>22 DEF CleanupCgroup, Returning, Top
<1>23. CASE Exit
  BY <1>23 DEF Exit, Top
<1>24. CASE ReadConfig
  BY <1>24, <1>s, SetupChain DEF ReadConfig, ChildReturns, ChildEnds, Top, InitLabels
<1>25. CASE SetupStep
  BY <1>25, <1>s, SetupChain DEF SetupStep, ChildReturns, ChildEnds, Top, InitLabels
<1>26. CASE Notify
  BY <1>26, <1>s DEF Notify, Top, InitLabels
<1>27. CASE StartPayload
  BY <1>27, <1>s DEF StartPayload, ChildReturns, ChildEnds, Top, InitLabels
<1>28. CASE Reap
  BY <1>28, <1>s DEF Reap, Top, InitLabels
<1>29. CASE FinishInit
  BY <1>29, <1>s DEF FinishInit, ChildReturns, ChildEnds, Top, InitLabels
<1>30. CASE ForwardSignal
  <2>1. child' = child \/ (ChildAlive /\ child' = "zombie")
    BY <1>30 DEF ForwardSignal, ChildReturns, ChildEnds
  <2>2. UNCHANGED <<cfg, parentVars, hostVars, pipeVars, termVars>>
    BY <1>30 DEF ForwardSignal
  <2>3. CASE child' = child
    BY <2>2, <2>3 DEF Top, InitLabels
  <2>4. CASE ChildAlive /\ child' = "zombie"
    BY <2>2, <2>4, <1>s DEF Top, InitLabels
  <2> QED
    BY <2>1, <2>3, <2>4
<1>31. CASE ForwarderStops
  BY <1>31 DEF ForwarderStops, Top
<1>32. CASE ForwardPayloadSignal
  BY <1>32 DEF ForwardPayloadSignal, Top
<1>33. CASE InitForwarderStops
  BY <1>33 DEF InitForwarderStops, Top
<1>34. CASE CopyInput
  BY <1>34 DEF CopyInput, Top
<1>35. CASE CopyOutput
  BY <1>35 DEF CopyOutput, Top
<1>36. CASE PayloadExit
  BY <1>36 DEF PayloadExit, Top
<1>37. CASE HelperStep
  BY <1>37 DEF HelperStep, Top
<1>38. CASE SandboxKilled
  BY <1>38, <1>s DEF SandboxKilled, ChildEnds, Top, InitLabels
<1>39. CASE SignalArrives
  BY <1>39 DEF SignalArrives, Top
<1>40. CASE ParentKilled
  BY <1>40, <1>s DEF ParentKilled, ChildEnds, InitLabels
<1>41. CASE UNCHANGED vars
  BY <1>41 DEF vars, Top
<1> QED
  BY <1>1, <1>2, <1>3, <1>4, <1>5, <1>6, <1>7, <1>8, <1>9, <1>10, <1>11, <1>12, <1>13, <1>14, <1>15, <1>16, <1>17, <1>18, <1>19, <1>20, <1>21, <1>22, <1>23, <1>24, <1>25, <1>26, <1>27, <1>28, <1>29, <1>30, <1>31, <1>32, <1>33, <1>34, <1>35, <1>36, <1>37, <1>38, <1>39, <1>40, <1>41
     DEF Next, ParentStep, DeferredStep, ChildStep, Forwarding, Ended

\* A child that has its snapshot is under its limits, has its interface and the
\* raw terminal, for every configuration: it rests on the order of the calls in
\* Parent, on the pipe, and on terminateChild being the first deferred function
\* to run.
THEOREM ChildConfined == Spec => []ConfinedFirst
<1>1. ConfinedInv => ConfinedFirst
  BY SetupChain DEF ConfinedInv, Handover, Prepared, ConfinedFirst, ChildAlive, InitLabels
<1> QED
  BY <1>1, ConfinedInit, ConfinedStep, PTL DEF Spec

-----------------------------------------------------------------------------
(* The stack of deferred functions.                                        *)

Pending(s) == {s[i] : i \in 1 .. Len(s)}

\* The functions that may lie under each one: Parent defers them in the order
\* in which it makes what they undo.
Beneath ==
  [cgroup |-> {}, bridge |-> {"cgroup"}, pipe |-> {"cgroup", "bridge"},
   terminal |-> {"cgroup", "bridge", "pipe"},
   resize |-> {"cgroup", "bridge", "pipe", "terminal"},
   child |-> {"cgroup", "bridge", "pipe", "terminal", "resize"}]

InOrder(s) == \A i, j \in 1 .. Len(s) : i < j => s[i] \in Beneath[s[j]]

\* No deferred function is to run before itself.
LEMMA NotBeneathItself == \A f \in Deferred : f \notin Beneath[f]
BY DEF Deferred, Beneath

\* A function deferred is due, and lies above those deferred before it.
LEMMA Push ==
  ASSUME NEW s \in Seq(Deferred), NEW f \in Deferred
  PROVE  /\ Pending(Append(s, f)) = Pending(s) \cup {f}
         /\ InOrder(s) /\ Pending(s) \subseteq Beneath[f] => InOrder(Append(s, f))
<1> DEFINE t == Append(s, f)
<1>1. /\ Len(s) \in Nat /\ Len(t) = Len(s) + 1
      /\ \A i \in 1 .. Len(s) : t[i] = s[i]
      /\ t[Len(t)] = f
  OBVIOUS
<1> HIDE DEF t
<1>2. 1 .. Len(t) = (1 .. Len(s)) \cup {Len(t)}
  BY <1>1
<1>3. Pending(t) = Pending(s) \cup {f}
  <2>1. ASSUME NEW x \in Pending(t) PROVE x \in Pending(s) \cup {f}
    BY <1>1, <1>2 DEF Pending
  <2>2. ASSUME NEW x \in Pending(s) PROVE x \in Pending(t)
    BY <1>1, <1>2 DEF Pending
  <2>3. f \in Pending(t)
    BY <1>1, <1>2 DEF Pending
  <2> QED
    BY <2>1, <2>2, <2>3
<1>4. ASSUME InOrder(s), Pending(s) \subseteq Beneath[f] PROVE InOrder(t)
  <2> SUFFICES ASSUME NEW i \in 1 .. Len(t), NEW j \in 1 .. Len(t), i < j
               PROVE  t[i] \in Beneath[t[j]]
    BY DEF InOrder
  <2>1. i \in 1 .. Len(s)
    BY <1>1
  <2>2. CASE j \in 1 .. Len(s)
    BY <1>1, <1>4, <2>1, <2>2 DEF InOrder
  <2>3. CASE j = Len(t)
    BY <1>1, <1>4, <2>1, <2>3 DEF Pending
  <2> QED
    BY <1>2, <2>2, <2>3
<1> QED
  BY <1>3, <1>4 DEF t

\* The two functions of a terminal go onto the stack in order.
LEMMA PushTwo ==
  ASSUME NEW s \in Seq(Deferred), InOrder(s), Pending(s) \subseteq Beneath["resize"]
  PROVE  /\ InOrder(s \o <<"resize", "child">>)
         /\ Pending(s \o <<"resize", "child">>) = Pending(s) \cup {"resize", "child"}
<1> DEFINE t == Append(s, "resize")
<1>1. s \o <<"resize", "child">> = Append(t, "child")
  OBVIOUS
<1>2. t \in Seq(Deferred) /\ "resize" \in Deferred /\ "child" \in Deferred
  BY StackType DEF Deferred
<1>3. Pending(t) = Pending(s) \cup {"resize"} /\ InOrder(t)
  BY <1>2, Push
<1>4. Pending(t) \subseteq Beneath["child"]
  BY <1>3 DEF Beneath
<1> HIDE DEF t
<1>5. Pending(Append(t, "child")) = Pending(t) \cup {"child"} /\ InOrder(Append(t, "child"))
  BY <1>2, <1>3, <1>4, Push
<1> QED
  BY <1>1, <1>3, <1>5

\* The function that runs is no longer due; all that are left were deferred
\* before it.
LEMMA PopLast ==
  ASSUME NEW s \in Seq(Deferred), s # <<>>, InOrder(s)
  PROVE  LET f == s[Len(s)]
             rest == SubSeq(s, 1, Len(s) - 1)
         IN  /\ f \in Pending(s)
             /\ Pending(rest) = Pending(s) \ {f}
             /\ Pending(rest) \subseteq Beneath[f]
             /\ InOrder(rest)
<1> DEFINE f == s[Len(s)]
           rest == SubSeq(s, 1, Len(s) - 1)
<1>1. Len(s) \in Nat /\ Len(s) > 0
  BY EmptySeq
<1>2. /\ Len(rest) = Len(s) - 1
      /\ \A i \in 1 .. Len(rest) : rest[i] = s[i]
  BY <1>1, SubSeqProperties
<1>3. 1 .. Len(s) = (1 .. Len(rest)) \cup {Len(s)}
  BY <1>1, <1>2
<1>4. f \in Deferred
  BY <1>1, ElementOfSeq
<1> HIDE DEF f, rest
<1>f. f = s[Len(s)]
  BY DEF f
<1>5. f \in Pending(s)
  BY <1>1, <1>f DEF Pending
<1>6. Pending(rest) \subseteq Beneath[f]
  <2> SUFFICES ASSUME NEW i \in 1 .. Len(rest) PROVE s[i] \in Beneath[f]
    BY <1>2 DEF Pending
  <2>1. i \in 1 .. Len(s) /\ Len(s) \in 1 .. Len(s) /\ i < Len(s)
    BY <1>1, <1>2
  <2> QED
    BY <2>1, <1>f DEF InOrder
<1>7. f \notin Pending(rest)
  BY <1>4, <1>6, NotBeneathItself
<1>8. Pending(s) = Pending(rest) \cup {f}
  <2>1. ASSUME NEW x \in Pending(s) PROVE x \in Pending(rest) \cup {f}
    BY <1>2, <1>3, <1>f DEF Pending
  <2>2. ASSUME NEW x \in Pending(rest) PROVE x \in Pending(s)
    BY <1>2, <1>3 DEF Pending
  <2> QED
    BY <2>1, <2>2, <1>5
<1>9. InOrder(rest)
  BY <1>2, <1>3 DEF InOrder
<1> QED
  BY <1>5, <1>6, <1>7, <1>8, <1>9 DEF f, rest

-----------------------------------------------------------------------------
(* What a run returns with.                                                *)

Early == ParentLabels \ {"return", "closing", "exited", "crashed"}

\* Each function is deferred when those below it may be on the stack and those
\* above it cannot be.
Stacked ==
  /\ InOrder(defers)
  /\ pc \in {"preflight", "limits"} => Pending(defers) = {}
  /\ pc = "bridge" => Pending(defers) \subseteq Beneath["bridge"]
  /\ pc \in {"firewall", "pipe"} => Pending(defers) \subseteq Beneath["pipe"]
  /\ pc = "start" => Pending(defers) \subseteq Beneath["terminal"]
  /\ pc = "closeRead" => Pending(defers) \subseteq Beneath["resize"]
  /\ pc = "closing" => Top("terminal")
  /\ pc = "exited" => defers = <<>>

\* What Parent made has its clean-up due, or was reported as left behind.
Owned == pc # "crashed" =>
  /\ cgroup => "cgroup" \in Pending(defers) \cup failed
  /\ bridge => "bridge" \in Pending(defers) \cup failed
  /\ readEnd \/ writeEnd => "pipe" \in Pending(defers)
  /\ master <=> "terminal" \in Pending(defers)
  /\ tty = "raw" => (saved /\ "terminal" \in Pending(defers)) \/ "terminal" \in failed
  /\ child \notin {"none", "reaped"} => pc = "closeRead" \/ "child" \in Pending(defers)
  /\ resize = "running" => "resize" \in Pending(defers)
  /\ "resize" \in Pending(defers) => "terminal" \in Pending(defers)

\* What a process or a goroutine still uses is there.
InUse ==
  /\ input \in {"poll", "write"} \/ output = "copy" => master
  /\ pc = "crashed" => resize # "running" /\ ~ChildAlive
  /\ attached => cfg.limits
  /\ moved => cfg.bridge
  /\ ChildAlive /\ attached => cgroup
  /\ ChildAlive /\ moved => bridge
  /\ forwarder = "running" => pc \in {"wait", "join"}
  /\ childReaped \/ pc = "join" => child = "reaped"

StackInv == ConfinedInv /\ Stacked /\ Owned /\ InUse

\* The stack begins empty.
LEMMA StackInit == Init => StackInv
<1> SUFFICES ASSUME Init PROVE StackInv
  OBVIOUS
<1>1. ConfinedInv
  BY ConfinedInit
<1>2. Pending(<<>>) = {} /\ InOrder(<<>>)
  BY DEF Pending, InOrder
<1>3. Stacked
  BY <1>2 DEF Init, Stacked
<1>4. Owned
  BY <1>2 DEF Init, Owned
<1>5. InUse
  BY DEF Init, InUse, ChildAlive
<1> QED
  BY <1>1, <1>3, <1>4, <1>5 DEF StackInv

\* Every step keeps the stack in order, and what is held on it.
LEMMA StackStep == StackInv /\ [Next]_vars => StackInv'
<1> SUFFICES ASSUME StackInv, [Next]_vars PROVE StackInv'
  OBVIOUS
<1>i. ConfinedInv /\ ConfinedInv'
  BY ConfinedStep DEF StackInv
<1>t. TypeOK /\ defers \in Seq(Deferred)
  BY <1>i DEF ConfinedInv, TypeOK, ParentType
<1>s. SetupLabels \cap {"none", "zombie", "reaped", "read"} = {}
  BY SetupChain
<1> SUFFICES Stacked' /\ Owned' /\ InUse'
  BY <1>i DEF StackInv
<1> USE DEF StackInv, Stacked, Owned, InUse, Top, ChildAlive, parentVars, hostVars, pipeVars,
            copyVars, termVars, signalVars, childVars, payloadVars
<1>1. CASE Preflight
  BY <1>1, <1>i, <1>t, <1>s DEF Preflight, GoTo, ReturnError
<1>2. CASE PrepareLimits
  <2>1. /\ Pending(Append(defers, "cgroup")) = Pending(defers) \cup {"cgroup"}
        /\ Pending(defers) \subseteq Beneath["cgroup"] => InOrder(Append(defers, "cgroup"))
    BY <1>t, Push DEF Deferred
  <2>2. CASE defers' = Append(defers, "cgroup")
    <3>1. /\ Pending(defers') = Pending(defers) \cup {"cgroup"}
          /\ InOrder(defers')
      BY <1>2, <2>1, <2>2 DEF PrepareLimits, Beneath
    <3> QED
      BY <1>2, <2>2, <3>1, <1>i, <1>t DEF PrepareLimits, GoTo, ReturnError, Defer, Beneath
  <2>3. CASE UNCHANGED defers
    BY <1>2, <2>3, <1>i, <1>t DEF PrepareLimits, GoTo, ReturnError, Defer, Beneath
  <2> QED
    BY <1>2, <2>2, <2>3 DEF PrepareLimits, Defer
<1>3. CASE SetupBridge
  <2>1. /\ Pending(Append(defers, "bridge")) = Pending(defers) \cup {"bridge"}
        /\ Pending(defers) \subseteq Beneath["bridge"] => InOrder(Append(defers, "bridge"))
    BY <1>t, Push DEF Deferred
  <2>2. CASE defers' = Append(defers, "bridge")
    <3>1. /\ Pending(defers') = Pending(defers) \cup {"bridge"}
          /\ InOrder(defers')
      BY <1>3, <2>1, <2>2 DEF SetupBridge, Beneath
    <3> QED
      BY <1>3, <2>2, <3>1, <1>i, <1>t DEF SetupBridge, GoTo, ReturnError, Defer, Beneath
  <2>3. CASE UNCHANGED defers
    BY <1>3, <2>3, <1>i, <1>t DEF SetupBridge, GoTo, ReturnError, Defer, Beneath
  <2> QED
    BY <1>3, <2>2, <2>3 DEF SetupBridge, Defer
<1>4. CASE SetupFirewall
  BY <1>4, <1>i, <1>t, <1>s DEF SetupFirewall, GoTo, ReturnError
<1>5. CASE CreatePipe
  <2>1. /\ Pending(Append(defers, "pipe")) = Pending(defers) \cup {"pipe"}
        /\ Pending(defers) \subseteq Beneath["pipe"] => InOrder(Append(defers, "pipe"))
    BY <1>t, Push DEF Deferred
  <2>2. CASE defers' = Append(defers, "pipe")
    <3>1. /\ Pending(defers') = Pending(defers) \cup {"pipe"}
          /\ InOrder(defers')
      BY <1>5, <2>1, <2>2 DEF CreatePipe, Beneath
    <3> QED
      BY <1>5, <2>2, <3>1, <1>i, <1>t DEF CreatePipe, GoTo, ReturnError, Defer, Beneath
  <2>3. CASE UNCHANGED defers
    BY <1>5, <2>3, <1>i, <1>t DEF CreatePipe, GoTo, ReturnError, Defer, Beneath
  <2> QED
    BY <1>5, <2>2, <2>3 DEF CreatePipe, Defer
<1>6. CASE Start
  <2>1. CASE ReturnError
    BY <1>6, <2>1, <1>i, <1>t DEF Start, GoTo, ReturnError
  <2>2. CASE GoTo("closeRead") /\ cfg.interactive
    <3>1. /\ defers' = Append(defers, "terminal")
          /\ pc' = "closeRead" /\ master' = TRUE /\ child' = "read"
      BY <1>6, <2>2 DEF Start, Defer, GoTo, ReturnError
    <3>2. /\ Pending(defers') = Pending(defers) \cup {"terminal"}
          /\ InOrder(defers')
      BY <1>6, <3>1, <1>t, Push DEF Start, Deferred
    <3>3. Stacked' /\ Owned'
      BY <1>6, <3>1, <3>2 DEF Start, Beneath
    <3>4. InUse'
      BY <1>6, <3>1, <1>i DEF Start, ConfinedInv, Progress, Supervised
    <3> QED
      BY <3>3, <3>4
  <2>3. CASE GoTo("closeRead") /\ ~cfg.interactive
    <3>1. Stacked' /\ Owned'
      BY <1>6, <2>3 DEF Start, GoTo, ReturnError, Beneath
    <3>2. InUse'
      BY <1>6, <2>3, <1>i DEF Start, GoTo, ReturnError, ConfinedInv, Progress, Supervised
    <3> QED
      BY <3>1, <3>2
  <2> QED
    BY <1>6, <2>1, <2>2, <2>3 DEF Start
<1>7. CASE CloseRead
  <2>1. CASE cfg.interactive
    <3>1. /\ InOrder(defers')
          /\ Pending(defers') = Pending(defers) \cup {"resize", "child"}
      BY <1>7, <2>1, <1>t, PushTwo DEF CloseRead
    <3> QED
      BY <1>7, <2>1, <3>1, <1>i, <1>t DEF CloseRead, GoTo, ConfinedInv, Progress, Supervising
  <2>2. CASE ~cfg.interactive
    <3>1. /\ InOrder(defers')
          /\ Pending(defers') = Pending(defers) \cup {"child"}
      BY <1>7, <2>2, <1>t, Push DEF CloseRead, GoTo, Defer, Deferred, Beneath
    <3> QED
      BY <1>7, <2>2, <3>1, <1>i, <1>t DEF CloseRead, GoTo
  <2> QED
    BY <2>1, <2>2
<1>8. CASE Attach
  BY <1>8, <1>i, <1>t DEF Attach, GoTo, ReturnError, ConfinedInv, Progress, Supervising
<1>9. CASE MoveVeth
  BY <1>9, <1>i, <1>t DEF MoveVeth, GoTo, ReturnError, ConfinedInv, Progress, Supervising
<1>10. CASE MakeRaw
  BY <1>10, <1>i, <1>t DEF MakeRaw, GoTo, ReturnError, ConfinedInv, Progress, Supervising
<1>11. CASE WriteConfig
  BY <1>11, <1>i, <1>t, <1>s DEF WriteConfig, GoTo, ReturnError
<1>12. CASE WriteRest
  BY <1>12, <1>i, <1>t, <1>s DEF WriteRest, GoTo, ReturnError
<1>13. CASE CloseWrite
  BY <1>13, <1>i, <1>t, <1>s DEF CloseWrite, GoTo
<1>14. CASE Wait
  BY <1>14, <1>i, <1>t, <1>s DEF Wait, GoTo
<1>15. CASE Join
  BY <1>15, <1>i, <1>t, <1>s DEF Join
<1>16. CASE TerminateChild
  <2>1. defers # <<>> /\ defers[Len(defers)] = "child" /\ pc = "return"
    BY <1>16 DEF TerminateChild, Returning
  <2>2. /\ "child" \in Pending(defers)
        /\ Pending(defers') = Pending(defers) \ {"child"}
        /\ Pending(defers') \subseteq Beneath["child"]
        /\ InOrder(defers')
    BY <2>1, <1>16, <1>t, PopLast DEF TerminateChild, Pop
  <2> QED
    BY <1>16, <2>1, <2>2, <1>i, <1>t DEF TerminateChild, Returning, ChildEnds, Beneath
<1>17. CASE StopResize
  <2>1. defers # <<>> /\ defers[Len(defers)] = "resize" /\ pc = "return"
    BY <1>17 DEF StopResize, Returning
  <2>2. /\ "resize" \in Pending(defers)
        /\ Pending(defers') = Pending(defers) \ {"resize"}
        /\ Pending(defers') \subseteq Beneath["resize"]
        /\ InOrder(defers')
    BY <2>1, <1>17, <1>t, PopLast DEF StopResize, Pop
  <2> QED
    BY <1>17, <2>1, <2>2, <1>i, <1>t DEF StopResize, Returning, Beneath
<1>18. CASE TerminalClose
  BY <1>18, <1>i, <1>t, <1>s DEF TerminalClose, Returning
<1>19. CASE TerminalRestore
  <2>1. defers # <<>> /\ defers[Len(defers)] = "terminal" /\ pc = "closing"
    BY <1>19 DEF TerminalRestore, Top, Stacked
  <2>2. /\ "terminal" \in Pending(defers)
        /\ Pending(defers') = Pending(defers) \ {"terminal"}
        /\ Pending(defers') \subseteq Beneath["terminal"]
        /\ InOrder(defers')
    BY <2>1, <1>19, <1>t, PopLast DEF TerminalRestore, Pop
  <2> QED
    BY <1>19, <2>1, <2>2, <1>i, <1>t DEF TerminalRestore, Cleaned, CleanupFails, Beneath
<1>20. CASE ClosePipe
  <2>1. defers # <<>> /\ defers[Len(defers)] = "pipe" /\ pc = "return"
    BY <1>20 DEF ClosePipe, Returning
  <2>2. /\ "pipe" \in Pending(defers)
        /\ Pending(defers') = Pending(defers) \ {"pipe"}
        /\ Pending(defers') \subseteq Beneath["pipe"]
        /\ InOrder(defers')
    BY <2>1, <1>20, <1>t, PopLast DEF ClosePipe, Pop
  <2> QED
    BY <1>20, <2>1, <2>2, <1>i, <1>t DEF ClosePipe, Returning, Beneath
<1>21. CASE TeardownBridge
  <2>1. defers # <<>> /\ defers[Len(defers)] = "bridge" /\ pc = "return"
    BY <1>21 DEF TeardownBridge, Returning
  <2>2. /\ "bridge" \in Pending(defers)
        /\ Pending(defers') = Pending(defers) \ {"bridge"}
        /\ Pending(defers') \subseteq Beneath["bridge"]
        /\ InOrder(defers')
    BY <2>1, <1>21, <1>t, PopLast DEF TeardownBridge, Pop
  <2> QED
    BY <1>21, <2>1, <2>2, <1>i, <1>t DEF TeardownBridge, Returning, Cleaned, CleanupFails, Beneath
<1>22. CASE CleanupCgroup
  <2>1. defers # <<>> /\ defers[Len(defers)] = "cgroup" /\ pc = "return"
    BY <1>22 DEF CleanupCgroup, Returning
  <2>2. /\ "cgroup" \in Pending(defers)
        /\ Pending(defers') = Pending(defers) \ {"cgroup"}
        /\ Pending(defers') \subseteq Beneath["cgroup"]
        /\ InOrder(defers')
    BY <2>1, <1>22, <1>t, PopLast DEF CleanupCgroup, Pop
  <2> QED
    BY <1>22, <2>1, <2>2, <1>i, <1>t DEF CleanupCgroup, Returning, Cleaned, CleanupFails, Beneath
<1>23. CASE Exit
  BY <1>23, <1>i, <1>t, <1>s DEF Exit
<1>24. CASE ReadConfig
  BY <1>24, <1>i, <1>t, <1>s DEF ReadConfig, ChildReturns, ChildEnds
<1>25. CASE SetupStep
  BY <1>25, <1>i, <1>t, <1>s DEF SetupStep, ChildReturns, ChildEnds
<1>26. CASE Notify
  BY <1>26, <1>i, <1>t, <1>s DEF Notify
<1>27. CASE StartPayload
  BY <1>27, <1>i, <1>t, <1>s DEF StartPayload, ChildReturns, ChildEnds
<1>28. CASE Reap
  BY <1>28, <1>i, <1>t, <1>s DEF Reap
<1>29. CASE FinishInit
  BY <1>29, <1>i, <1>t, <1>s DEF FinishInit, ChildReturns, ChildEnds
<1>30. CASE ForwardSignal
  <2>1. child' = child \/ (ChildAlive /\ child' = "zombie")
    BY <1>30 DEF ForwardSignal, ChildReturns, ChildEnds
  <2>2. UNCHANGED <<cfg, parentVars, hostVars, pipeVars, termVars, forwarder>>
    BY <1>30 DEF ForwardSignal
  <2> QED
    BY <2>1, <2>2
<1>31. CASE ForwarderStops
  BY <1>31, <1>i, <1>t, <1>s DEF ForwarderStops
<1>32. CASE ForwardPayloadSignal
  BY <1>32, <1>i, <1>t, <1>s DEF ForwardPayloadSignal
<1>33. CASE InitForwarderStops
  BY <1>33, <1>i, <1>t, <1>s DEF InitForwarderStops
<1>34. CASE CopyInput
  BY <1>34, <1>i, <1>t, <1>s DEF CopyInput
<1>35. CASE CopyOutput
  BY <1>35, <1>i, <1>t, <1>s DEF CopyOutput
<1>36. CASE PayloadExit
  BY <1>36, <1>i, <1>t, <1>s DEF PayloadExit
<1>37. CASE HelperStep
  BY <1>37, <1>i, <1>t, <1>s DEF HelperStep
<1>38. CASE SandboxKilled
  BY <1>38, <1>i, <1>t, <1>s DEF SandboxKilled, ChildEnds
<1>39. CASE SignalArrives
  BY <1>39, <1>i, <1>t, <1>s DEF SignalArrives
<1>40. CASE ParentKilled
  BY <1>40, <1>i, <1>t, <1>s DEF ParentKilled, ChildEnds
<1>41. CASE UNCHANGED vars
  BY <1>41, <1>i, <1>t, <1>s DEF vars
<1> QED
  BY <1>1, <1>2, <1>3, <1>4, <1>5, <1>6, <1>7, <1>8, <1>9, <1>10, <1>11, <1>12, <1>13, <1>14, <1>15, <1>16, <1>17, <1>18, <1>19, <1>20, <1>21, <1>22, <1>23, <1>24, <1>25, <1>26, <1>27, <1>28, <1>29, <1>30, <1>31, <1>32, <1>33, <1>34, <1>35, <1>36, <1>37, <1>38, <1>39, <1>40, <1>41
     DEF Next, ParentStep, DeferredStep, ChildStep, Forwarding, Ended

\* The result is one until the parent has waited for the child, then what the
\* wait status says; a failed clean-up only turns zero into one.
Outcome ==
  /\ ~childReaped => result = 1
  /\ pc \in Early => failed = {}
  /\ childReaped => \/ result = Code(childStatus)
                    \/ result = 1 /\ Code(childStatus) = 0 /\ failed # {}
  /\ result = 0 => failed = {}
  /\ pipe \in {"all", "read"}
       => pc \in {"closeWrite", "wait", "join", "crashed"} \/ childReaped

\* How far the payload is follows the init; an init that was not killed and
\* had a payload reaped it, and returned its code.
Ran ==
  /\ payload # "none" => pipe = "read"
  /\ child \in {"none", "read", "notify", "startPayload"} \cup SetupLabels => payload = "none"
  /\ payload \in {"running", "zombie"} <=> child = "reap"
  /\ child = "finish" => payload = "reaped"
  /\ payload \in {"zombie", "reaped"} => payloadStatus.how \in {"exit", "signal"}
  /\ payload = "gone" => childStatus.how = "signal"
  /\ ~ChildGone => childStatus = NoStatus
  /\ childStatus.how = "exit" /\ payload = "none" => childStatus.n # 0
  /\ childStatus.how = "exit" /\ payload # "none"
       => payload = "reaped" /\ childStatus.n = Code(payloadStatus)

ReturnInv == StackInv /\ Outcome /\ Ran

\* Nothing is returned at first.
LEMMA ReturnInit == Init => ReturnInv
<1> SUFFICES ASSUME Init PROVE ReturnInv
  OBVIOUS
<1>1. StackInv
  BY StackInit
<1>2. Outcome
  BY DEF Init, Outcome
<1>3. Ran
  BY DEF Init, Ran, NoStatus, ChildGone
<1> QED
  BY <1>1, <1>2, <1>3 DEF ReturnInv

\* Every step keeps the result what the wait status says.
LEMMA OutcomeStep == ReturnInv /\ [Next]_vars => Outcome'
<1> SUFFICES ASSUME ReturnInv, [Next]_vars PROVE Outcome'
  OBVIOUS
<1>i. ConfinedInv /\ TypeOK /\ Stacked /\ InUse
  BY DEF ReturnInv, StackInv, ConfinedInv
<1>c. /\ Supervised /\ Handover
      /\ childReaped => child = "reaped" /\ pc \notin Early
  BY <1>i DEF ConfinedInv, Supervised, Early, InUse
<1>e. Early = {"preflight", "limits", "bridge", "firewall", "pipe", "start", "closeRead",
               "attach", "move", "makeRaw", "write", "writing", "closeWrite", "wait", "join"}
  BY DEF Early, ParentLabels
<1> USE DEF ReturnInv, Outcome, ChildAlive, parentVars, hostVars, pipeVars,
            copyVars, termVars, signalVars, childVars, payloadVars
<1>1. CASE Preflight
  BY <1>1, <1>c, <1>e DEF Preflight, GoTo, ReturnError
<1>2. CASE PrepareLimits
  BY <1>2, <1>c, <1>e DEF PrepareLimits, GoTo, ReturnError
<1>3. CASE SetupBridge
  BY <1>3, <1>c, <1>e DEF SetupBridge, GoTo, ReturnError
<1>4. CASE SetupFirewall
  BY <1>4, <1>c, <1>e DEF SetupFirewall, GoTo, ReturnError
<1>5. CASE CreatePipe
  BY <1>5, <1>c, <1>e DEF CreatePipe, GoTo, ReturnError
<1>6. CASE Start
  BY <1>6, <1>c, <1>e DEF Start, GoTo, ReturnError
<1>7. CASE CloseRead
  BY <1>7, <1>c, <1>e DEF CloseRead, GoTo
<1>8. CASE Attach
  BY <1>8, <1>c, <1>e DEF Attach, GoTo, ReturnError
<1>9. CASE MoveVeth
  BY <1>9, <1>c, <1>e DEF MoveVeth, GoTo, ReturnError
<1>10. CASE MakeRaw
  BY <1>10, <1>c, <1>e DEF MakeRaw, GoTo, ReturnError
<1>11. CASE WriteConfig
  BY <1>11, <1>c, <1>e DEF WriteConfig, GoTo, ReturnError
<1>12. CASE WriteRest
  BY <1>12, <1>c, <1>e DEF WriteRest, GoTo, ReturnError
<1>13. CASE CloseWrite
  BY <1>13, <1>c, <1>e DEF CloseWrite, GoTo
<1>14. CASE Wait
  BY <1>14, <1>c, <1>e DEF Wait, GoTo
<1>15. CASE Join
  BY <1>15, <1>c, <1>e DEF Join
<1>16. CASE TerminateChild
  BY <1>16, <1>c, <1>e DEF TerminateChild, Returning, ChildEnds
<1>17. CASE StopResize
  BY <1>17, <1>c, <1>e DEF StopResize, Returning
<1>18. CASE TerminalClose
  BY <1>18, <1>c, <1>e DEF TerminalClose, Returning
<1>19. CASE TerminalRestore
  BY <1>19, <1>c, <1>e DEF TerminalRestore, Cleaned, CleanupFails
<1>20. CASE ClosePipe
  BY <1>20, <1>c, <1>e DEF ClosePipe, Returning
<1>21. CASE TeardownBridge
  BY <1>21, <1>c, <1>e DEF TeardownBridge, Returning, Cleaned, CleanupFails
<1>22. CASE CleanupCgroup
  BY <1>22, <1>c, <1>e DEF CleanupCgroup, Returning, Cleaned, CleanupFails
<1>23. CASE Exit
  BY <1>23, <1>c, <1>e DEF Exit
<1>24. CASE ReadConfig
  BY <1>24, <1>c, <1>e DEF ReadConfig, ChildReturns, ChildEnds
<1>25. CASE SetupStep
  BY <1>25, <1>c, <1>e, SetupChain DEF SetupStep, ChildReturns, ChildEnds
<1>26. CASE Notify
  BY <1>26, <1>c, <1>e DEF Notify
<1>27. CASE StartPayload
  BY <1>27, <1>c, <1>e DEF StartPayload, ChildReturns, ChildEnds
<1>28. CASE Reap
  BY <1>28, <1>c, <1>e DEF Reap
<1>29. CASE FinishInit
  BY <1>29, <1>c, <1>e DEF FinishInit, ChildReturns, ChildEnds
<1>30. CASE ForwardSignal
  <2>1. childStatus' = childStatus \/ ChildAlive
    BY <1>30 DEF ForwardSignal, ChildReturns, ChildEnds
  <2>2. UNCHANGED <<cfg, parentVars, hostVars, pipeVars, termVars>>
    BY <1>30 DEF ForwardSignal
  <2> QED
    BY <1>c, <2>1, <2>2
<1>31. CASE ForwarderStops
  BY <1>31, <1>c, <1>e DEF ForwarderStops
<1>32. CASE ForwardPayloadSignal
  BY <1>32, <1>c, <1>e DEF ForwardPayloadSignal
<1>33. CASE InitForwarderStops
  BY <1>33, <1>c, <1>e DEF InitForwarderStops
<1>34. CASE CopyInput
  BY <1>34, <1>c, <1>e DEF CopyInput
<1>35. CASE CopyOutput
  BY <1>35, <1>c, <1>e DEF CopyOutput
<1>36. CASE PayloadExit
  BY <1>36, <1>c, <1>e DEF PayloadExit
<1>37. CASE HelperStep
  BY <1>37, <1>c, <1>e DEF HelperStep
<1>38. CASE SandboxKilled
  BY <1>38, <1>c, <1>e DEF SandboxKilled, ChildEnds
<1>39. CASE SignalArrives
  BY <1>39, <1>c, <1>e DEF SignalArrives
<1>40. CASE ParentKilled
  BY <1>40, <1>c, <1>e DEF ParentKilled, ChildEnds
<1>41. CASE UNCHANGED vars
  BY <1>41, <1>c, <1>e DEF vars
<1> QED
  BY <1>1, <1>2, <1>3, <1>4, <1>5, <1>6, <1>7, <1>8, <1>9, <1>10, <1>11, <1>12, <1>13, <1>14, <1>15, <1>16, <1>17, <1>18, <1>19, <1>20, <1>21, <1>22, <1>23, <1>24, <1>25, <1>26, <1>27, <1>28, <1>29, <1>30, <1>31, <1>32, <1>33, <1>34, <1>35, <1>36, <1>37, <1>38, <1>39, <1>40, <1>41
     DEF Next, ParentStep, DeferredStep, ChildStep, Forwarding, Ended

\* Every step keeps the payload in step with the init that runs it.
LEMMA RanStep == ReturnInv /\ [Next]_vars => Ran'
<1> SUFFICES ASSUME ReturnInv, [Next]_vars PROVE Ran'
  OBVIOUS
<1>i. ConfinedInv /\ TypeOK /\ TypeOK'
  BY TypeStep DEF ReturnInv, StackInv, ConfinedInv
<1>c. Supervised /\ Handover /\ ChildType /\ PayloadType
  BY <1>i DEF ConfinedInv, TypeOK
<1>s. SetupLabels \cap ({"none", "zombie", "reaped", "read"} \cup InitLabels) = {}
  BY SetupChain DEF InitLabels
<1> USE DEF ReturnInv, Ran, ChildAlive, ChildGone, NoStatus, Exited, Signaled, parentVars,
            hostVars, pipeVars, copyVars, termVars, signalVars, childVars, payloadVars
<1>1. CASE Preflight
  BY <1>1, <1>c, <1>s DEF Preflight, GoTo, ReturnError
<1>2. CASE PrepareLimits
  BY <1>2, <1>c, <1>s DEF PrepareLimits, GoTo, ReturnError
<1>3. CASE SetupBridge
  BY <1>3, <1>c, <1>s DEF SetupBridge, GoTo, ReturnError
<1>4. CASE SetupFirewall
  BY <1>4, <1>c, <1>s DEF SetupFirewall, GoTo, ReturnError
<1>5. CASE CreatePipe
  BY <1>5, <1>c, <1>s DEF CreatePipe, GoTo, ReturnError
<1>6. CASE Start
  BY <1>6, <1>c, <1>s DEF Start, GoTo, ReturnError, Supervised, BeforeStart
<1>7. CASE CloseRead
  BY <1>7, <1>c, <1>s DEF CloseRead, GoTo
<1>8. CASE Attach
  BY <1>8, <1>c, <1>s DEF Attach, GoTo, ReturnError
<1>9. CASE MoveVeth
  BY <1>9, <1>c, <1>s DEF MoveVeth, GoTo, ReturnError
<1>10. CASE MakeRaw
  BY <1>10, <1>c, <1>s DEF MakeRaw, GoTo, ReturnError
<1>11. CASE WriteConfig
  BY <1>11, <1>c, <1>s DEF WriteConfig, GoTo, ReturnError, Handover
<1>12. CASE WriteRest
  BY <1>12, <1>c, <1>s DEF WriteRest, GoTo, ReturnError
<1>13. CASE CloseWrite
  BY <1>13, <1>c, <1>s DEF CloseWrite, GoTo
<1>14. CASE Wait
  BY <1>14, <1>c, <1>s DEF Wait, GoTo
<1>15. CASE Join
  BY <1>15, <1>c, <1>s DEF Join
<1>16. CASE TerminateChild
  BY <1>16, <1>c, <1>s DEF TerminateChild, Returning, ChildEnds, NamespaceDies
<1>17. CASE StopResize
  BY <1>17, <1>c, <1>s DEF StopResize, Returning
<1>18. CASE TerminalClose
  BY <1>18, <1>c, <1>s DEF TerminalClose, Returning
<1>19. CASE TerminalRestore
  BY <1>19, <1>c, <1>s DEF TerminalRestore, Cleaned, CleanupFails
<1>20. CASE ClosePipe
  BY <1>20, <1>c, <1>s DEF ClosePipe, Returning
<1>21. CASE TeardownBridge
  BY <1>21, <1>c, <1>s DEF TeardownBridge, Returning, Cleaned, CleanupFails
<1>22. CASE CleanupCgroup
  BY <1>22, <1>c, <1>s DEF CleanupCgroup, Returning, Cleaned, CleanupFails
<1>23. CASE Exit
  BY <1>23, <1>c, <1>s DEF Exit
<1>24. CASE ReadConfig
  BY <1>24, <1>c, <1>s DEF ReadConfig, ChildReturns, ChildEnds, NamespaceDies
<1>25. CASE SetupStep
  <2>1. payload = "none" /\ UNCHANGED <<payload, payloadStatus>>
    BY <1>25, SetupChain, <1>s DEF SetupStep, ChildReturns, ChildEnds, NamespaceDies
  <2>2. CASE ChildReturns(1)
    BY <1>25, <2>1, <2>2, <1>s DEF SetupStep, ChildReturns, ChildEnds
  <2>3. CASE child' = NextStep[child] /\ UNCHANGED childStatus
    <3>1. child' \in SetupLabels \cup {"notify"}
      BY <1>25, <2>3, SetupChain DEF SetupStep
    <3> QED
      BY <1>25, <2>1, <2>3, <3>1, <1>s DEF SetupStep, InitLabels
  <2> QED
    BY <1>25, <2>2, <2>3 DEF SetupStep
<1>26. CASE Notify
  BY <1>26, <1>c, <1>s DEF Notify
<1>27. CASE StartPayload
  BY <1>27, <1>c, <1>s DEF StartPayload, ChildReturns, ChildEnds, NamespaceDies, Handover, InitLabels
<1>28. CASE Reap
  BY <1>28, <1>c, <1>s DEF Reap, InitLabels
<1>29. CASE FinishInit
  BY <1>29, <1>c, <1>s DEF FinishInit, ChildReturns, ChildEnds, NamespaceDies
<1>30. CASE ForwardSignal
  <2>1. \/ UNCHANGED <<child, childStatus, payloadVars>>
        \/ ChildAlive /\ child \notin InitLabels \ {"notify"} /\ ChildReturns(2)
    BY <1>30 DEF ForwardSignal
  <2>2. pipe' = pipe
    BY <1>30 DEF ForwardSignal
  <2>3. CASE UNCHANGED <<child, childStatus, payloadVars>>
    BY <2>2, <2>3
  <2>4. CASE ChildAlive /\ child \notin InitLabels \ {"notify"} /\ ChildReturns(2)
    <3>1. payload = "none"
      BY <2>4, <1>c DEF ChildType, ChildLabels
    <3> QED
      BY <2>2, <2>4, <3>1, <1>s DEF ChildReturns, ChildEnds, NamespaceDies
  <2> QED
    BY <2>1, <2>3, <2>4
<1>31. CASE ForwarderStops
  BY <1>31, <1>c, <1>s DEF ForwarderStops
<1>32. CASE ForwardPayloadSignal
  BY <1>32, <1>c, <1>s DEF ForwardPayloadSignal
<1>33. CASE InitForwarderStops
  BY <1>33, <1>c, <1>s DEF InitForwarderStops
<1>34. CASE CopyInput
  BY <1>34, <1>c, <1>s DEF CopyInput
<1>35. CASE CopyOutput
  BY <1>35, <1>c, <1>s DEF CopyOutput
<1>36. CASE PayloadExit
  BY <1>36, <1>c, <1>s DEF PayloadExit
<1>37. CASE HelperStep
  BY <1>37, <1>c, <1>s DEF HelperStep
<1>38. CASE SandboxKilled
  BY <1>38, <1>c, <1>s DEF SandboxKilled, ChildEnds, NamespaceDies
<1>39. CASE SignalArrives
  BY <1>39, <1>c, <1>s DEF SignalArrives
<1>40. CASE ParentKilled
  BY <1>40, <1>c, <1>s DEF ParentKilled, ChildEnds, NamespaceDies
<1>41. CASE UNCHANGED vars
  BY <1>41, <1>c, <1>s DEF vars
<1> QED
  BY <1>1, <1>2, <1>3, <1>4, <1>5, <1>6, <1>7, <1>8, <1>9, <1>10, <1>11, <1>12, <1>13, <1>14, <1>15, <1>16, <1>17, <1>18, <1>19, <1>20, <1>21, <1>22, <1>23, <1>24, <1>25, <1>26, <1>27, <1>28, <1>29, <1>30, <1>31, <1>32, <1>33, <1>34, <1>35, <1>36, <1>37, <1>38, <1>39, <1>40, <1>41
     DEF Next, ParentStep, DeferredStep, ChildStep, Forwarding, Ended

\* So every step keeps both.
LEMMA ReturnStep == ReturnInv /\ [Next]_vars => ReturnInv'
BY StackStep, OutcomeStep, RanStep DEF ReturnInv

-----------------------------------------------------------------------------

\* The strengthening holds of every run.
LEMMA SpecReturn == Spec => []ReturnInv
BY ReturnInit, ReturnStep, PTL DEF Spec

\* Nothing is taken away from a process or goroutine that still uses it, in any
\* configuration and after any failure: deferred functions run in the order
\* opposite to the one in which they were deferred, and what lies on the stack
\* above a resource are its users.
THEOREM ReleasedInOrder == Spec => []ReleaseOrder
<1>1. ReturnInv => ReleaseOrder
  <2> SUFFICES ASSUME ReturnInv PROVE ReleaseOrder
    OBVIOUS
  <2>1. InUse /\ Owned
    BY DEF ReturnInv, StackInv
  <2>2. resize = "running" => master
    BY <2>1 DEF InUse, Owned
  <2> QED
    BY <2>1, <2>2 DEF InUse, ReleaseOrder
<1> QED
  BY <1>1, SpecReturn, PTL

\* Whatever Parent made is gone when it returns, or its loss was reported and
\* the result is not zero; a zero is the payload's own.
THEOREM ReturnsClean == Spec => []CleanReturn
<1>1. ReturnInv => CleanReturn
  <2> SUFFICES ASSUME ReturnInv, pc = "exited"
               PROVE  /\ Leftovers \subseteq failed
                      /\ result = 0 => failed = {} /\ payloadStatus = Exited(0)
    BY DEF CleanReturn
  <2>1. Stacked /\ Owned /\ InUse /\ Outcome /\ Ran /\ ChildType /\ PayloadType
    BY DEF ReturnInv, StackInv, ConfinedInv, TypeOK
  <2>2. Pending(defers) = {}
    BY <2>1 DEF Stacked, Pending
  <2>3. Leftovers \subseteq failed
    BY <2>1, <2>2 DEF Owned, Leftovers
  <2>4. ASSUME result = 0 PROVE failed = {} /\ payloadStatus = Exited(0)
    <3>1. failed = {} /\ childReaped /\ Code(childStatus) = 0
      BY <2>1, <2>4 DEF Outcome
    <3>2. childStatus.how = "exit" /\ childStatus.n = 0
      BY <2>1, <3>1 DEF ChildType, Statuses, Code
    <3>3. payload = "reaped" /\ Code(payloadStatus) = 0
      BY <2>1, <3>2 DEF Ran
    <3>4. payloadStatus.how = "exit" /\ payloadStatus.n = 0
      BY <2>1, <3>3 DEF PayloadType, Statuses, Code
    <3> QED
      BY <2>1, <3>1, <3>4 DEF PayloadType, Statuses, Exited
  <2> QED
    BY <2>3, <2>4
<1> QED
  BY <1>1, SpecReturn, PTL

\* The payload's status reaches the caller of Parent, as 128 + n for signal n,
\* whenever a payload was started and its init was not killed.
THEOREM StatusKept == Spec => []StatusPreserved
<1>1. ReturnInv => StatusPreserved
  <2> SUFFICES ASSUME ReturnInv, pc = "exited", payload # "none", childStatus.how = "exit"
               PROVE  /\ payloadStatus # NoStatus
                      /\ \/ result = Code(payloadStatus)
                         \/ result = 1 /\ Code(payloadStatus) = 0 /\ failed # {}
    BY DEF StatusPreserved, Code
  <2>1. Outcome /\ Ran
    BY DEF ReturnInv
  <2>2. payload = "reaped" /\ childStatus.n = Code(payloadStatus)
    BY <2>1 DEF Ran
  <2>3. payloadStatus # NoStatus
    BY <2>1, <2>2 DEF Ran, NoStatus
  <2>4. childReaped
    BY <2>1, <2>2 DEF Ran, Outcome
  <2>5. Code(childStatus) = Code(payloadStatus)
    BY <2>2 DEF Code
  <2> QED
    BY <2>1, <2>3, <2>4, <2>5 DEF Outcome
<1> QED
  BY <1>1, SpecReturn, PTL

=============================================================================
