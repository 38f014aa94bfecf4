--------------------------- MODULE TerminalSession ---------------------------
(***************************************************************************)
(* What an interactive run carries between the host's terminal and the     *)
(* payload's pty (parent/terminal.go): the bytes typed, the bytes printed  *)
(* and the window size.  SandboxLifecycle has the same goroutines with     *)
(* their waits and the raw mode; here is the data that passes through      *)
(* them.  The parent's main goroutine starts the session and closes it;    *)
(* copyInput, copyOutput and the goroutine of watchResize run beside it.   *)
(*                                                                         *)
(* Bytes are numbered in the order in which they are typed, or printed.    *)
(* An ioctl may fail at any time; so may a write to the standard output,   *)
(* which in this mode may be a file.                                       *)
(***************************************************************************)
EXTENDS Naturals, Sequences, SequencesExt

CONSTANTS
  Sizes,        \* window sizes with rows and columns
  Zero,         \* a size without rows or columns
  DefaultSize,  \* defaultTerminalColumns by defaultTerminalRows
  CanFail,      \* whether ioctls and writes may fail
  PtyBuffer,    \* bytes the pty holds in each direction
  MaxResizes,   \* bound: window changes on the host
  MaxTyped,     \* bound: bytes typed
  MaxPrinted    \* bound: bytes the payload prints

ASSUME SizesAssumption == Zero \notin Sizes /\ DefaultSize \notin {Zero}
ASSUME BoundsAssumption ==
  /\ PtyBuffer \in Nat \ {0} /\ CanFail \in BOOLEAN
  /\ MaxResizes \in Nat /\ MaxTyped \in Nat /\ MaxPrinted \in Nat

VARIABLES
  main,       \* where the parent's main goroutine is
  child,      \* some process has the slave side of the pty open
  host,       \* window size of the host's terminal
  pty,        \* window size of the pty
  size,       \* interactiveTerminal.size
  resizes,    \* window changes so far
  posted,     \* a SIGWINCH is on its way to the parent
  notified,   \* signal.Notify is in effect
  signals,    \* signals waiting in the channel of watchResize
  watcher,    \* where the goroutine of watchResize is
  measured,   \* what its GetsizeFull returned
  retained,   \* the last resize failed, and was logged
  typed, taken, pending, inq, got,   \* input: typed, read, in copyInput, in the pty, at the payload
  input,      \* where copyInput is
  inputStop,  \* the channel inputStop is closed
  printed, outq, buffer, shown,      \* output: printed, in the pty, in io.Copy, on the standard output
  output,     \* where copyOutput is
  unwritten   \* the standard output refused a byte

sizeVars == <<host, pty, size, resizes, posted, notified, signals, watcher, measured, retained>>
inputVars == <<typed, taken, pending, inq, got, input>>
outputVars == <<printed, outq, buffer, shown, output, unwritten>>
vars == <<main, child, inputStop, sizeVars, inputVars, outputVars>>

Bytes(from, to) == [i \in 1..(to - from) |-> from + i]
Least(a, b) == IF a < b THEN a ELSE b

Init ==
  /\ main = "start" /\ child = FALSE /\ inputStop = FALSE
  /\ host \in Sizes \cup {Zero} /\ pty = Zero /\ size = Zero
  /\ resizes = 0 /\ posted = FALSE /\ notified = FALSE /\ signals = 0
  /\ watcher = "none" /\ measured = Zero /\ retained = FALSE
  /\ typed = 0 /\ taken = 0 /\ pending = <<>> /\ inq = <<>> /\ got = <<>> /\ input = "none"
  /\ printed = 0 /\ outq = <<>> /\ buffer = <<>> /\ shown = <<>> /\ output = "none"
  /\ unwritten = FALSE

-----------------------------------------------------------------------------
(* The main goroutine.                                                     *)

\* GetsizeFull: an error is the same to its callers as a size without dimensions.
GetsizeFull == {host} \cup (IF CanFail THEN {Zero} ELSE {})

\* start asks for the size...
CurrentTerminalSize ==
  /\ main = "start"
  /\ \E s \in GetsizeFull : measured' = IF s = Zero THEN DefaultSize ELSE s
  /\ main' = "open"
  /\ UNCHANGED <<child, inputStop, host, pty, size, resizes, posted, notified, signals,
                 watcher, retained, inputVars, outputVars>>

\* ...opens a pty of that size, starts the child on it and the two copiers; or
\* fails, and there is no session.
StartWithAttrs ==
  /\ main = "open"
  /\ \/ /\ main' = "started" /\ child' = TRUE
        /\ pty' = measured /\ size' = measured
        /\ input' = "poll" /\ output' = "read"
     \/ /\ CanFail /\ main' = "returned" /\ UNCHANGED <<child, pty, size, input, output>>
  /\ UNCHANGED <<inputStop, host, resizes, posted, notified, signals, watcher, measured,
                 retained, typed, taken, pending, inq, got, printed, outq, buffer, shown,
                 unwritten>>

\* watchResize
WatchResize ==
  /\ main = "started" /\ main' = "run"
  /\ notified' = TRUE /\ watcher' = "select"
  /\ UNCHANGED <<child, inputStop, host, pty, size, resizes, posted, signals, measured,
                 retained, inputVars, outputVars>>

\* The parent waited for the child, or killed it.  The function that watchResize
\* returned stops the signals and closes resizeDone,
StopResize ==
  /\ main = "run" /\ ~child /\ main' = "stopping"
  /\ notified' = FALSE
  /\ UNCHANGED <<child, inputStop, host, pty, size, resizes, posted, signals, watcher,
                 measured, retained, inputVars, outputVars>>

\* waits for the goroutine; then close tells copyInput to stop,
ResizeStopped ==
  /\ main = "stopping" /\ watcher = "done" /\ main' = "closing"
  /\ inputStop' = TRUE
  /\ UNCHANGED <<child, sizeVars, inputVars, outputVars>>

\* Mutant: close does not wait for copyOutput before it closes the master.
CloseMasterFirst ==
  /\ main = "closing" /\ input = "done" /\ main' = "returned"
  /\ output' = "done"
  /\ UNCHANGED <<child, inputStop, sizeVars, inputVars, printed, outq, buffer, shown, unwritten>>

\* waits for both copiers and closes the master.
Close ==
  /\ main = "closing" /\ input = "done" /\ output = "done" /\ main' = "returned"
  /\ UNCHANGED <<child, inputStop, sizeVars, inputVars, outputVars>>

-----------------------------------------------------------------------------
(* The window size.                                                        *)

\* The user changes the window; the kernel posts a signal, which a process that
\* has not asked for it ignores.
HostResize ==
  /\ resizes < MaxResizes /\ main # "returned"
  /\ \E s \in (Sizes \cup {Zero}) \ {host} : host' = s
  /\ resizes' = resizes + 1 /\ posted' = (posted \/ notified)
  /\ UNCHANGED <<main, child, inputStop, pty, size, notified, signals, watcher, measured,
                 retained, inputVars, outputVars>>

\* The runtime puts the signal into the channel, or drops it when the channel,
\* of capacity 1, is full.
Deliver ==
  /\ posted /\ posted' = FALSE
  /\ signals' = IF notified THEN 1 ELSE signals
  /\ UNCHANGED <<main, child, inputStop, host, pty, size, resizes, notified, watcher, measured,
                 retained, inputVars, outputVars>>

\* The goroutine takes a signal and resize reads the host's size...
ReadSize ==
  /\ watcher = "select" /\ signals > 0 /\ signals' = signals - 1
  /\ measured' \in GetsizeFull /\ watcher' = "set"
  /\ UNCHANGED <<main, child, inputStop, host, pty, size, resizes, posted, notified, retained,
                 inputVars, outputVars>>

\* Mutant: signals that came during the resize count as served by it.
SetSizeDrains ==
  /\ watcher = "set" /\ watcher' = "select" /\ signals' = 0
  /\ \/ /\ measured # Zero /\ pty' = measured /\ size' = measured /\ retained' = FALSE
     \/ /\ CanFail \/ measured = Zero
        /\ retained' = TRUE /\ UNCHANGED <<pty, size>>
  /\ UNCHANGED <<main, child, inputStop, host, resizes, posted, notified, measured, inputVars,
                 outputVars>>

\* ...and passes it on, unless it has no dimensions or the ioctl fails.
SetSize ==
  /\ watcher = "set" /\ watcher' = "select"
  /\ \/ /\ measured # Zero /\ pty' = measured /\ size' = measured /\ retained' = FALSE
     \/ /\ CanFail \/ measured = Zero
        /\ retained' = TRUE /\ UNCHANGED <<pty, size>>
  /\ UNCHANGED <<main, child, inputStop, host, resizes, posted, notified, signals, measured,
                 inputVars, outputVars>>

\* resizeDone is closed; the select may still take a waiting signal first.
WatcherDone ==
  /\ watcher = "select" /\ main = "stopping" /\ watcher' = "done"
  /\ UNCHANGED <<main, child, inputStop, host, pty, size, resizes, posted, notified, signals,
                 measured, retained, inputVars, outputVars>>

-----------------------------------------------------------------------------
(* Input.                                                                  *)

Type ==
  /\ typed < MaxTyped /\ main # "returned" /\ typed' = typed + 1
  /\ UNCHANGED <<main, child, inputStop, sizeVars, taken, pending, inq, got, input, outputVars>>

\* copyInput, one round: inputStop is not closed, poll reports input, and read
\* takes some of it.
ReadInput ==
  /\ input = "poll" /\ ~inputStop /\ taken < typed
  /\ \E n \in (taken + 1)..typed : pending' = Bytes(taken, n) /\ taken' = n
  /\ input' = "write"
  /\ UNCHANGED <<main, child, inputStop, sizeVars, typed, inq, got, outputVars>>

\* master.Write takes what the pty has room for, and waits while it has none; it
\* fails when nobody has the slave side open.
WriteInput ==
  /\ input = "write"
  /\ IF child
     THEN \E n \in 1..Least(Len(pending), PtyBuffer - Len(inq)) :
            /\ inq' = inq \o SubSeq(pending, 1, n)
            /\ pending' = SubSeq(pending, n + 1, Len(pending))
            /\ input' = IF n = Len(pending) THEN "poll" ELSE "write"
     ELSE input' = "done" /\ UNCHANGED <<pending, inq>>
  /\ UNCHANGED <<main, child, inputStop, sizeVars, typed, taken, got, outputVars>>

\* inputStop is closed, which poll's 100 ms bring to light; or the terminal hung
\* up, or poll or read failed.
EndInput ==
  /\ input = "poll" /\ (inputStop \/ CanFail) /\ input' = "done"
  /\ UNCHANGED <<main, child, inputStop, sizeVars, typed, taken, pending, inq, got, outputVars>>

\* The payload reads.
PayloadReads ==
  /\ child /\ inq # <<>> /\ got' = Append(got, Head(inq)) /\ inq' = Tail(inq)
  /\ UNCHANGED <<main, child, inputStop, sizeVars, typed, taken, pending, input, outputVars>>

-----------------------------------------------------------------------------
(* Output.                                                                 *)

\* The payload prints, or waits for room.
PayloadPrints ==
  /\ child /\ printed < MaxPrinted /\ Len(outq) < PtyBuffer
  /\ printed' = printed + 1 /\ outq' = Append(outq, printed + 1)
  /\ UNCHANGED <<main, child, inputStop, sizeVars, inputVars, buffer, shown, output, unwritten>>

\* The payload and every other process of the sandbox is gone.
ChildGone ==
  /\ child /\ child' = FALSE
  /\ UNCHANGED <<main, inputStop, sizeVars, inputVars, outputVars>>

\* Mutant: one goroutine serves both directions, so output waits for input.
ReadOutputInTurn ==
  /\ output = "read" /\ input # "write"
  /\ \/ \E n \in 1..Len(outq) :
          /\ buffer' = SubSeq(outq, 1, n) /\ outq' = SubSeq(outq, n + 1, Len(outq))
          /\ output' = "write"
     \/ outq = <<>> /\ ~child /\ output' = "done" /\ UNCHANGED <<buffer, outq>>
  /\ UNCHANGED <<main, child, inputStop, sizeVars, inputVars, printed, shown, unwritten>>

\* io.Copy reads; once everyone is gone and the pty is empty it gets EIO, which
\* copyTerminalOutput takes for the end.
ReadOutput ==
  /\ output = "read"
  /\ \/ \E n \in 1..Len(outq) :
          /\ buffer' = SubSeq(outq, 1, n) /\ outq' = SubSeq(outq, n + 1, Len(outq))
          /\ output' = "write"
     \/ outq = <<>> /\ ~child /\ output' = "done" /\ UNCHANGED <<buffer, outq>>
  /\ UNCHANGED <<main, child, inputStop, sizeVars, inputVars, printed, shown, unwritten>>

\* The standard output takes all that was read, or some of it and then fails.
WriteOutput ==
  /\ output = "write"
  /\ \/ shown' = shown \o buffer /\ output' = "read" /\ UNCHANGED unwritten
     \/ /\ CanFail /\ output' = "done" /\ unwritten' = TRUE
        /\ \E n \in 0..(Len(buffer) - 1) : shown' = shown \o SubSeq(buffer, 1, n)
  /\ buffer' = <<>>
  /\ UNCHANGED <<main, child, inputStop, sizeVars, inputVars, printed, outq>>

-----------------------------------------------------------------------------
Finished == main = "returned" /\ ~posted /\ UNCHANGED vars

Parent == CurrentTerminalSize \/ StartWithAttrs \/ WatchResize \/ StopResize \/ ResizeStopped \/ Close
Watcher == ReadSize \/ SetSize \/ WatcherDone
CopyInput == ReadInput \/ WriteInput \/ EndInput
CopyOutput == ReadOutput \/ WriteOutput
Payload == PayloadReads \/ PayloadPrints \/ ChildGone

Next ==
  \/ CurrentTerminalSize \/ StartWithAttrs \/ WatchResize \/ StopResize \/ ResizeStopped \/ Close
  \/ HostResize \/ Deliver \/ ReadSize \/ SetSize \/ WatcherDone
  \/ Type \/ ReadInput \/ WriteInput \/ EndInput \/ PayloadReads
  \/ PayloadPrints \/ ChildGone \/ ReadOutput \/ WriteOutput
  \/ Finished

Spec == Init /\ [][Next]_vars

\* Goroutines run, and signals arrive.  Nothing is assumed of the payload, which
\* may never read, print or end, and nothing of the user.
FairSpec ==
  /\ Spec
  /\ WF_vars(Parent) /\ WF_vars(Deliver) /\ WF_vars(Watcher)
  /\ WF_vars(CopyInput) /\ WF_vars(CopyOutput)

-----------------------------------------------------------------------------
(* Properties.                                                             *)

\* The variables have their types; the channel holds one signal.
TypeOK ==
  /\ main \in {"start", "open", "started", "run", "stopping", "closing", "returned"}
  /\ child \in BOOLEAN /\ inputStop \in BOOLEAN
  /\ {host, pty, size, measured} \subseteq Sizes \cup {Zero, DefaultSize}
  /\ resizes \in 0..MaxResizes /\ posted \in BOOLEAN /\ notified \in BOOLEAN
  /\ signals \in {0, 1} /\ retained \in BOOLEAN
  /\ watcher \in {"none", "select", "set", "done"}
  /\ input \in {"none", "poll", "write", "done"} /\ taken <= typed /\ typed <= MaxTyped
  /\ output \in {"none", "read", "write", "done"} /\ printed <= MaxPrinted
  /\ Len(inq) <= PtyBuffer /\ Len(outq) <= PtyBuffer

\* What the payload is given is what was typed, in order and without a gap,
\* however the reads and the short writes of copyInput cut it up.
InputInOrder ==
  LET n == Len(got) + Len(inq) + Len(pending) IN
  /\ got \o inq \o pending = Bytes(0, n)
  /\ n = taken

\* When the session is over the standard output has everything the payload
\* printed, also what it printed just before it ended; unless the output failed,
\* and then it has an unbroken beginning of it.
OutputComplete ==
  /\ shown = Bytes(0, Len(shown))
  /\ main = "returned" /\ ~unwritten => Len(shown) = printed

\* The payload's terminal always has rows and columns, and interactiveTerminal
\* knows the size it has, whatever the host reports.
SizeUsable == child => pty # Zero /\ size = pty

\* What is printed is shown, although the user may never type, the payload never
\* read and never end: only a standard output that fails leaves a payload waiting
\* for room in its pty.
OutputDrains ==
  \A n \in 1..MaxPrinted : printed >= n ~> Len(shown) >= n \/ unwritten

\* A window change that the parent is told of reaches the payload's terminal,
\* although changes during a resize are coalesced into one signal; unless the
\* window changes again, a resize fails, or the session ends.
SizeFollows ==
  \A s \in Sizes : posted /\ host = s ~> pty = s \/ host # s \/ retained \/ main # "run"

\* The README on --interactive: "tracks terminal resizing".  While the session
\* runs, the payload's terminal gets the size of the host's.
TracksResizing ==
  \A s \in Sizes : main = "run" /\ host = s ~> pty = s \/ host # s \/ main # "run"

\* Whatever the goroutines' order, short writes, full buffers and failing calls: no
\* byte is lost, doubled or reordered in either direction, also at the end of the
\* session, and the payload's terminal has a size that the session knows.
SessionIntact == TypeOK /\ InputInOrder /\ OutputComplete /\ SizeUsable
=============================================================================
