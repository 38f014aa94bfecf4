--------------------------- MODULE ResourceLimits ---------------------------
(***************************************************************************)
(* The limits of a run (resources/cgroup.go, resources/storage.go): a      *)
(* parent makes a cgroup below the one delegated to it, writes the         *)
(* requested limits, moves its child in and removes the cgroup at the end; *)
(* the child limits the size of files.  Several runs share the delegated   *)
(* cgroup, any system call may fail, and the owner of the hierarchy may    *)
(* take a controller back at any moment, with which its files vanish.      *)
(*                                                                         *)
(* A machine word is MaxWord, a unit (GB, MB) is UnitBytes, scaled down    *)
(* together; MaxWord is also RLIM_INFINITY.                                *)
(***************************************************************************)
EXTENDS Naturals, Sequences, FiniteSetsExt, SequencesExt

CONSTANTS
  Procs,        \* runs of the sandbox
  Names,        \* names that MkdirTemp may choose
  Requests,     \* the limits that a configuration may ask for, 0 for none
  Inherited,    \* the RLIMIT_FSIZE a child may begin with
  UnitBytes, MaxWord,
  MaxCleanups,  \* bound on the calls of Cleanup in a run
  Absent

Controllers == {"cpu", "memory", "pids"}

\* The requests are machine integers, and none of them is negative.
ASSUME LimitsAssumption ==
  /\ Requests \subseteq [cpu : 0..MaxWord, memory : 0..MaxWord,
                         pids : 0..MaxWord, file : 0..MaxWord]
  /\ Inherited \subseteq [cur : 0..MaxWord, max : 0..MaxWord]
  /\ UnitBytes \in Nat \ {0} /\ MaxWord \in Nat \ {0} /\ MaxCleanups \in Nat \ {0}

\* The files in the order of configure, with their controllers.
Files == <<"cpu.max", "memory.max", "memory.swap.max", "memory.oom.group", "pids.max">>
Controller(f) ==
  CASE f = "cpu.max" -> "cpu" [] f = "pids.max" -> "pids" [] OTHER -> "memory"

\* The cgroups with the files F, and the limits in them.
CgroupsWith(F) == [owner : Procs, members : SUBSET Procs, limits : [F -> 0..MaxWord]]

ASSUME AbsentAssumption ==
  /\ Absent \notin Names
  /\ \A F \in SUBSET ToSet(Files) : Absent \notin CgroupsWith(F)

VARIABLES
  request,     \* request[p], the limits that the run p asks for
  pc,          \* pc[p], what the run p does next
  error,       \* error[p], what it has reported
  path,        \* path[p], limit.path, or Absent for ""
  written,     \* written[p], how many files configure has dealt with
  cleanups,    \* cleanups[p], how often Cleanup was called
  fsize,       \* fsize[p], the child's RLIMIT_FSIZE before and after
  cgroup,      \* cgroup[n], the cgroup n below the delegated one, or Absent
  delegated,   \* cgroup.subtree_control of the delegated cgroup
  lost         \* lost[p], the controllers p lost after it had written its limits

hostVars == <<delegated, lost>>
vars == <<request, pc, error, path, written, cleanups, fsize, cgroup, hostVars>>

\* requestedControllers
Requested(p) == {c \in Controllers : request[p][c] > 0}

Init ==
  /\ request \in [Procs -> Requests]
  /\ pc = [p \in Procs |-> "check"]
  /\ error = [p \in Procs |-> {}]
  /\ path = [p \in Procs |-> Absent]
  /\ written = [p \in Procs |-> 0] /\ cleanups = [p \in Procs |-> 0]
  /\ fsize = [p \in Procs |-> Absent]
  /\ cgroup = [n \in Names |-> Absent]
  /\ delegated \in SUBSET Controllers
  /\ lost = [p \in Procs |-> {}]

Step(p, from, to) == pc[p] = from /\ pc' = [pc EXCEPT ![p] = to]
Reports(p, what) == error' = [error EXCEPT ![p] = @ \cup {what}]

-----------------------------------------------------------------------------
(* prepareResourceLimits.                                                  *)

\* Without limits there is no cgroup.  Otherwise the membership and the two
\* lists of controllers are read and every requested one must be in them.
Check(p) ==
  /\ IF Requested(p) = {} THEN Step(p, "check", "attach") /\ UNCHANGED error
     ELSE \/ /\ Requested(p) \subseteq delegated
             /\ Step(p, "check", "mkdir")
             /\ UNCHANGED error
          \/ Step(p, "check", "end") /\ Reports(p, "prepare")
  /\ UNCHANGED <<path, written, cleanups, fsize, cgroup, request, hostVars>>

\* MkdirTemp takes a name that is free; the kernel puts a file there for every
\* delegated controller, without a limit in it.
Mkdir(p) ==
  \/ /\ Step(p, "mkdir", "configure")
     /\ \E n \in {n \in Names : cgroup[n] = Absent} :
          /\ path' = [path EXCEPT ![p] = n]
          /\ cgroup' = [cgroup EXCEPT ![n] =
               [owner |-> p, members |-> {},
                limits |-> [f \in {f \in ToSet(Files) : Controller(f) \in delegated} |->
                              MaxWord]]]
     /\ UNCHANGED <<error, written, cleanups, fsize, request, hostVars>>
  \/ /\ Step(p, "mkdir", "end") /\ Reports(p, "prepare")
     /\ UNCHANGED <<path, written, cleanups, fsize, cgroup, request, hostVars>>

\* configure and ApplyFileSizeLimit, before the multiplication
Overflows(n) == n > MaxWord \div UnitBytes

Bytes(n) == (n * UnitBytes) % (MaxWord + 1)

\* What configure writes into the file f.
Value(p, f) ==
  CASE f = "cpu.max" -> request[p].cpu
    [] f = "memory.max" -> Bytes(request[p].memory)
    [] f = "memory.swap.max" -> 0
    [] f = "memory.oom.group" -> 1
    [] f = "pids.max" -> request[p].pids

\* The cgroup of p, which is there as long as its path is.
Own(p) == cgroup[path[p]]

\* Mutant: a file that is not there is left out.
ConfigureLenient(p) ==
  LET f == Files[written[p] + 1] IN
  /\ pc[p] = "configure" /\ written[p] < Len(Files)
  /\ IF Controller(f) \in Requested(p) /\ f \in DOMAIN Own(p).limits
     THEN cgroup' = [cgroup EXCEPT ![path[p]].limits[f] = Value(p, f)]
     ELSE UNCHANGED cgroup
  /\ written' = [written EXCEPT ![p] = @ + 1]
  /\ UNCHANGED <<pc, error, path, cleanups, fsize, request, hostVars>>

\* configure, one file after the other; a file is never created, so that a
\* controller taken back in between is an error.
Configure(p) ==
  LET f == Files[written[p] + 1]
      wanted == Controller(f) \in Requested(p)
      possible == /\ f \in DOMAIN Own(p).limits
                  /\ f = "memory.max" => ~Overflows(request[p].memory)
  IN
  /\ pc[p] = "configure" /\ written[p] < Len(Files)
  /\ \/ /\ wanted => possible
        /\ cgroup' = IF wanted THEN [cgroup EXCEPT ![path[p]].limits[f] = Value(p, f)]
                     ELSE cgroup
        /\ written' = [written EXCEPT ![p] = @ + 1]
        /\ UNCHANGED <<pc, error>>
     \/ /\ wanted
        /\ Step(p, "configure", "undo") /\ Reports(p, "prepare")
        /\ UNCHANGED <<cgroup, written>>
  /\ UNCHANGED <<path, cleanups, fsize, request, hostVars>>

Configured(p) ==
  /\ written[p] = Len(Files)
  /\ Step(p, "configure", "attach")
  /\ UNCHANGED <<error, path, written, cleanups, fsize, cgroup, request, hostVars>>

-----------------------------------------------------------------------------
(* The run.                                                                *)

\* Attach writes the child's PID; the child still waits for its configuration.
\* Where something fails before that the child is killed, if there is one.
Attach(p) ==
  /\ \/ /\ Step(p, "attach", "child") /\ UNCHANGED error
        /\ cgroup' = IF path[p] = Absent THEN cgroup
                     ELSE [cgroup EXCEPT ![path[p]].members = {p}]
     \/ /\ Step(p, "attach", "cleanup") /\ Reports(p, "run")
        /\ UNCHANGED cgroup
  /\ UNCHANGED <<path, written, cleanups, fsize, request, hostVars>>

\* The smallest of the limits; RLIM_INFINITY is the largest number.
Ceiling(bytes, inherited) == Min({bytes, inherited.cur, inherited.max})

\* ApplyFileSizeLimit; the kernel lets nobody raise the hard limit.
ApplyFileSizeLimit(p) ==
  LET bytes == Bytes(request[p].file) IN
  /\ \/ /\ request[p].file = 0 \/ ~Overflows(request[p].file)
        /\ \E inherited \in Inherited :
             LET ceiling == Ceiling(bytes, inherited) IN
             IF request[p].file = 0
             THEN /\ fsize' = [fsize EXCEPT ![p] = [before |-> inherited, now |-> inherited]]
                  /\ Step(p, "child", "running") /\ UNCHANGED error
             ELSE IF ceiling > inherited.max
             THEN Step(p, "child", "dying") /\ Reports(p, "denied") /\ UNCHANGED fsize
             ELSE /\ fsize' = [fsize EXCEPT ![p] =
                       [before |-> inherited, now |-> [cur |-> ceiling, max |-> ceiling]]]
                  /\ Step(p, "child", "running") /\ UNCHANGED error
     \/ /\ request[p].file > 0
        /\ Step(p, "child", "dying") /\ Reports(p, "run") /\ UNCHANGED fsize
  /\ UNCHANGED <<path, written, cleanups, cgroup, request, hostVars>>

\* The child has ended; its last process may leave the cgroup a little later.
ChildGone(p) ==
  /\ \/ Step(p, "running", "cleanup") \/ Step(p, "dying", "cleanup")
  /\ \/ UNCHANGED cgroup
     \/ path[p] # Absent /\ cgroup' = [cgroup EXCEPT ![path[p]].members = {}]
  /\ UNCHANGED <<error, path, written, cleanups, fsize, request, hostVars>>

LastProcessGone(n) ==
  /\ cgroup[n] # Absent /\ cgroup[n].members # {}
  /\ pc[cgroup[n].owner] \in {"cleanup", "end"}
  /\ cgroup' = [cgroup EXCEPT ![n].members = {}]
  /\ UNCHANGED <<pc, error, path, written, cleanups, fsize, request, hostVars>>

-----------------------------------------------------------------------------
(* Cleanup.                                                                *)

\* Mutant: the path is forgotten before it is known that the removal worked.
CleanupForgetsPath(p) ==
  /\ cleanups' = [cleanups EXCEPT ![p] = @ + 1]
  /\ path' = [path EXCEPT ![p] = Absent]
  /\ IF path[p] = Absent \/ Own(p).members # {} THEN UNCHANGED <<cgroup, error>>
     ELSE cgroup' = [cgroup EXCEPT ![path[p]] = Absent] /\ UNCHANGED error

\* Cleanup: rmdir is refused while a process is in the cgroup, and may fail
\* otherwise; the path is kept for another attempt then.
Cleanup(p) ==
  /\ cleanups' = [cleanups EXCEPT ![p] = @ + 1]
  /\ IF path[p] = Absent THEN UNCHANGED <<path, cgroup, error>>
     ELSE \/ /\ cgroup[path[p]] # Absent /\ cgroup[path[p]].members = {}
             /\ cgroup' = [cgroup EXCEPT ![path[p]] = Absent]
             /\ path' = [path EXCEPT ![p] = Absent]
             /\ UNCHANGED error
          \/ Reports(p, "cleanup") /\ UNCHANGED <<path, cgroup>>

\* After an error of configure nobody else knows the cgroup.
Undo(p) ==
  /\ Step(p, "undo", "end")
  /\ Cleanup(p)
  /\ UNCHANGED <<written, fsize, request, hostVars>>

\* The deferred call of Parent.  Cleanup may be called repeatedly.
CleanupCall(p) ==
  /\ pc[p] \in {"cleanup", "end"} /\ cleanups[p] < MaxCleanups
  /\ pc' = [pc EXCEPT ![p] = "end"]
  /\ Cleanup(p)
  /\ UNCHANGED <<written, fsize, request, hostVars>>

\* The owner of the hierarchy takes a controller back.
Revoke(c) ==
  /\ c \in delegated
  /\ delegated' = delegated \ {c}
  /\ cgroup' = [n \in Names |->
       IF cgroup[n] = Absent THEN Absent
       ELSE [cgroup[n] EXCEPT !.limits =
               [f \in {f \in DOMAIN @ : Controller(f) # c} |-> @[f]]]]
  /\ lost' = [p \in Procs |->
       IF \A i \in DOMAIN Files : Controller(Files[i]) = c => i <= written[p]
       THEN lost[p] \cup {c} ELSE lost[p]]
  /\ UNCHANGED <<request, pc, error, path, written, cleanups, fsize>>

Finished == (\A p \in Procs : pc[p] = "end") /\ UNCHANGED vars

Next ==
  \/ \E p \in Procs :
       \/ Check(p) \/ Mkdir(p) \/ Configure(p) \/ Configured(p)
       \/ Attach(p) \/ ApplyFileSizeLimit(p) \/ ChildGone(p)
       \/ Undo(p) \/ CleanupCall(p)
  \/ \E n \in Names : LastProcessGone(n)
  \/ \E c \in Controllers : Revoke(c)
  \/ Finished

Spec == Init /\ [][Next]_vars

-----------------------------------------------------------------------------
(* Properties.                                                             *)

\* The variables have their types.
TypeOK ==
  /\ request \in [Procs -> Requests]
  /\ pc \in [Procs -> {"check", "mkdir", "configure", "undo", "attach", "child",
                      "running", "dying", "cleanup", "end"}]
  /\ error \in [Procs -> SUBSET {"prepare", "run", "denied", "cleanup"}]
  /\ path \in [Procs -> Names \cup {Absent}]
  /\ written \in [Procs -> 0..Len(Files)]
  /\ cleanups \in [Procs -> 0..MaxCleanups]
  /\ DOMAIN cgroup = Names
  /\ \A n \in Names : cgroup[n] # Absent =>
       \E F \in SUBSET ToSet(Files) : cgroup[n] \in CgroupsWith(F)
  /\ delegated \subseteq Controllers /\ lost \in [Procs -> SUBSET Controllers]

\* A payload never runs without a limit it was to have: each requested one is in
\* its cgroup with the value asked for, no unit lost to the word's width, unless
\* the owner of the hierarchy took the controller away after it was written.
RunsUnderItsLimits ==
  \A p \in Procs : pc[p] = "running" /\ Requested(p) # {} =>
    /\ path[p] # Absent /\ cgroup[path[p]] # Absent /\ p \in Own(p).members
    /\ \A f \in ToSet(Files) :
         Controller(f) \in Requested(p) \ lost[p] =>
           /\ f \in DOMAIN Own(p).limits
           /\ Own(p).limits[f] =
                IF f = "memory.max" THEN request[p].memory * UnitBytes ELSE Value(p, f)

\* Runs keep out of each other's cgroups: whoever has a path has it alone and it
\* is his own cgroup, although a name that was removed is given out again.
PathIsOwn ==
  \A p \in Procs : path[p] # Absent => cgroup[path[p]] # Absent /\ Own(p).owner = p

\* A cgroup that nobody will remove any more was reported.
LeftCgroupReported ==
  \A n \in Names : cgroup[n] # Absent /\ pc[cgroup[n].owner] = "end" =>
    /\ "cleanup" \in error[cgroup[n].owner]
    /\ path[cgroup[n].owner] = n

\* The child's file size limit is never weaker than the one it began with or the
\* one it was asked for, and the kernel never refuses it.
FileSizeNeverWeaker ==
  \A p \in Procs :
    /\ "denied" \notin error[p]
    /\ fsize[p] # Absent =>
         /\ fsize[p].now.cur <= fsize[p].before.cur /\ fsize[p].now.max <= fsize[p].before.max
         /\ request[p].file > 0 => fsize[p].now.max <= request[p].file * UnitBytes

\* Neither a failure of one of the writes, nor a controller taken back before its
\* limits were written, nor the width of a word, nor an inherited limit gives a
\* payload more than it may have.  A controller that is taken back later takes its
\* limits along, and nothing in the code can keep them.
LimitsHold == TypeOK /\ RunsUnderItsLimits /\ FileSizeNeverWeaker

\* Each cgroup has one run that answers for it, until it is removed or reported.
CgroupsAccounted == PathIsOwn /\ LeftCgroupReported
=============================================================================
