-------------------------- MODULE MCResourceLimits --------------------------
(* Two runs below one delegated cgroup, with two names between them.  The word  *)
(* has three units and a rest: three units fit, four overflow it.               *)
EXTENDS ResourceLimits

\* Everything; more memory than the word holds; more for files than it holds.
MCRequests ==
  {[cpu |-> 50, memory |-> 3, pids |-> 7, file |-> 2],
   [cpu |-> 1, memory |-> 4, pids |-> 0, file |-> 0],
   [cpu |-> 0, memory |-> 0, pids |-> 0, file |-> 4]}

Symmetry == Permutations(Procs) \cup Permutations(Names)

MCInherited ==
  {r \in [cur : {0, 13, 20, 63}, max : {13, 20, 63}] : r.cur <= r.max}
=============================================================================
