-------------------------- MODULE MCChildPrivileges --------------------------
(* Three threads; four capabilities of the kernel and a fifth that only the  *)
(* table of names knows; policies of up to two names, known and unknown, and *)
(* those that list every name of an architecture; calls of both              *)
(* architectures and a third, with and without the x32 bit.                  *)
EXTENDS ChildPrivileges, SequencesExt

MCRequests == SUBSET {0, SETPCAP, SYS_ADMIN, LastName} \cup {ALL}

OnBoth == <<"reboot", "mount", "ptrace", "swapon", "syslog", "init_module",
            "finit_module", "delete_module", "kcmp", "process_vm_readv",
            "process_vm_writev">>
MCPolicies ==
  SeqOf({"mount", "iopl", "wait4"}, 2) \cup {OnBoth, OnBoth \o <<"iopl", "ioperm">>}

\* clone, kill and wait4 of the two architectures, by which the init works, and
\* others at the ends of the tables.
InitNumbers == {56, 61, 62, 129, 220, 260}
CallNumbers == {0, 40, 165, 172, 271, 311} \cup InitNumbers
MCCalls ==
  [arch : {62, 183, 3}, nr : CallNumbers \cup {2^30 + 40, 2^30 + 165, 2^30 + 260}]
=============================================================================
