--------------------------- MODULE ChildPrivileges ---------------------------
(***************************************************************************)
(* The last part of Child (child/child.go): privileges are given up thread *)
(* by thread (Confinement) while ApplySeccompFilter builds and installs a  *)
(* program (SeccompFilter); from the start of the payload on, the kernel   *)
(* runs that program on every system call in the sandbox, the init's own   *)
(* included.                                                               *)
(***************************************************************************)
EXTENDS Confinement

CONSTANTS
  Policies,    \* the values of blocked_syscalls, sequences of names
  Actions,     \* the values of blocked_syscall_action
  Calls,       \* the system calls made, records of arch and nr
  MaxInsns     \* BPF_MAXINSNS

ASSUME PoliciesAssumption == Policies \subseteq Seq(STRING)
ASSUME CallsAssumption == \A c \in Calls : c.arch \in Nat /\ c.nr \in Nat
ASSUME MaxInsnsAssumption == MaxInsns \in Nat

VARIABLES
  filter,      \* what has become of the filter
  arch, policy, program, call, ip, acc, verdict   \* as in SeccompFilter

Filter == INSTANCE SeccompFilter WITH pc <- filter
filterVars == <<filter, arch, policy, program, call, ip, acc, verdict>>

ChildInit == Init /\ Filter!Init

\* buildFilter comes before the process changes anything for the filter.
BuildFilter == pc = "noNewPrivs" /\ Filter!Build /\ UNCHANGED vars

\* Then no_new_privs, and the program is given to the kernel, which
\* refuses it to a thread without the privilege; or Child returns.
ApplySeccompFilter ==
  \/ filter = "refused" /\ pc = "noNewPrivs" /\ Fail("policy") /\ UNCHANGED filterVars
  \/ filter = "install" /\ NoNewPrivs /\ UNCHANGED filterVars
  \/ /\ pc = "seccomp"
     /\ IF Filter!Checked THEN Install ELSE Fail("rejected")
     /\ IF Filter!Checked /\ pc' = "failed" THEN UNCHANGED filterVars ELSE Filter!Install

\* Under the program: the payload, what it has started, and its init.
SystemCall ==
  /\ pc = "running"
  /\ (\E c \in Calls : Filter!Enter(c)) \/ Filter!Execute
  /\ UNCHANGED vars

ChildNext ==
  \/ (Runtime \/ DropCapabilities) /\ UNCHANGED filterVars
  \/ BuildFilter \/ ApplySeccompFilter
  \/ (StartPayload \/ PayloadExec) /\ UNCHANGED filterVars
  \/ SystemCall
  \/ (OtherError \/ Refused) /\ UNCHANGED filterVars

ChildSpec == ChildInit /\ [][ChildNext]_<<vars, filterVars>>

-----------------------------------------------------------------------------
(* Properties.                                                             *)

\* When the payload runs it has just the capabilities that drop_capabilities
\* leaves, execs bring none back, and the filter and no_new_privs bind it and every
\* thread of its init, although Child changes one thread and the Go runtime moves
\* goroutines and begins threads meanwhile.
PayloadConfined ==
  /\ TypeOK
  /\ PayloadHasWhatIsLeft
  /\ EverythingFiltered
  /\ payload # None => filter \in {"installed", "filter", "decided"}

\* Once the payload runs, the program that buildFilter wrote decides every call of
\* every interface as the policy says; and no policy that was accepted stops the
\* calls by which the init starts, signals and reaps the payload.
CallsDecided == Filter!DecidesByPolicy /\ Filter!InitSurvives

\* The kernel refuses neither a step for want of a privilege that an earlier one
\* gave up, nor the program.
NeverRefused == NeverDenied /\ Filter!NeverRejected
=============================================================================
