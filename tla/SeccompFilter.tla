--------------------------- MODULE SeccompFilter ---------------------------
(***************************************************************************)
(* The seccomp filter (security/seccomp.go, seccomp_arch_*.go): buildFilter *)
(* turns the list of blocked system calls into a BPF program, the kernel    *)
(* checks and installs it, and then runs it on every system call of the     *)
(* sandbox, those of its init included.  ChildPrivileges composes it with   *)
(* the steps of the child that installs it.                                 *)
(***************************************************************************)
EXTENDS Naturals, Sequences, SequencesExt

CONSTANTS
  Policies,    \* the values of blocked_syscalls, sequences of names
  Actions,     \* the values of blocked_syscall_action
  Calls,       \* the system calls made, records of arch and nr
  MaxInsns     \* BPF_MAXINSNS

VARIABLES
  arch,        \* what the sandbox was built for: "amd64", "arm64" or another
  pc,          \* where the installation, or the kernel, is
  policy,      \* blocked_syscalls and blocked_syscall_action
  program,     \* the instructions
  call,        \* the system call being decided, its seccomp_data
  ip, acc,     \* the BPF machine: the next instruction and the accumulator
  verdict      \* what the program returned

vars == <<arch, pc, policy, program, call, ip, acc, verdict>>

\* syscallNameToNumber on amd64.
amd64 == [
  reboot |-> 169, mount |-> 165, ptrace |-> 101, swapon |-> 167, syslog |-> 103,
  init_module |-> 175, finit_module |-> 313, delete_module |-> 176, iopl |-> 172,
  ioperm |-> 173, kcmp |-> 312, process_vm_readv |-> 310, process_vm_writev |-> 311]

\* syscallNameToNumber on arm64, which has no port permissions.
arm64 == [
  reboot |-> 142, mount |-> 40, ptrace |-> 117, swapon |-> 224, syslog |-> 116,
  init_module |-> 105, finit_module |-> 273, delete_module |-> 106,
  kcmp |-> 272, process_vm_readv |-> 270, process_vm_writev |-> 271]

\* The build tags choose one of the three files.
syscallNameToNumber ==
  CASE arch = "amd64" -> amd64 [] arch = "arm64" -> arm64 [] OTHER -> [n \in {} |-> 0]

\* The machine's number, the part of AUDIT_ARCH_* that tells them apart.
auditArchitecture ==
  CASE arch = "amd64" -> 62 [] arch = "arm64" -> 183 [] OTHER -> 0
x32ABIBit == IF arch = "amd64" THEN 1073741824 ELSE 0   \* 1 << 30

\* What the init and the Go runtime under it call once the filter is installed:
\* fork, exec, wait, signals, threads, memory, exit.
initCalls ==
  CASE arch = "amd64" -> {1, 9, 13, 14, 56, 59, 61, 62, 186, 202, 231, 234}
    [] arch = "arm64" -> {64, 94, 98, 129, 131, 134, 135, 178, 220, 221, 222, 260}
    [] OTHER -> {}

NoCall == [arch |-> 0, nr |-> 0]

Init ==
  /\ arch \in {"amd64", "arm64", "other"}
  /\ pc = "build"
  /\ policy \in [names : Policies, action : Actions]
  /\ program = <<>> /\ call = NoCall /\ ip = 1 /\ acc = 0 /\ verdict = "none"

-----------------------------------------------------------------------------
(* buildFilter.                                                            *)

Insn(code, jt, jf, k) == [code |-> code, jt |-> jt, jf |-> jf, k |-> k]
Load(field) == Insn("LD", 0, 0, field)
Ret(action) == Insn("RET", 0, 0, action)

\* actionToReturn
Returns == [kill |-> "KILL_PROCESS", trap |-> "TRAP"]

\* blockedSyscallNumbers and actionToReturn
ValidPolicy ==
  /\ auditArchitecture # 0
  /\ \A i, j \in DOMAIN policy.names : policy.names[i] = policy.names[j] => i = j
  /\ ToSet(policy.names) \subseteq DOMAIN syscallNameToNumber
  /\ policy.action \in DOMAIN Returns

\* Two instructions for each blocked number.
checks ==
  [i \in 1..(2 * Len(policy.names)) |->
     IF i % 2 = 1
     THEN Insn("JEQ", 0, 1, syscallNameToNumber[policy.names[(i + 1) \div 2]])
     ELSE Ret(Returns[policy.action])]

x32Guard ==
  IF x32ABIBit = 0 THEN <<>>
  ELSE <<Insn("JSET", 0, 1, x32ABIBit), Ret("KILL_PROCESS")>>

\* Mutant: the architecture is not looked at.
instructionsAnyArch ==
  <<Load("nr")>> \o x32Guard \o checks \o <<Ret("ALLOW")>>

instructions ==
  <<Load("arch"), Insn("JEQ", 1, 0, auditArchitecture), Ret("KILL_PROCESS"), Load("nr")>>
  \o x32Guard \o checks \o <<Ret("ALLOW")>>

\* buildFilter: an error ends the sandbox before its payload.
Build ==
  /\ pc = "build"
  /\ IF ValidPolicy /\ Len(instructions) <= MaxInsns
     THEN program' = instructions /\ pc' = "install"
     ELSE pc' = "refused" /\ UNCHANGED program
  /\ UNCHANGED <<arch, policy, call, ip, acc, verdict>>

-----------------------------------------------------------------------------
(* The kernel.                                                             *)

\* bpf_check_classic: jumps stay inside, and the last instruction returns.
Checked ==
  /\ Len(program) \in 1..MaxInsns
  /\ \A i \in DOMAIN program :
       program[i].code \in {"JEQ", "JSET"} =>
         i + 1 + program[i].jt <= Len(program) /\ i + 1 + program[i].jf <= Len(program)
  /\ program[Len(program)].code = "RET"

\* SECCOMP_SET_MODE_FILTER of ApplySeccompFilter.
Install ==
  /\ pc = "install"
  /\ pc' = IF Checked THEN "installed" ELSE "rejected"
  /\ UNCHANGED <<arch, policy, program, call, ip, acc, verdict>>

\* A process of the sandbox enters the kernel, perhaps in a compatibility mode.
Enter(c) ==
  /\ pc \in {"installed", "decided"}
  /\ pc' = "filter" /\ call' = c /\ ip' = 1 /\ acc' = 0 /\ verdict' = "none"
  /\ UNCHANGED <<arch, policy, program>>

Insns == program[ip]
Jump(taken) == ip' = ip + 1 + (IF taken THEN Insns.jt ELSE Insns.jf)

\* The number n has the bit, a power of 2.
HasBit(n, bit) == (n \div bit) % 2 = 1

\* One instruction.
Execute ==
  /\ pc = "filter"
  /\ CASE Insns.code = "LD" -> /\ acc' = IF Insns.k = "arch" THEN call.arch ELSE call.nr
                               /\ ip' = ip + 1 /\ UNCHANGED <<pc, verdict>>
       [] Insns.code = "JEQ" -> Jump(acc = Insns.k) /\ UNCHANGED <<pc, acc, verdict>>
       [] Insns.code = "JSET" -> Jump(HasBit(acc, Insns.k)) /\ UNCHANGED <<pc, acc, verdict>>
       [] OTHER -> verdict' = Insns.k /\ pc' = "decided" /\ UNCHANGED <<ip, acc>>
  /\ UNCHANGED <<arch, policy, program, call>>

-----------------------------------------------------------------------------
(* Properties.                                                             *)

\* What the policy says of a call: another architecture's and x32's calls have
\* other numbers and are never let through, listed ones get the action.
Decision(c) ==
  IF c.arch # auditArchitecture \/ (x32ABIBit # 0 /\ HasBit(c.nr, x32ABIBit))
  THEN "KILL_PROCESS"
  ELSE IF \E n \in ToSet(policy.names) : syscallNameToNumber[n] = c.nr
  THEN (IF policy.action = "kill" THEN "KILL_PROCESS" ELSE "TRAP")
  ELSE "ALLOW"

\* The program that buildFilter writes decides every call as the policy says,
\* whatever jumps it takes on the way.
DecidesByPolicy == pc = "decided" => verdict = Decision(call)

\* The kernel accepts every program that buildFilter returns.
NeverRejected == pc # "rejected"

\* No policy that is accepted stops the init, which runs under the filter while
\* it starts, signals and reaps the payload.
InitSurvives ==
  pc = "decided" /\ call.arch = auditArchitecture /\ call.nr \in initCalls
    => verdict = "ALLOW"
=============================================================================
