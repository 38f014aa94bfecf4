----------------------------- MODULE Confinement -----------------------------
(***************************************************************************)
(* How the child gives up its privileges before it starts the payload      *)
(* (Child and dropCapabilities in child/child.go, ApplySeccompFilter in    *)
(* security/seccomp.go).  Linux keeps capabilities, no_new_privs and the   *)
(* seccomp filter per thread, and the Go runtime moves a goroutine between *)
(* threads as it likes unless the goroutine is locked to one; the payload  *)
(* is forked from the thread that the goroutine is on.                     *)
(*                                                                         *)
(* The child is user 0 of a new user namespace, with every capability of   *)
(* it.  What it says and what else it does is in SandboxLifecycle, what    *)
(* the filter decides in SeccompFilter; ChildPrivileges puts them together. *)
(***************************************************************************)
EXTENDS Naturals, Sequences, FiniteSetsExt

CONSTANTS
  Threads,      \* OS threads the runtime may use
  Main,         \* the one the process begins with
  LastCap,      \* the kernel's last capability (/proc/sys/kernel/cap_last_cap)
  LastName,     \* the last capability that capabilityNames knows
  SETPCAP, SYS_ADMIN,
  ALL,
  Requests,     \* the values of drop_capabilities: ALL or a set of numbers
  None

Caps == 0..LastCap

ASSUME ConfinementAssumption ==
  /\ Main \in Threads /\ Threads # {Main}
  /\ LastCap \in Nat /\ LastName \in Nat
  /\ SETPCAP \in Caps /\ SYS_ADMIN \in Caps
  /\ \A r \in Requests : r = ALL \/ r \subseteq 0..LastName
  /\ ALL # {}

Sets == {"effective", "permitted", "inheritable", "ambient", "bounding"}

\* What a payload runs with.
Payloads == [sets : [Sets -> SUBSET Caps], nnp : BOOLEAN, filtered : BOOLEAN]

ASSUME NoneAssumption == None \notin Payloads

VARIABLES
  pc,          \* the next step of Child
  why,         \* what it failed with
  request,     \* cfg.DropCapabilities
  on,          \* the thread its goroutine is on
  locked,      \* the goroutine is locked to it
  live,        \* the threads there are
  todo,        \* the capabilities still to be taken from the bounding set
  caps,        \* caps[t], the capability sets of thread t
  nnp,         \* the threads with no_new_privs
  filtered,    \* the threads under the seccomp filter
  payload      \* the payload's capability sets and restrictions

vars == <<pc, why, request, on, locked, live, todo, caps, nnp, filtered, payload>>

\* What the first exec in a new user namespace leaves.  The runtime has begun a
\* second thread, its monitor, before the program does anything.
FullSets ==
  [s \in Sets |-> IF s \in {"inheritable", "ambient"} THEN {} ELSE Caps]
NoSets == [s \in Sets |-> {}]

Init ==
  /\ pc = "lock" /\ why = "none"
  /\ request \in Requests
  /\ on = Main /\ locked = FALSE
  /\ \E t \in Threads \ {Main} : live = {Main, t}
  /\ todo = {}
  /\ caps = [t \in Threads |-> FullSets]
  /\ nnp = {} /\ filtered = {}
  /\ payload = None

Dropped == IF request = ALL THEN Caps ELSE request

Mine == caps[on]
Fail(reason) ==
  /\ pc' = "failed" /\ why' = reason
  /\ UNCHANGED <<request, on, locked, live, todo, caps, nnp, filtered, payload>>

\* Mutant: the capability sets are cleared before the bounding set is.
StepsSetsFirst ==
  <<"collect", "capset", "bounding", "ambient", "noNewPrivs", "seccomp", "start">>

\* The order of the steps of dropCapabilities and ApplySeccompFilter.
Steps ==
  <<"collect", "bounding", "capset", "ambient", "noNewPrivs", "seccomp", "start">>

Then(step) == Steps[1 + CHOOSE i \in DOMAIN Steps : Steps[i] = step]

At(step) == pc = step /\ pc' = Then(step) /\ UNCHANGED <<why, request, on, locked, live>>

-----------------------------------------------------------------------------
(* The Go runtime.                                                         *)

\* The goroutine goes on, on another thread.
Migrate(t) ==
  /\ ~locked /\ pc \notin {"running", "failed"}
  /\ t \in live \ {on}
  /\ on' = t
  /\ UNCHANGED <<pc, why, request, locked, live, todo, caps, nnp, filtered, payload>>

\* A new thread has the restrictions of its creator, which is never the thread
\* that a goroutine is locked to: a template thread is kept for that.
NewThread(t, creator) ==
  /\ pc \notin {"running", "failed"}
  /\ t \notin live /\ creator \in live
  /\ locked => creator # on
  /\ live' = live \cup {t}
  /\ caps' = [caps EXCEPT ![t] = caps[creator]]
  /\ nnp' = IF creator \in nnp THEN nnp \cup {t} ELSE nnp
  /\ filtered' = IF creator \in filtered THEN filtered \cup {t} ELSE filtered
  /\ UNCHANGED <<pc, why, request, on, locked, todo, payload>>

\* Mutant: the goroutine is not locked to its thread.
LockNothing ==
  /\ pc = "lock"
  /\ pc' = IF request = {} THEN "noNewPrivs" ELSE "collect"
  /\ UNCHANGED <<why, request, on, locked, live, todo, caps, nnp, filtered, payload>>

\* runtime.LockOSThread; dropCapabilities returns at once for an empty list.
LockOSThread ==
  /\ pc = "lock"
  /\ pc' = IF request = {} THEN "noNewPrivs" ELSE "collect"
  /\ locked' = TRUE
  /\ UNCHANGED <<why, request, on, live, todo, caps, nnp, filtered, payload>>

-----------------------------------------------------------------------------
(* dropCapabilities.                                                       *)

\* CapabilityNumber for each name; for ALL, all up to the kernel's last one.
Numbers == Dropped

\* Where the root file system has no /proc the last one cannot be read.
Collect ==
  \/ /\ At("collect")
     /\ todo' = Numbers
     /\ UNCHANGED <<caps, nnp, filtered, payload>>
  \/ pc = "collect" /\ request = ALL /\ Fail("proc")

\* The next number, CAP_SETPCAP after all others.
Number == IF todo = {SETPCAP} THEN SETPCAP ELSE Min(todo \ {SETPCAP})

\* prctl(PR_CAPBSET_DROP): for a capability the kernel has, with CAP_SETPCAP.
DropBounding ==
  /\ pc = "bounding" /\ todo # {}
  /\ IF Number \notin Caps THEN Fail("unknown")
     ELSE IF SETPCAP \notin Mine["effective"] THEN Fail("denied")
     ELSE /\ caps' = [caps EXCEPT ![on]["bounding"] = @ \ {Number}]
          /\ todo' = todo \ {Number}
          /\ UNCHANGED <<pc, why, request, on, locked, live, nnp, filtered, payload>>

BoundingDone ==
  /\ todo = {}
  /\ At("bounding")
  /\ UNCHANGED <<todo, caps, nnp, filtered, payload>>

\* capget and capset: three sets without the dropped capabilities.  The kernel
\* keeps the ambient set within them.
Capset ==
  /\ At("capset")
  /\ caps' = [caps EXCEPT ![on] =
       [s \in Sets |-> CASE s = "bounding" -> @[s]
                         [] s = "ambient" -> (@[s] \cap @["inheritable"]) \ Dropped
                         [] OTHER -> @[s] \ Dropped]]
  /\ UNCHANGED <<todo, nnp, filtered, payload>>

ClearAmbient ==
  /\ At("ambient")
  /\ caps' = [caps EXCEPT ![on]["ambient"] = {}]
  /\ UNCHANGED <<todo, nnp, filtered, payload>>

-----------------------------------------------------------------------------
(* ApplySeccompFilter, and the start of the payload.                       *)

NoNewPrivs ==
  /\ At("noNewPrivs")
  /\ nnp' = nnp \cup {on}
  /\ UNCHANGED <<todo, caps, filtered, payload>>

\* seccomp(SET_MODE_FILTER, TSYNC): with no_new_privs or CAP_SYS_ADMIN; every
\* thread of the process gets the filter and the caller's no_new_privs.
Install ==
  /\ pc = "seccomp"
  /\ IF on \notin nnp /\ SYS_ADMIN \notin Mine["effective"] THEN Fail("denied")
     ELSE /\ At("seccomp")
          /\ filtered' = live
          /\ nnp' = IF on \in nnp THEN live ELSE nnp
          /\ UNCHANGED <<todo, caps, payload>>

\* What exec of a plain file makes of the sets, for user 0: everything in the
\* bounding or inheritable set, but with no_new_privs nothing that is new.
AfterExec(sets, restricted) ==
  LET gained == sets["bounding"] \cup sets["inheritable"]
      permitted == IF restricted THEN gained \cap sets["permitted"] ELSE gained
  IN [s \in Sets |-> IF s \in {"effective", "permitted"} THEN permitted ELSE sets[s]]

\* exec.LookPath and payload.Start.
StartPayload ==
  /\ pc = "start"
  /\ pc' = "running"
  /\ payload' = [sets |-> AfterExec(Mine, on \in nnp), nnp |-> on \in nnp,
                 filtered |-> on \in filtered]
  /\ UNCHANGED <<why, request, on, locked, live, todo, caps, nnp, filtered>>

\* A later exec by the payload.
PayloadExec ==
  /\ pc = "running"
  /\ payload' = [payload EXCEPT !.sets = AfterExec(@, payload.nnp)]
  /\ UNCHANGED <<pc, why, request, on, locked, live, todo, caps, nnp, filtered>>

\* A system call fails for another reason, or the executable is not found.
OtherError == pc \notin {"lock", "running", "failed"} /\ Fail("other")

Refused == pc = "failed" /\ UNCHANGED vars

Runtime == \E t \in Threads : Migrate(t) \/ \E c \in Threads : NewThread(t, c)
DropCapabilities ==
  LockOSThread \/ Collect \/ DropBounding \/ BoundingDone \/ Capset \/ ClearAmbient

-----------------------------------------------------------------------------
(* Properties.                                                             *)

\* The variables have their types, and the failure has a name.
TypeOK ==
  /\ pc \in {"lock", "collect", "bounding", "capset", "ambient", "noNewPrivs",
             "seccomp", "start", "running", "failed"}
  /\ why \in {"none", "proc", "unknown", "denied", "policy", "rejected", "other"}
  /\ (pc = "failed" <=> why # "none")
  /\ on \in live /\ live \subseteq Threads
  /\ todo \subseteq Caps \cup 0..LastName
  /\ caps \in [Threads -> [Sets -> SUBSET Caps]]
  /\ nnp \subseteq live /\ filtered \subseteq live
  /\ (payload # None <=> pc = "running")

\* The payload has just the capabilities that drop_capabilities leaves it, and
\* execs never bring a dropped one back, although each system call of
\* dropCapabilities changes one thread and the runtime has several.
PayloadHasWhatIsLeft ==
  payload # None =>
    /\ \A s \in Sets : payload.sets[s] \cap Dropped = {}
    /\ payload.sets["permitted"] = Caps \ Dropped

\* The filter and no_new_privs bind the payload and every thread of its init,
\* the threads too that started before or while they were installed.
EverythingFiltered ==
  payload # None => payload.filtered /\ payload.nnp /\ live \subseteq filtered \cap nnp

\* The order of the steps never takes away a privilege that a later one needs.
NeverDenied == why # "denied"
=============================================================================
